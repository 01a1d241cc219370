SPECIFICATION Spec
CONSTANTS
  Words <- MCWords
  Opcodes = {{}, {0}, {0, 1, 2, 3}}
  Rcodes <- MCRcodes
  ExtRcodes = {{}, {0}, {0, 7}}
  Versions = {{}, {0, 7}}
  Ttls <- MCTtls
  None = None
INVARIANT HeaderReadsBack
 
