SPECIFICATION FairSpec
CONSTANTS
  MaxLines = 4
  Room <- MCRoom
  Long = {4}
INVARIANTS InOrder NoChildLeft
PROPERTIES HelperReleased StreamEnds ScannerEnds
