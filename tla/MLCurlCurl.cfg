CONSTANTS
  DomLo <- MCDomLo
  DomHi <- MCDomHi
  Boxes <- MCBoxes
  LoBC <- MCLoBC
  HiBC <- MCHiBC
  niter = 2
  MaxScalars = 2
  MaxSmooths = 2
SPECIFICATION OperatorSpec
INVARIANTS FactorsFresh OrderFree SweepWhole
