SPECIFICATION Spec
CONSTANTS
  Programs <- MCPrograms
  ClassName = {"S", "_S"}
  PartsOf <- MCPartsOf
  InOrder <- MCInOrder
  MaxVersion = 2
INVARIANT MatchedByBaseType
