SPECIFICATION Spec
CONSTANTS
  Programs <- MCPrograms
  ClassName = {"S", "_S"}
  PartsOf <- MCPartsOf
  InOrder <- MCInOrder
  MaxVersion = 2
INVARIANTS
  RunsWhatIsAskedFor
  LinkedToItsOwn
  VerifiedAsItself
  RecursionIsCut
