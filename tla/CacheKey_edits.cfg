SPECIFICATION Spec
CONSTANTS
  Source = {s1, s2}
  Str = {1, 2, 3}
  MaxLayouts = 2
  MaxFields = 1
PROPERTIES
  SameRequestSameKey
  EditChangesKey
