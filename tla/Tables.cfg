SPECIFICATION Spec
CONSTANTS
  Words <- MCWords
  MaxLimit = 10
  MinLimit = 1
  MaxRows = 2
  MaxTotal = 2
  MaxTime = 2
INVARIANTS
  TypeOK
  FiledOnce
PROPERTY ValuesInOrder
