\* The same mapping with the write-and-read function.
SPECIFICATION Spec
CONSTANTS
  Bit = {b1}
  Start <- MCStartShifted
  Size <- MCSize
  Limit <- MCLimit
  Asked = {1, 2, 3}
  Quantities = {1, 2}
  Contents <- MCContents
  MaxWaiting = 1
  Served <- MCAll
PROPERTY KeepsPromise
