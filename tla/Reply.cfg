\* Every function, on tables that start at address 2 except the registers that
\* are written, which start at 0.
SPECIFICATION Spec
CONSTANTS
  Bit = {b1}
  Start <- MCStartMixed
  Size <- MCSize
  Limit <- MCLimit
  Asked = {0, 1, 2}
  Quantities = {0, 1, 2, 3}
  Contents <- MCContents
  MaxWaiting = 1
  Served <- MCAll
INVARIANT TypeOK
PROPERTY KeepsPromise
