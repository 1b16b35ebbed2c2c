\* A client that keeps to the documented uses, and no failing allocation; x can
\* be carried by the raw calls only. A third tag only makes chains of links longer.
CONSTANTS
  NoSig = NoSig
  Null = Null
  P = P
  y = y
  XYZ = XYZ
  Sigs = {A, B, C, P}
  Payloads = {x, y}
  Malformed = {x}
  Types = {XYZ}
  TypeOf <- MCTypeOf
  Width <- MCWidth
  Supported <- MCSupported
  Objects = {o1, o2}
  MaxWord = 100
  MaxTags = 3
  AvoidTypeCheck = FALSE
  Careful = TRUE
  Faults = FALSE
SPECIFICATION Spec
SYMMETRY FullSymmetry
VIEW StateView
CHECK_DEADLOCK FALSE
INVARIANTS TypeOK CallsReturn
PROPERTIES ReadsArePure SavePreserves ImplementsDictionary
CONSTRAINT ThirdIsOfAChain
