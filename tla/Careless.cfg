\* A client that does anything the calls allow, and allocations that fail.
CONSTANTS
  NoSig = NoSig
  Null = Null
  P = P
  y = y
  XYZ = XYZ
  Sigs = {A, P}
  Payloads = {y}
  Malformed = {}
  Types = {XYZ}
  TypeOf <- MCTypeOf
  Width <- MCWidth
  Supported <- MCSupported
  Objects = {o1, o2}
  MaxWord = 100
  MaxTags = 2
  AvoidTypeCheck = FALSE
  Careful = FALSE
  Faults = TRUE
SPECIFICATION Spec
SYMMETRY HeapSymmetry
VIEW StateView
CHECK_DEADLOCK FALSE
INVARIANTS Ownership NamesUnique
PROPERTIES ReadsFreeOnlyMisread WritesAreLocal
