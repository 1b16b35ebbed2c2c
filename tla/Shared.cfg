\* Two threads, memory that may run out, and two calls of each.
CONSTANTS
  NoSig = NoSig
  Null = Null
  NoThread = NoThread
  A = A
  B = B
  S = S
  T = T
  L = L
  a = a
  b = b
  x = x
  y = y
  XYZ = XYZ
  Curve = Curve
  Sigs = {A, B, S, T, L}
  Payloads = {x, y}
  Malformed = {}
  Types = {XYZ, Curve}
  TypeOf <- MCTypeOf
  Width <- MCWidth
  Supported <- MCSupported
  Objects = {o1, o2, o3, o4}
  MaxTags = 5
  AvoidTypeCheck = FALSE
  Careful = TRUE
  Faults = TRUE
  Threads = {a, b}
  Owner <- MCOwner
  CallsEach = 2
SYMMETRY HeapSymmetry
SPECIFICATION Spec
INVARIANTS
  AnswersHold
  OneAtWork
