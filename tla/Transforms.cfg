SPECIFICATION Spec
CONSTANTS
    Threads = {t1, t2}
    Zero = Zero
    Easy = Easy
    Delicate = Delicate
    Colours = {Zero, Easy, Delicate}
    OutOfGamut = {Zero}
    Fine = {Delicate}
    Codes = {red, grey}
    NoFormat = NoFormat
    Wide = Wide
    Narrow = Narrow
    Double = Double
    Odd = Odd
    Formats = {Wide, Narrow, Double, Odd, NoFormat}
    Floats = {Double}
    Known = {Wide, Narrow, Double}
    Bytes <- SomeBytes
    Extra <- SomeExtra
    FlagSets <- SomeFlagSets
    Buffers <- SomeBuffers
    Careful = TRUE
    Faults = TRUE
SYMMETRY SameThreads
INVARIANTS
    ChangeableIsExact
    PixelsConverted
