CONSTANTS
    Formats <- MCFormats
    Sources <- MCSources
    Stride = 64
SPECIFICATION Spec
INVARIANTS
    LayoutKept
    ChannelsRead
    StepsOnePixel
    ExtraKept
\* A buffer is used once.
CHECK_DEADLOCK FALSE
