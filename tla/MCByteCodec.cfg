CONSTANTS
    MaxLength     <- MCMaxLength
    Writes        <- MCWrites
    RoguePrefixes <- MCRoguePrefixes
    MaxFrames     <- MCMaxFrames
    SidSeed       <- MCSidSeed

SPECIFICATION Spec
INVARIANT TypeOK
INVARIANT FramesIntact
INVARIANT ClassifiedAsWritten
PROPERTY WireCodecRefined
CHECK_DEADLOCK FALSE
