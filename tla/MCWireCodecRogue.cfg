CONSTANTS
    MaxLength   <- MCMaxLength
    PayloadLens <- MCPayloadLens
    RoguePrefixes <- MCRoguePrefixesShort
    MaxFrames   <- MCMaxFrames

SPECIFICATION Spec
INVARIANT NoDecoderPanic
CHECK_DEADLOCK FALSE
