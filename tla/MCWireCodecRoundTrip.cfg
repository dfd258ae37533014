CONSTANTS
    MaxLength   <- MCMaxLength
    PayloadLens <- MCPayloadLens
    RoguePrefixes <- MCRoguePrefixes
    MaxFrames   <- MCMaxFrames

SPECIFICATION Spec
INVARIANT EncodedFramesDecode
CHECK_DEADLOCK FALSE
