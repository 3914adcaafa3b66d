CONSTANTS
    Eof = 0
    MetadataLengthUByte = 17
    MetadataLengthUShort = 18
    VarFourByteEncoding = 24
    VarEightByteEncoding = 25
    VarStrLenUByte = 17
    VarStrLenUShort = 18
    VarStrLenInt = 19
    LogtypeStrLenUByte = 33
    LogtypeStrLenUShort = 34
    LogtypeStrLenInt = 35
    TimestampVal = 48
    TimestampDeltaByte = 49
    TimestampDeltaShort = 50
    TimestampDeltaInt = 51
    FourByteEncodingMagicNumber <- MC_FourByteMagic
    EightByteEncodingMagicNumber <- MC_EightByteMagic
    PlaceholderFloat = 17
    PlaceholderInteger = 18
    PlaceholderDictionary = 19
    EscapeCharacter = 92
    RenderedIntegerBase = 10000
    RenderedFloatBase = 20000
    LogtypeBytes = {65, 17, 18, 19, 92}
    MaxLogtypeLength = 4
    EncodedValues = {3, 4}
    DictValues <- MC_DictValues
    MaxVars = 2
    FieldBytes = {0, 1, 65, 255}
    MaxFieldLength = 5
    FieldTags = {17, 18, 19, 33, 34, 35}
    MagicBytes = {253, 47, 181, 41, 48}
    PreambleBytes = {0, 1, 2, 17, 18}
    MaxPreambleLength = 5
    IntBytes = {0, 1, 127, 128, 255}
    FrameEvents <- MC_FrameEvents

SPECIFICATION Spec
INVARIANT LengthParseMatchesSpec
CHECK_DEADLOCK FALSE
