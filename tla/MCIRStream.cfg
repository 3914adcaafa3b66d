CONSTANTS
    Eof = 0
    MetadataLengthUByte = 17
    MetadataLengthUShort = 18
    VarFourByteEncoding = 24
    VarEightByteEncoding = 25
    VarStrLenUByte = 17
    VarStrLenUShort = 18
    VarStrLenInt = 19
    LogtypeStrLenUByte = 33
    LogtypeStrLenUShort = 34
    LogtypeStrLenInt = 35
    TimestampVal = 48
    TimestampDeltaByte = 49
    TimestampDeltaShort = 50
    TimestampDeltaInt = 51
    FourByteEncodingMagicNumber <- MC_FourByteMagic
    EightByteEncodingMagicNumber <- MC_EightByteMagic
    PlaceholderFloat = 17
    PlaceholderInteger = 18
    PlaceholderDictionary = 19
    EscapeCharacter = 92
    RenderedIntegerBase = 10000
    RenderedFloatBase = 20000
    Log <- MC_Log
    MetadataTypes = {1}
    MetadataBlobs <- MC_Blobs
    StreamVariants = {"four", "eight"}
    Faulty = FALSE
    CorruptBytes = {}

SPECIFICATION Spec
INVARIANT TypeOK
INVARIANT DecodedAsWritten
PROPERTY ConsumesOneFrame
PROPERTY RefinesAbstract
CHECK_DEADLOCK FALSE
