SPECIFICATION Spec
CONSTANTS
    ByteBase = 4
    Icons <- MCIcons
    Images <- MCImages
    ICONS_MAGIC = 201
    VERSION = 1
    NoFile = NoFile
INVARIANT TypeOK
INVARIANT WriterImplementsEncode
