SPECIFICATION Spec
CONSTANTS
    Word = 32
    BufLen = 7
    BufferSize = 12
    MaxArgc = 5
    Lines <- AllLines
    Numbers <- AllNumbers
    ByteValues = 20
    Addresses = 2
    ChunkSize = 2
    Data = {5, 18}
    Times = {0, 9, 10, 15, 16, 31}
    Readings = {7}
    Results = {0, 31}
INVARIANTS
    LineInBuffer
    
PROPERTY ScreenIsCommand
CHECK_DEADLOCK FALSE
