\* Two threads; chunks of 6 bytes hold two packets of 3 bytes or one of 6; messages
\* of 5 bytes fit no chunk, the length 8 does not fit the size field.
SPECIFICATION StreamSpec
CONSTANTS
    Header = 2
    Word = 8
    BufferSize = 8
    BufferCount = 3
    PeerPackets <- MCPackets
    MaxPackets = 3
    Thread = {t1, t2}
    Chunk = {c1, c2, c3}
    ChunkSize = 6
    ByteSizes = {1, 4, 5, 8}
    MaxMade = 3
    Window = 3
    None = None
INVARIANTS Intact NeverOpenTwice PacketsWhole RoomToReceive MemcpyIsDisjoint
PROPERTY EveryPacketArrives
\* The stream ends at the bound on packets.
CHECK_DEADLOCK FALSE
