\* WebSocketReader::poll_read under every TCP segmentation of the stream.
CONSTANTS
    NativeLittleEndian = TRUE
    Scripts <- MCScripts
    Capacity = 17
    MaxChunk = 3
    CallerSpace = {2, 8}
SPECIFICATION Spec
INVARIANTS
    TypeOK
    ControlIntact
    ArrivalOrder
    CleanEof
PROPERTY
    CopyTerminates
\* copy stops for good after Ok(0) or an error
CHECK_DEADLOCK FALSE
