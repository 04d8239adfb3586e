\* The bytes poll_read returns against the payload the peer sent.
CONSTANTS
    NativeLittleEndian = TRUE
    Scripts <- MCScripts
    Capacity = 17
    MaxChunk = 3
    CallerSpace = {2, 8}
SPECIFICATION Spec
INVARIANT DataIntegrity
CHECK_DEADLOCK FALSE
