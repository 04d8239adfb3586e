\* The frame codec round trip and the parser against the RFC reference.
CONSTANTS
    NativeLittleEndian = TRUE
    PayloadCap = 127
    Inputs <- MCInputs
SPECIFICATION Spec
INVARIANTS
    TypeOK
    RoundTrip
    MaskMatchesNaive
    ParseAgreesWithReference
    NeedNeverOvershoots
\* the harness ends once the frame is parsed and unmasked
CHECK_DEADLOCK FALSE
