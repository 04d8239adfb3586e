\* A backend whose output is one two-byte UTF-8 character, relayed to a
\* client that asked for text framing.
CONSTANTS
    None = None
    ClientScript <- MCClientScript
    BackendScript <- MCUtf8BackendScript
    Requests <- MCRequests
SPECIFICATION Spec
INVARIANT TextFramesUtf8
CHECK_DEADLOCK FALSE
