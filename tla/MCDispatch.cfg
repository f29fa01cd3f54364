CONSTANTS
    Conn = {c1, c2}
    Items = {1}
    StartCount = 2147483647
    WriteTxs = TRUE
    MaxInbox = 1
    MaxMsgs = 2

SPECIFICATION Spec

\* Connections stop once their peers have sent MaxMsgs messages or hung up;
\* a sensor whose peers are silent blocks in ReadMsg for ever.
CHECK_DEADLOCK FALSE

PROPERTY RequestsAnswered
