SPECIFICATION MCSpec
CONSTANTS
    Inputs <- Sessions
    RxMax = 4
    RecvMax = 12
    Payloads <- SomePayloads
    ControlPayloads <- SomeControls
    Codes <- SomeCodes
    TxMax = 140
    SizeModulus = 256
    MaxCalls = 3
    Bytes <- Boundaries
    MaxLen = 5
INVARIANTS
    TypeOK
    ControlFrameFits
    TxTypeOK
    FrameFits
    WrittenAsAsked
    PeerAccepts
    CompleteIsText
    InvalidIsHopeless
PROPERTIES
    ImplementsReceiver
    EveryFrameDealtWith
CHECK_DEADLOCK FALSE
