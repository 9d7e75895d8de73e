\* Every message of one byte and some longer ones, up to and past what fits;
\* some of them damaged.
SPECIFICATION Spec
CONSTANTS
    BufSize = 8
    Messages <- AllMessages
    Exposed <- SomeMessages
INVARIANTS
    CrcIsRemainder
    RoundTrip
    DamageRefused
\* One message is sent.
CHECK_DEADLOCK FALSE
