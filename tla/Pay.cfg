\* useOmniPaymentState over five inputs and three bridge calls, and the
\* on-chain confirmation screen over two federations and three previews.
CONSTANTS
    a1 = a1
    a2 = a2
    NoAddress = NoAddress
    None = None
    MaxCalls = 3
    f1 = f1
    f2 = f2
    NoFed = NoFed
SPECIFICATION Spec
INVARIANT TypeOK
INVARIANT OneSendAtATime
PROPERTY SendSpinnerClears
\* The screen stops once the send settled and its previews returned.
CHECK_DEADLOCK FALSE
