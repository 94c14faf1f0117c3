\* The on-chain confirmation screen alone over two federations: a switch
\* between a preview's answer and the press of Send.
CONSTANTS
    a1 = a1
    a2 = a2
    NoAddress = NoAddress
    None = None
    MaxCalls = 3
    f1 = f1
    f2 = f2
    NoFed = NoFed
SPECIFICATION Spec
INVARIANT FeeShownForPayingFederation
CHECK_DEADLOCK FALSE
