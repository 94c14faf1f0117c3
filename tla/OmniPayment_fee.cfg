\* useOmniPaymentState: FeeDetailsForCurrentAddress against late answers of calls made before a reset or a newer input.
CONSTANTS
    a1 = a1
    a2 = a2
    NoAddress = NoAddress
    None = None
    Inputs <- MCInputs
    MaxCalls = 3
SPECIFICATION Spec
INVARIANT FeeDetailsForCurrentAddress
