\* useMatrixPaymentEvent: a request paid again after the accept settled and before the updated event arrived.
CONSTANTS
    LoadingBlocksPress = TRUE
    RemoteNext <- MCRemoteNext
    MaxDispatches = 3
SPECIFICATION Spec
INVARIANT AtMostOneAccept
\* A message whose payment is settled and has no call in flight has nothing left to do.
CHECK_DEADLOCK FALSE
