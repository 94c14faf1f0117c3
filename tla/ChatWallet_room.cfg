\* ChatWallet: RequestReturnsToExistingRoom when a request settles after the room changed or the user left.
CONSTANTS
    r1 = r1
    r2 = r2
    None = None
    Rooms <- MCRooms
    MaxPresses = 2
SPECIFICATION Spec
INVARIANT TypeOK
PROPERTY RequestReturnsToExistingRoom
