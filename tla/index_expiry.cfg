SPECIFICATION Spec
CONSTANTS
    None = None
    Processes = {p1, p2}
    Bits = {1, 2, 3, 4}
    Blocks = {"low", "high"}
    BlockOf <- MCBlockOf
    Threshold = 1
    Hashes <- MCHashes
PROPERTIES
    ExpiryTakesInFlightOnly
