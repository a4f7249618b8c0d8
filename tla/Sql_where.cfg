SPECIFICATION SfSpec
CONSTANTS
    SmallInts = {0, 1}
    Depth = 1
INVARIANT NativeSelectExact
