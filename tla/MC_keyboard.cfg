SPECIFICATION KbSpec
CONSTANTS
    Letters = {"a"}
    Signs = {"1"}
    Size = 3
    MaxKeys = 3
INVARIANTS KeysInOrder PushedComesOnce
PROPERTY KeysGetThrough
CHECK_DEADLOCK FALSE
