CONSTANTS
    NUM_BLOCK = 2
    Byte = 4
    MIN_B_SIZE = 4
    HOST_BUFFER_SIZE = 48
    PARALLEL_BYTES = 8
    Sizes = {1, 3, 4, 8, 15, 16, 17, 19, 20, 25, 32, 33, 40, 48, 49, 51, 52, 64, 67, 68, 80}
    OutSizes = {1, 3, 8, 9, 15}
SPECIFICATION Spec
INVARIANT
    FrameIsReadBack
