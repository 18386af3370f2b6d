SPECIFICATION FairSpec
CONSTANTS
    THREAD_NUM = 3
    BUFFER_SIZE = 5
    MaxFileSize = 6
    Chars = {a, b}
INVARIANT CountExact
PROPERTY Termination
