SPECIFICATION FairSpec
CONSTANTS
    BUFFER_SIZE = 1
    PRODUCER_NUM = 2
    CONSUMER_NUM = 4
    NUM_PRODUCED = 3
PROPERTY ReturnsIffRemainderFits
CHECK_DEADLOCK FALSE
