SPECIFICATION FairSpec
CONSTANTS
    BUFFER_SIZE = 2
    PRODUCER_NUM = 2
    CONSUMER_NUM = 3
    NUM_PRODUCED = 2
INVARIANT SlotsConserved
PROPERTIES
    ImplementsChannel
    ReturnsIffRemainderFits
