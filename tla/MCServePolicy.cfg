SPECIFICATION Spec
CONSTANTS
    w1 = w1
    w2 = w2
    Worker <- MCWorker
    MaxSession = 2
    MaxSignal = 2
    Launches <- MCLaunches
    Offers <- MCOffers
    Served <- MCServed
    Realpath <- MCRealpath
    Episodes = 2
INVARIANTS
    FreshChunks
    OnlyTrainedFeatures
    OrderlyEnd
PROPERTIES
    StopEnds
