CONSTANTS
    Lbas <- MCLbas
    Xfers <- MCXfers
    NumLbas <- MCNumLbas
    Fills = {0, 255}
    BlockSize = 512
    PrintOps = {8, 40, 96, 127, 136, 168, 192}
    PrintCdb7s = {0, 56, 185, 186, 255}
    InfoLens <- MCInfoLens
    SenseKeys <- MCSenseKeys
    AscAscqs <- MCAscAscqs
    SksInfos <- MCSksInfos
    SenseInfos <- MCSenseInfos
    MaxSenseCalls = 3
SPECIFICATION Spec
\* Each behaviour handles one command and then stops.
CHECK_DEADLOCK FALSE
INVARIANT FixedCdbRoundTrip
INVARIANT ReadCapacityReportsLastLba
INVARIANT SenseDataWellFormed
PROPERTY SenseRefinesAbstract
