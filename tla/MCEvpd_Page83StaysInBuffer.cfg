CONSTANTS
    ShortWwns <- MCShortWwns
    WwnPattern <- MCWwnPattern
    PageCodes <- MCPageCodes
    LongWwnLens = {36}
    CfgLens = {0, 100}
    PortWwnLens = {20, 223}
SPECIFICATION Spec
\* Each behaviour handles one command and then stops.
\* Short WWN and cfgstring: the long IQN alone overruns data[512].
CHECK_DEADLOCK FALSE
INVARIANT Page83StaysInBuffer
