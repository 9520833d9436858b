CONSTANTS
    ShortWwns <- MCShortWwns
    WwnPattern <- MCWwnPattern
    PageCodes <- MCPageCodes
    LongWwnLens = {36, 246, 247, 254}
    CfgLens = {0, 100, 254, 255}
    PortWwnLens = {20, 223}
SPECIFICATION Spec
\* Each behaviour handles one command and then stops.
CHECK_DEADLOCK FALSE
INVARIANT SupportedPagesServed
INVARIANT Page80SerialWhole
INVARIANT NaaMatchesReference
INVARIANT PtrTracksUsed
INVARIANT DesignatorsPadded
