CONSTANTS
    MaxAlloc = 60
    SelectAllocs <- MCSelectAllocs
    NumLbasChoices <- MCNumLbas
    BlockSize = 512
SPECIFICATION Spec
\* Each behaviour handles one command and then stops.
CHECK_DEADLOCK FALSE
INVARIANT TypeOK
INVARIANT SensePagesFollowSpec
INVARIANT LengthFieldUntruncated
INVARIANT SelectOnlyConfirms
