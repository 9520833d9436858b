CONSTANTS
    SegLens <- MCSegLens
    MaxLen = 6
    MaxOps = 4
    Probe = {0, 1, 2}
SPECIFICATION SpecCmd
\* One command's handling ends after its calls.
CHECK_DEADLOCK FALSE
INVARIANT CmdViewCoversRemaining
