---------------------------- MODULE MCModeSense ----------------------------
EXTENDS ModeSense

\* 2^20 blocks fits a 32-bit READ CAPACITY / short descriptor field, 2^32
\* is the first count that does not.
MCNumLbas == {<<0, 0, 0, 0, 0, 16, 0, 0>>, <<0, 0, 0, 1, 0, 0, 0, 0>>}

\* Every list length up to one past the longest header plus page (8 + 20),
\* and the two lengths around the 512-byte in_buf.
MCSelectAllocs == (0..30) \cup {511, 512}
=============================================================================
