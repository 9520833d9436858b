------------------------------ MODULE MCScsiCdb ------------------------------
EXTENDS ScsiCdb

\* LBAs at the edge of each field width: 0, 2^21 - 1, 2^32 - 1 and 2^64 - 1,
\* and values with a different byte in every position.
MCLbas == {<<0, 0, 0, 0, 0, 0, 0, 0>>, <<0, 0, 0, 0, 0, 31, 255, 255>>,
           <<0, 0, 0, 0, 0, 17, 2, 3>>, <<0, 0, 0, 0, 255, 255, 255, 255>>,
           <<0, 0, 0, 0, 1, 2, 3, 4>>, <<255, 255, 255, 255, 255, 255, 255, 255>>,
           <<1, 2, 3, 4, 5, 6, 7, 8>>}

\* Transfer lengths 0, 255, 2^16 - 1, 2^32 - 1 and mixed bytes.
MCXfers == {<<0, 0, 0, 0>>, <<0, 0, 0, 255>>, <<0, 0, 255, 255>>,
            <<0, 0, 1, 2>>, <<255, 255, 255, 255>>, <<1, 2, 3, 4>>}

\* Block counts: empty, the spec's 5, a borrow across a byte, 2^32 - 1,
\* 2^32 and 2^32 + 5 around the READ CAPACITY (10) limit, and 2^64 - 1.
MCNumLbas == {<<0, 0, 0, 0, 0, 0, 0, 0>>, <<0, 0, 0, 0, 0, 0, 0, 1>>,
              <<0, 0, 0, 0, 0, 0, 0, 5>>, <<0, 0, 0, 0, 0, 0, 1, 0>>,
              <<0, 0, 0, 0, 255, 255, 255, 255>>, <<0, 0, 0, 1, 0, 0, 0, 0>>,
              <<0, 0, 0, 1, 0, 0, 0, 5>>, <<255, 255, 255, 255, 255, 255, 255, 255>>}

\* The 16 characters of a caller's message such as "is not supported".
MCInfoLens == {NoInfo, 16}

\* ILLEGAL REQUEST and MISCOMPARE; INVALID FIELD IN CDB (0x2400),
\* MISCOMPARE DURING VERIFY (0x1d00) and a pair with both bytes nonzero
\* (0x0401), so that a swap of ASC and ASCQ shows.
MCSenseKeys == {5, 14}
MCAscAscqs == {9216, 7424, 1025}

\* A field pointer (byte 2) and one with both bytes set; INFORMATION 0, a
\* byte offset and the largest value TLC's integers hold.
MCSksInfos == {2, 515}
MCSenseInfos == {0, 42, 2147483647}
=============================================================================
