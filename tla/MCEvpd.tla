------------------------------- MODULE MCEvpd -------------------------------
EXTENDS Evpd

\* The characters on each side of every char_to_hex range:
\* / 0 9 : @ A F G ` a f g
MCAlphabet == {47, 48, 57, 58, 64, 65, 70, 71, 96, 97, 102, 103}

\* Every string of up to three of them, and the spec's "naa.5000".
MCShortWwns == {<<>>} \cup [1..1 -> MCAlphabet] \cup [1..2 -> MCAlphabet]
               \cup [1..3 -> MCAlphabet] \cup {<<110, 97, 97, 46, 53, 48, 48, 48>>}

\* "naa.6001405f-" repeated: more than the 25 hex digits the loop takes.
MCWwnPattern == <<110, 97, 97, 46, 54, 48, 48, 49, 52, 48, 53, 102, 45>>

\* Page codes listed by page 0x00 and their neighbours.
MCPageCodes == {0, 1, 128, 129, 131, 176, 177, 178, 179, 255}
=============================================================================
