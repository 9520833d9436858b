------------------------------ MODULE MCIOVec ------------------------------
EXTENDS IOVec

\* Three segments, one shorter than the others, so that copies and seeks
\* end inside a segment, on a boundary, and span two boundaries.
MCSegLens == <<2, 1, 2>>
=============================================================================
