--------------------------- MODULE MCTcmurDevice ---------------------------
(* Three reopen callers, the lock thread and the removal thread; the cfg  *)
(* allows three commands in flight, three handler open() failures and    *)
(* three calls per caller.                                                 *)
EXTENDS TcmurDevice

CONSTANTS c1, c2, c3, lk, rc, td

MCCallers == {c1, c2, c3}
=============================================================================
