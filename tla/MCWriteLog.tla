----------------------------- MODULE MCWriteLog -----------------------------
(* A model of WriteLog small enough for TLC: one plain key, and the         *)
(* validity predicate key of the address the generator hands out.          *)
EXTENDS WriteLog

CONSTANTS d, p1, v1, e1

MCKeys == {d, p1}
MCVpKey == <<p1>>

=============================================================================
