----------------------------- MODULE MCAsyncIO -----------------------------
(* Instances of AsyncIO for TLC.                                           *)
EXTENDS AsyncIO

CONSTANTS r1, r2, t1, t2

(* One thread uses both results, the other shares one of them.             *)
MCUses == [t \in Threads |-> IF t = t1 THEN Results ELSE {r1}]
=============================================================================
