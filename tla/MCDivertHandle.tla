--------------------------- MODULE MCDivertHandle ---------------------------
(* Instances of DivertHandle for TLC.  With a single value every object    *)
(* that is opened takes the value closed last, which is the hardest case.  *)
EXTENDS DivertHandle

MCFinalizer == "finalizer"
MCValues == {"value"}
MCHabits == {"together", "letgo"}
=============================================================================
