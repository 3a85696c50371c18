--------------------------- MODULE MCUsageReports ---------------------------
(***************************************************************************)
(* Two callers of two voices that fit the ceiling one by one,              *)
(* and two requests for a summary that a tick may separate.                *)
(***************************************************************************)
EXTENDS UsageReports

MCCallers == {"a", "b"}
MCSize == [a |-> 1, b |-> 2]
MCCeilings == {2, 3}
MCVoice == [a |-> "aria", b |-> "guy"]
=============================================================================
