--------------------------- MODULE MCCheckEngine ---------------------------
(* Three loaded checks in two contracts with an empty one between them,    *)
(* every prerequisite list of at most two ids, one of which no artifact    *)
(* holds.                                                                  *)
EXTENDS CheckEngine

CONSTANTS c1, c2, c3, missing

MCArtifacts == <<<<c1, c2>>, <<>>, <<c3>>>>

MCLists == UNION {[1..n -> Ids] : n \in 0..2}

Plain(status, executed, reason) ==
  [status |-> status, executed |-> executed, reason |-> reason,
   blockedBy |-> {}]

MCOutcomes == {Plain("pass", TRUE, "none"), Plain("fail", TRUE, "none"),
               Plain("error", FALSE, "none"),
               Plain("not_executable", FALSE, "scan_estimate_unknown")}
===========================================================================
