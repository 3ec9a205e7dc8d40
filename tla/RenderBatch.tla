---------------------------- MODULE RenderBatch -----------------------------
(***************************************************************************)
(* What `recon compile --render-sql` promises of the checks it compiled:   *)
(* in one step all of them are rendered and the command succeeds, or none  *)
(* is and every one says why, or the command fails and leaves all as they  *)
(* are.  How that is decided is left open (docs/implementation/            *)
(* compiled-artifacts.md); RenderSql implements it.                        *)
(***************************************************************************)
VARIABLES
  status,  \* rendering status of every check
  reasons, \* its diagnostics
  exit     \* the exit category, "none" before

checks == DOMAIN status
vars == <<status, reasons, exit>>

Undecided ==
  /\ status = [check \in checks |-> "not_rendered"]
  /\ reasons = [check \in checks |-> {}]
  /\ exit = "none"

Init == Undecided

RenderAll ==
  /\ Undecided
  /\ status' = [check \in checks |-> "rendered"]
  /\ exit' = "success"
  /\ UNCHANGED reasons

RefuseAll ==
  /\ Undecided
  /\ status' \in [checks -> {"blocked", "failed"}]
  /\ DOMAIN reasons' = checks
  /\ \A check \in checks : reasons'[check] # {}
  /\ exit' \in {"validation_error", "configuration_error"}

GiveUp ==
  /\ Undecided
  /\ exit' \in {"configuration_error", "runtime_error"}
  /\ UNCHANGED <<status, reasons>>

Next == RenderAll \/ RefuseAll \/ GiveUp

Spec == Init /\ [][Next]_vars
=============================================================================
