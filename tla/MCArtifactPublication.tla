----------------------- MODULE MCArtifactPublication -----------------------
(***************************************************************************)
(* Two contracts, two compiles and a run: enough for a compile to overtake *)
(* a run, and for files of two compiles and of two contracts to meet.      *)
(***************************************************************************)
EXTENDS ArtifactPublication
=============================================================================
