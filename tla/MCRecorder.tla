----------------------------- MODULE MCRecorder -----------------------------
(* Recorder on small instances. *)
EXTENDS Recorder

CONSTANTS r1, r2, c1, c2

=============================================================================
