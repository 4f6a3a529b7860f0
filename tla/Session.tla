------------------------------ MODULE Session ------------------------------
(***************************************************************************)
(* What a capture session promises to its user, with no word of handles,   *)
(* callbacks or loops.  Module Capture implements it.                      *)
(*                                                                         *)
(* A packet that was taken up is finished, also when a stop comes in       *)
(* between; none is taken up behind a stop; and the run ends with every    *)
(* count equal to the number of packets that were finished.                *)
(***************************************************************************)
EXTENDS Naturals

VARIABLES
  phase,     \* "setup", "capturing", "ending" or "over"
  busy,      \* a packet was taken up and is not finished
  stopping,  \* a stop was asked for while capturing
  failed,    \* the capture ended with an error
  packets,   \* packets that were finished
  outcome,   \* exit status
  counts     \* the counts the run ended with

vars == <<phase, busy, stopping, failed, packets, outcome, counts>>

Init ==
  /\ phase = "setup" /\ busy = FALSE /\ stopping = FALSE /\ failed = FALSE
  /\ packets = 0 /\ outcome = "running" /\ counts = {}

\* The run ends without a capture.
Leave ==
  /\ phase = "setup" /\ phase' = "over"
  /\ outcome' \in {"0", "1", "killed"} /\ counts' = {packets}
  /\ UNCHANGED <<busy, stopping, failed, packets>>

Begin ==
  /\ phase = "setup" /\ phase' = "capturing"
  /\ UNCHANGED <<busy, stopping, failed, packets, outcome, counts>>

Take ==
  /\ phase = "capturing" /\ ~busy /\ ~stopping
  /\ busy' = TRUE
  /\ UNCHANGED <<phase, stopping, failed, packets, outcome, counts>>

Complete ==
  /\ busy /\ busy' = FALSE /\ packets' = packets + 1
  /\ UNCHANGED <<phase, stopping, failed, outcome, counts>>

Stop ==
  /\ phase = "capturing" /\ stopping' = TRUE
  /\ UNCHANGED <<phase, busy, failed, packets, outcome, counts>>

\* A capture that was asked to stop does not end with an error.
End ==
  /\ phase = "capturing" /\ ~busy /\ phase' = "ending"
  /\ stopping' = FALSE /\ failed' \in BOOLEAN /\ (failed' => ~stopping)
  /\ UNCHANGED <<busy, packets, outcome, counts>>

Finish ==
  /\ phase = "ending" /\ phase' = "over"
  /\ outcome' = IF failed THEN "1" ELSE "0"
  /\ counts' = {packets}
  /\ UNCHANGED <<busy, stopping, failed, packets>>

Next == Leave \/ Begin \/ Take \/ Complete \/ Stop \/ End \/ Finish

Spec == Init /\ [][Next]_vars
=============================================================================
