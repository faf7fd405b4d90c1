------------------------------ MODULE Recorder ------------------------------
(***************************************************************************)
(* What the bridge's profiler promises to whoever receives its events: one *)
(* recording at a time; every completed call is logged once; what has been *)
(* delivered is always a prefix of the log, catches up with it in the end, *)
(* and is all of it when the recording is stopped.  Starting a recording,  *)
(* or failing to, abandons the one before.                                 *)
(***************************************************************************)
EXTENDS Naturals, Sequences

VARIABLES recording, log, delivered

vars == <<recording, log, delivered>>

Init ==
  /\ recording = FALSE
  /\ log = <<>>
  /\ delivered = <<>>

Abandon ==
  /\ recording' \in BOOLEAN
  /\ log' = <<>>
  /\ delivered' = <<>>

\* One more event at the end of the log; which one is the implementation's business.
Complete ==
  /\ recording
  /\ Len(log') = Len(log) + 1
  /\ SubSeq(log', 1, Len(log)) = log
  /\ delivered' \in {delivered, log'}
  /\ UNCHANGED recording

Deliver ==
  /\ recording
  /\ delivered' = log
  /\ UNCHANGED <<recording, log>>

Stop ==
  /\ recording
  /\ recording' = FALSE
  /\ delivered' = log
  /\ UNCHANGED log

Next ==
  \/ Abandon
  \/ Complete
  \/ Deliver
  \/ Stop

\* What is logged does not wait for ever.
CatchesUp == (delivered # log) ~> (delivered = log)

Spec == Init /\ [][Next]_vars /\ CatchesUp
=============================================================================
