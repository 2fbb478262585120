----------------------------- MODULE EventStream -----------------------------
(***************************************************************************)
(* What the consumer of an agent's event stream relies on (the loop of     *)
(* AgentLoop.consumeExecutionEvents), whatever produces the events.        *)
(*                                                                         *)
(* A stream that works reports its progress and completes, once, as its    *)
(* last event.  A failure is announced by an error that cannot be          *)
(* recovered from, and then completed as a failure.  A stream that cannot  *)
(* start says so with its only event.  The producer may break down while   *)
(* it works, never once it has announced an end; the consumer may leave    *)
(* after any event.                                                        *)
(***************************************************************************)

VARIABLES
  seen,   \* what the consumer has been told
  how     \* whether and how the stream ended

Init == seen = "silent" /\ how = "running"

Hear(before, after) == seen = before /\ seen' = after /\ UNCHANGED how
End(after) == how' = after /\ UNCHANGED seen

Next ==
  /\ how = "running"
  /\ \/ Hear("silent", "refused")
     \/ Hear("silent", "open")
     \/ Hear("open", "failing")
     \/ Hear("failing", "failed")
     \/ Hear("open", "succeeded")
     \/ seen \in {"refused", "failed", "succeeded"} /\ End("returned")
     \/ seen \in {"silent", "open"} /\ End("threw")
     \/ seen # "silent" /\ End("abandoned")

Spec == Init /\ [][Next]_<<seen, how>>

=============================================================================
