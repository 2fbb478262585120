------------------------------ MODULE AgentLoop ------------------------------
(***************************************************************************)
(* One AgentLoop object of the orchestrator (agent-loop.ts): its status,   *)
(* which pause(), resume() and stop() write at once, and the executeTask() *)
(* call that reads it only between two events of the ExecutionEngine.      *)
(*                                                                         *)
(* A loop is a record: its status, the await at which executeTask() stands *)
(* and whether the result so far is a success.  Each operator returns the  *)
(* loop after a call, or the set of loops a turn of executeTask() may      *)
(* leave; the set is empty when that turn is not the next one.             *)
(*                                                                         *)
(* Left out: the events themselves, the brain and prior contexts, tokens   *)
(* and credits.  Events other than "complete" leave the loop as it is.     *)
(***************************************************************************)

Statuses == {"idle", "running", "paused", "stopped"}
Stations == {"none",        \* executeTask() was never called
             "preparing",   \* buildTaskContext()
             "stepping",    \* awaiting the next event of the engine
             "waiting",     \* waitForResume()
             "drained",     \* the "complete" event was tracked
             "finishing",   \* the status is "idle", the last publication awaited
             "over"}        \* the promise is settled

Loop == [status : Statuses, at : Stations, ok : BOOLEAN]

NewLoop == [status |-> "idle", at |-> "none", ok |-> FALSE]

\* An executeTask() call that has not set the status back to "idle".
Open(l) == l.at \in {"preparing", "stepping", "waiting", "drained"}

pause(l) == [l EXCEPT !.status = "paused"]
resume(l) == [l EXCEPT !.status = "running"]
stop(l) == [l EXCEPT !.status = "stopped"]

\* executeTask() up to its first await: whatever the status was, it runs.
executeTask(l) == [status |-> "running", at |-> "preparing", ok |-> FALSE]

\* completeIteration() and failIteration() up to their last await.
Finished(l, ok) == [status |-> "idle", at |-> "finishing", ok |-> ok]

\* buildTaskContext() returns, or throws past the handler of _executeTaskInner.
Prepared(l) ==
  IF l.at = "preparing" THEN {[l EXCEPT !.at = "stepping"], [l EXCEPT !.at = "over"]} ELSE {}

\* What follows the status checks on an event: only "complete" leaves a trace,
\* a publication that throws ends the iteration.
Tracked(l) ==
  {[l EXCEPT !.at = "stepping"], Finished(l, FALSE)}
    \cup {[status |-> l.status, at |-> "drained", ok |-> ok] : ok \in BOOLEAN}

\* The engine yields an event to the loop of consumeExecutionEvents().
Event(l) ==
  IF l.at # "stepping" THEN {}
  ELSE CASE l.status = "paused"  -> {[l EXCEPT !.at = "waiting"]}
         [] l.status = "stopped" -> {Finished(l, FALSE)}
         [] OTHER                -> Tracked(l)

\* mutant: only resume() ends the wait.
ResumedRunning(l) == IF l.at = "waiting" /\ l.status = "running" THEN Tracked(l) ELSE {}

\* The poll of waitForResume() finds the loop no longer paused.
Resumed(l) ==
  IF l.at # "waiting" \/ l.status = "paused" THEN {}
  ELSE IF l.status = "stopped" THEN {Finished(l, FALSE)} ELSE Tracked(l)

\* The engine throws, or returns: without a "complete" event there is no result.
EngineEnds(l) ==
  CASE l.at = "stepping" -> {Finished(l, FALSE)}
    [] l.at = "drained"  -> {Finished(l, l.ok), Finished(l, FALSE)}
    [] OTHER             -> {}

\* finalizeExecution() returns or throws.
Finalized(l) ==
  IF l.at = "finishing"
  THEN {[l EXCEPT !.at = "over"], [status |-> l.status, at |-> "over", ok |-> FALSE]}
  ELSE {}

\* One turn of executeTask().
Turns(l) == Prepared(l) \cup Event(l) \cup Resumed(l) \cup EngineEnds(l) \cup Finalized(l)

=============================================================================
