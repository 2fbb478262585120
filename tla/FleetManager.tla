---------------------------- MODULE FleetManager ----------------------------
(***************************************************************************)
(* executeTasks() of the orchestrator's FleetManager (fleet-manager.ts)    *)
(* over the waves of ParallelScheduler.schedule() (parallel/scheduler.ts), *)
(* an AgentLoop of its own for each task, and the operator's calls         *)
(* pauseAgent, resumeAgent, stopAgent and stopAll while the fleet runs.    *)
(*                                                                         *)
(* A step is what JavaScript runs between two awaits.  schedule() computes *)
(* all the waves first; here each is computed when its turn comes, from    *)
(* the same set of completed identifiers, which changes nothing.  The      *)
(* order of the tasks in a wave is any order.                              *)
(*                                                                         *)
(* Left out: executeSwarm() and the critical path analysis, the lifecycle  *)
(* manager (it marks agents in a map of its own, and stops nothing), the   *)
(* contents of results and events.                                         *)
(***************************************************************************)
EXTENDS AgentLoop, Naturals, FiniteSets

CONSTANTS
  Task,          \* the ids of the SchedulableTasks
  Graphs,        \* the dependency graphs considered; an unknown id is
                 \* written as the task itself, neither is ever completed
  MaxParallel,   \* TIER_LIMITS of the plan tier
  Caller,        \* operators: each has one call in flight at a time
  RedisFails     \* TRUE when a publication of a session event may throw

ASSUME TaskFinite == IsFiniteSet(Task)
ASSUME GraphsOnTask == Graphs \subseteq [Task -> SUBSET Task]
ASSUME SomeParallel == MaxParallel \in Nat \ {0}
ASSUME RedisBoolean == RedisFails \in BOOLEAN
ASSUME NobodyIsNoTask == "nobody" \notin Task

VARIABLES
  deps,        \* the graph of this fleet
  completed,   \* schedule(): the tasks of the waves so far
  wave,        \* tasks of the current wave that no chunk has taken
  chunk,       \* tasks of the chunk Promise.allSettled waits for
  fleet,       \* where executeTasks() is
  status,      \* FleetAgent.status, "none" before the agent exists
  loop,        \* FleetAgent.loop
  answers,     \* how many results executeTasks() has pushed for each task
  call,        \* what each operator has in flight
  muddled      \* history: agents on which two calls overlapped, or one threw

vars == <<deps, completed, wave, chunk, fleet, status, loop, answers, call, muddled>>
execution == <<deps, completed, wave, chunk, fleet, answers>>

Nobody == "nobody"
NoCall == [op |-> "none", of |-> Nobody, seen |-> {}]

Init ==
  /\ deps \in Graphs
  /\ completed = {} /\ wave = {} /\ chunk = {}
  /\ fleet = "publishing"
  /\ status = [t \in Task |-> "none"]
  /\ loop = [t \in Task |-> NewLoop]
  /\ answers = [t \in Task |-> 0]
  /\ call = [c \in Caller |-> NoCall]
  /\ muddled = {}

-----------------------------------------------------------------------------
(* schedule() and executeTasks()                                           *)

\* mutant: some instead of every.
NextWaveSome == {t \in Task \ completed : deps[t] = {} \/ deps[t] \cap completed # {}}

NextWave == {t \in Task \ completed : deps[t] \subseteq completed}

Pending == IF wave = {} THEN NextWave ELSE wave

\* The chunks chunkArray() may cut first from a wave.
Chunks(w) ==
  IF Cardinality(w) <= MaxParallel THEN {w}
  ELSE {S \in SUBSET w : Cardinality(S) = MaxParallel}

\* mutant: the first chunk of each wave only.
StartChunkFirst ==
  /\ fleet = "publishing" /\ NextWave # {}
  /\ \E S \in Chunks(NextWave) :
       /\ chunk' = S
       /\ status' = [t \in Task |-> IF t \in S THEN "running" ELSE status[t]]
       /\ loop' = [t \in Task |-> IF t \in S THEN executeTask(NewLoop) ELSE loop[t]]
  /\ completed' = completed \cup NextWave
  /\ fleet' = "running"
  /\ UNCHANGED <<deps, wave, answers, call, muddled>>

\* chunk.map(executeFleetTask), every agent up to its first await.
StartChunk ==
  /\ fleet = "publishing" /\ Pending # {}
  /\ \E S \in Chunks(Pending) :
       /\ chunk' = S
       /\ wave' = Pending \ S
       /\ status' = [t \in Task |-> IF t \in S THEN "running" ELSE status[t]]
       /\ loop' = [t \in Task |-> IF t \in S THEN executeTask(NewLoop) ELSE loop[t]]
  /\ completed' = completed \cup Pending
  /\ fleet' = "running"
  /\ UNCHANGED <<deps, answers, call, muddled>>

\* Promise.allSettled: one result is pushed for each agent of the chunk.
ChunkEnds ==
  /\ fleet = "running"
  /\ \A t \in chunk : loop[t].at = "over"
  /\ answers' = [t \in Task |-> IF t \in chunk THEN answers[t] + 1 ELSE answers[t]]
  /\ chunk' = {}
  /\ fleet' = "publishing"
  /\ UNCHANGED <<deps, completed, wave, status, loop, call, muddled>>

\* No wave is left, or the rest of the graph is circular.
FleetEnds ==
  /\ fleet = "publishing" /\ Pending = {}
  /\ fleet' = "ended"
  /\ UNCHANGED <<deps, completed, wave, chunk, status, loop, answers, call, muddled>>

\* publishFleetStatus() throws out of executeTasks().
FleetRejects ==
  /\ RedisFails /\ fleet = "publishing"
  /\ fleet' = "rejected"
  /\ UNCHANGED <<deps, completed, wave, chunk, status, loop, answers, call, muddled>>

-----------------------------------------------------------------------------
(* executeFleetTask() over the AgentLoop                                   *)

AgentSteps(t) ==
  \E l \in Turns(loop[t]) :
    /\ loop' = [loop EXCEPT ![t] = l]
    /\ status' = IF l.at # "over" THEN status
                 ELSE [status EXCEPT ![t] = IF l.ok THEN "completed" ELSE "failed"]
    /\ UNCHANGED <<execution, call, muddled>>

-----------------------------------------------------------------------------
(* The operator's calls.  Each writes the status of the loop at once and   *)
(* awaits a publication before the status of the agent.                    *)

\* A call goes to agent t: alone, or while another is in flight on it.
Meets(c, t) ==
  muddled' = IF \E d \in Caller \ {c} : call[d].of = t THEN muddled \cup {t} ELSE muddled

Begin(c, op, t, l) ==
  /\ call[c] = NoCall
  /\ loop' = [loop EXCEPT ![t] = l]
  /\ call' = [call EXCEPT ![c] = [op |-> op, of |-> t, seen |-> {}]]
  /\ Meets(c, t)
  /\ UNCHANGED <<execution, status>>

\* mutant: any agent may be paused.
PauseAgentAny(c, t) == status[t] # "none" /\ Begin(c, "paused", t, pause(loop[t]))

PauseAgent(c, t) == status[t] = "running" /\ Begin(c, "paused", t, pause(loop[t]))
ResumeAgent(c, t) == status[t] = "paused" /\ Begin(c, "running", t, resume(loop[t]))
StopAgent(c, t) == status[t] # "none" /\ Begin(c, "failed", t, stop(loop[t]))

\* mutant: the continuation of stopAll() taken for that of another call.
EndsAny(c) ==
  /\ call[c] # NoCall
  /\ status' = [status EXCEPT ![call[c].of] = call[c].op]
  /\ call' = [call EXCEPT ![c] = NoCall]
  /\ UNCHANGED <<execution, loop, muddled>>

Ends(c) ==
  /\ call[c].op \in {"paused", "running", "failed"}
  /\ status' = [status EXCEPT ![call[c].of] = call[c].op]
  /\ call' = [call EXCEPT ![c] = NoCall]
  /\ UNCHANGED <<execution, loop, muddled>>

\* The publication throws out of the call, which leaves the agent's status.
Throws(c) ==
  /\ RedisFails /\ call[c] # NoCall
  /\ call' = [call EXCEPT ![c] = NoCall]
  /\ muddled' = muddled \cup {call[c].of}
  /\ UNCHANGED <<execution, status, loop>>

\* The loop of stopAll() goes on to an agent that runs or is paused, with the
\* statuses st it finds.
Visit(c, st, seen) ==
  LET left == {t \in Task \ seen : st[t] \in {"running", "paused"}} IN
  IF left = {}
  THEN call' = [call EXCEPT ![c] = NoCall] /\ UNCHANGED <<loop, muddled>>
  ELSE \E t \in left :
         /\ loop' = [loop EXCEPT ![t] = stop(loop[t])]
         /\ call' = [call EXCEPT ![c] = [op |-> "stopAll", of |-> t, seen |-> seen \cup {t}]]
         /\ Meets(c, t)

StopAll(c) ==
  /\ call[c] = NoCall
  /\ Visit(c, status, {})
  /\ UNCHANGED <<execution, status>>

\* mutant: stopAll() leaves the agent's status.
StopAllTurnSilent(c) ==
  /\ call[c].op = "stopAll"
  /\ Visit(c, status, call[c].seen)
  /\ UNCHANGED <<execution, status>>

StopAllTurn(c) ==
  /\ call[c].op = "stopAll"
  /\ status' = [status EXCEPT ![call[c].of] = "failed"]
  /\ Visit(c, status', call[c].seen)
  /\ UNCHANGED execution

Next ==
  \/ StartChunk \/ ChunkEnds \/ FleetEnds \/ FleetRejects
  \/ \E t \in Task : AgentSteps(t)
  \/ \E c \in Caller :
       \/ \E t \in Task : PauseAgent(c, t) \/ ResumeAgent(c, t) \/ StopAgent(c, t)
       \/ Ends(c) \/ Throws(c) \/ StopAll(c) \/ StopAllTurn(c)

Spec == Init /\ [][Next]_vars

\* The event loop runs every continuation, and the engine goes on yielding
\* events until it completes: its iterations and model calls are bounded.
\* Nothing makes an operator call, or Redis fail.
FairSpec ==
  /\ Spec
  /\ WF_vars(StartChunk) /\ WF_vars(ChunkEnds) /\ WF_vars(FleetEnds)
  /\ \A t \in Task : WF_vars(AgentSteps(t))
  /\ \A c \in Caller : WF_vars(Ends(c)) /\ WF_vars(StopAllTurn(c))

-----------------------------------------------------------------------------
(* Properties                                                              *)

TypeOK ==
  /\ deps \in Graphs
  /\ completed \subseteq Task /\ wave \subseteq Task /\ chunk \subseteq Task
  /\ fleet \in {"publishing", "running", "ended", "rejected"}
  /\ status \in [Task -> {"none", "running", "paused", "completed", "failed"}]
  /\ loop \in [Task -> Loop]
  /\ answers \in [Task -> Nat]
  /\ call \in [Caller -> [op : {"none", "paused", "running", "failed", "stopAll"},
                          of : Task \cup {Nobody}, seen : SUBSET Task]]
  /\ muddled \subseteq Task

\* The state of TaskGraph an agent's progress stands for.
Phase(l) == IF l.at = "none" THEN "waiting" ELSE IF l.at = "over" THEN "ended" ELSE "running"
TaskState == [t \in Task |-> Phase(loop[t])]

Graph == INSTANCE TaskGraph WITH Limit <- MaxParallel, state <- TaskState

\* executeTasks() "respecting dependencies and tier limits": no agent starts
\* before every agent it depends on has returned, whatever was paused or
\* stopped meanwhile, none starts twice, and MaxParallel bounds those that run.
RespectsGraph == Graph!Spec

\* A fleet that ends has pushed one result for each task, except for those on
\* a dependency cycle or behind one, which never had an agent.
EndsWithAll ==
  fleet = "ended" =>
    \A t \in Task :
      /\ answers[t] = IF t \in Graph!Blocked(deps) THEN 0 ELSE 1
      /\ t \in Graph!Blocked(deps) <=> status[t] = "none"

\* The FleetAgent's status of a loop's.
Shown(s) == CASE s = "paused" -> "paused" [] s = "stopped" -> "failed" [] OTHER -> "running"

\* While executeTask() runs and no call on the agent is in flight, the agent's
\* status says what the loop will do at the next event, if the calls on that
\* agent came one after the other and succeeded.
ControlAgrees ==
  \A t \in Task \ muddled :
    Open(loop[t]) /\ (\A c \in Caller : call[c].of # t) => status[t] = Shown(loop[t].status)

\* An agent stopAgent() or stopAll() marked failed returns: no later call
\* brings its loop back to work or leaves it waiting.
StopIsHeeded ==
  \A t \in Task : (status[t] = "failed" /\ Open(loop[t]) /\ t \notin muddled) ~> loop[t].at = "over"

\* executeTasks() settles, unless an agent waits to be resumed: one whose
\* status lets resumeAgent() and stopAll() find it, if it is not muddled.
FleetSettles ==
  []<>(\/ fleet \in {"ended", "rejected"}
       \/ \E t \in Task : loop[t].at = "waiting" /\ (status[t] = "paused" \/ t \in muddled))

=============================================================================
