------------------------- MODULE FleetManagerProofs -------------------------
(***************************************************************************)
(* FleetManager respects its graph, answers for every task that can run,   *)
(* and the agents' statuses say what their loops do.                       *)
(***************************************************************************)
EXTENDS FleetManager, FiniteSetTheorems, TLAPS

\* What each task has come to, read from the scheduler's sets alone.
Past(t) == t \in completed \ (wave \cup chunk)

Typed ==
  /\ deps \in [Task -> SUBSET Task]
  /\ completed \subseteq Task /\ wave \subseteq completed /\ chunk \subseteq completed
  /\ wave \cap chunk = {}
  /\ status \in [Task -> {"none", "running", "paused", "completed", "failed"}]
  /\ loop \in [Task -> Loop]
  /\ answers \in [Task -> Nat]
  /\ call \in [Caller -> [op : {"none", "paused", "running", "failed", "stopAll"},
                          of : Task \cup {Nobody}, seen : SUBSET Task]]
  /\ muddled \subseteq Task

\* The agents that exist are those of the chunks so far.
Started ==
  \A t \in Task :
    /\ loop[t].at = "none" <=> t \in wave \/ t \notin completed
    /\ loop[t].at = "none" <=> status[t] = "none"

\* A chunk is done with before the next one starts.
Chunked ==
  /\ \A t \in Task : Past(t) => loop[t].at = "over"
  /\ fleet # "running" => chunk = {}
  /\ fleet = "ended" => wave = {} /\ NextWave = {}
  /\ Cardinality(chunk) <= MaxParallel

\* A wave waits for nothing but earlier waves.
Layered ==
  /\ \A t \in completed : deps[t] \subseteq completed
  /\ \A t \in wave \cup chunk : \A d \in deps[t] : Past(d)

\* No set whose members all wait for a member has one scheduled.
Acyclic ==
  \A S \in SUBSET Task : (\A t \in S : deps[t] \cap S # {}) => S \cap completed = {}

Answered == \A t \in Task : answers[t] = IF Past(t) THEN 1 ELSE 0

\* Calls are made on agents that exist.
Called ==
  \A c \in Caller :
    IF call[c].op = "none" THEN call[c] = NoCall
    ELSE call[c].of \in Task /\ loop[call[c].of].at # "none"

IInv == Typed /\ Started /\ Chunked /\ Layered /\ Acyclic /\ Answered /\ Called

-----------------------------------------------------------------------------
\* What a turn may leave of a loop.
Leaves(l, m) == m \in Loop /\ m.at # "none" /\ (Open(m) => m.status = l.status)

LEMMA FinishedKind ==
  ASSUME NEW l \in Loop, NEW ok \in BOOLEAN PROVE Leaves(l, Finished(l, ok))
BY DEF Leaves, Finished, Loop, Statuses, Stations, Open

LEMMA AtKind ==
  ASSUME NEW l \in Loop, NEW at \in Stations \ {"none"}
  PROVE  Leaves(l, [l EXCEPT !.at = at])
BY DEF Leaves, Loop, Statuses, Stations, Open

LEMMA TrackedKind ==
  ASSUME NEW l \in Loop, NEW m \in Tracked(l) PROVE Leaves(l, m)
<1>1. CASE m = [l EXCEPT !.at = "stepping"]  BY <1>1, AtKind DEF Stations
<1>2. CASE m = Finished(l, FALSE)  BY <1>2, FinishedKind
<1>3. ASSUME NEW ok \in BOOLEAN, m = [status |-> l.status, at |-> "drained", ok |-> ok]
      PROVE  Leaves(l, m)
  BY <1>3 DEF Leaves, Loop, Statuses, Stations, Open
<1>. QED  BY <1>1, <1>2, <1>3 DEF Tracked

\* A turn of executeTask() is a turn of a call that runs: it leaves the status
\* alone, or sets it to "idle" for good.
LEMMA TurnKinds ==
  ASSUME NEW l \in Loop, NEW m \in Turns(l)
  PROVE  Leaves(l, m) /\ l.at \notin {"none", "over"} /\ (Open(m) => Open(l))
<1>1. m \in Prepared(l) \cup Event(l) \cup Resumed(l) \cup EngineEnds(l) \cup Finalized(l)
  BY DEF Turns
<1>2. l.status \in Statuses /\ l.at \in Stations /\ l.ok \in BOOLEAN  BY DEF Loop
<1>3. CASE m \in Prepared(l)
  <2>1. l.at = "preparing" /\ m \in {[l EXCEPT !.at = "stepping"], [l EXCEPT !.at = "over"]}
    BY <1>3 DEF Prepared
  <2>. QED  BY <2>1, AtKind DEF Stations, Open
<1>4. CASE m \in Event(l)
  <2>1. l.at = "stepping"  BY <1>4 DEF Event
  <2>2. m = [l EXCEPT !.at = "waiting"] \/ m = Finished(l, FALSE) \/ m \in Tracked(l)
    BY <1>4, <2>1 DEF Event
  <2>. QED  BY <2>1, <2>2, AtKind, FinishedKind, TrackedKind DEF Stations, Open
<1>5. CASE m \in Resumed(l)
  <2>1. l.at = "waiting" /\ (m = Finished(l, FALSE) \/ m \in Tracked(l))
    BY <1>5 DEF Resumed
  <2>. QED  BY <2>1, FinishedKind, TrackedKind DEF Open
<1>6. CASE m \in EngineEnds(l)
  <2>1. l.at \in {"stepping", "drained"}  BY <1>6 DEF EngineEnds
  <2>2. m = Finished(l, FALSE) \/ m = Finished(l, l.ok)  BY <1>6, <2>1 DEF EngineEnds
  <2>. QED  BY <1>2, <2>1, <2>2, FinishedKind DEF Open
<1>7. CASE m \in Finalized(l)
  <2>1. l.at = "finishing" /\ m \in {[l EXCEPT !.at = "over"],
                                     [status |-> l.status, at |-> "over", ok |-> FALSE]}
    BY <1>7 DEF Finalized
  <2>2. Leaves(l, [l EXCEPT !.at = "over"])  BY AtKind DEF Stations
  <2>3. Leaves(l, [status |-> l.status, at |-> "over", ok |-> FALSE])
    BY <1>2 DEF Leaves, Loop, Stations, Open
  <2>4. Leaves(l, m)  BY <2>1, <2>2, <2>3
  <2>5. m.at = "over"  BY <1>2, <2>1 DEF Loop
  <2>. QED  BY <2>1, <2>4, <2>5 DEF Open
<1>. QED  BY <1>1, <1>3, <1>4, <1>5, <1>6, <1>7

\* pause(), resume() and stop() write the status and nothing else.
LEMMA ControlKinds ==
  ASSUME NEW l \in Loop, NEW m \in {pause(l), resume(l), stop(l)}
  PROVE  m \in Loop /\ m.at = l.at
BY DEF Loop, Statuses, Stations, pause, resume, stop

\* A chunk is part of its wave, and fits the tier.
LEMMA ChunkFits ==
  ASSUME NEW w \in SUBSET Task, NEW S \in Chunks(w)
  PROVE  S \subseteq w /\ IsFiniteSet(S) /\ Cardinality(S) <= MaxParallel
<1>1. S \subseteq w  BY DEF Chunks
<1>2. IsFiniteSet(S)  BY <1>1, TaskFinite, FS_Subset
<1>3. Cardinality(S) \in Nat  BY <1>2, FS_CardinalityType
<1>4. Cardinality(S) <= MaxParallel  BY <1>3, SomeParallel DEF Chunks
<1>. QED  BY <1>1, <1>2, <1>4

-----------------------------------------------------------------------------
LEMMA Starts == ASSUME Init PROVE IInv
<1>1. Typed
  BY GraphsOnTask DEF Init, Typed, Loop, NewLoop, Statuses, Stations, NoCall
<1>2. Chunked
  <2>1. Cardinality({}) = 0  BY FS_EmptySet
  <2>. QED  BY <2>1, SomeParallel DEF Init, Chunked, Past
<1>3. Started /\ Layered /\ Acyclic /\ Answered /\ Called
  BY DEF Init, Started, Layered, Acyclic, Answered, Called, Past, NewLoop, NoCall
<1>. QED  BY <1>1, <1>2, <1>3 DEF IInv

\* Steps that leave executeTasks() where it is: agents neither appear nor
\* come back.
LEMMA AgentsOnly ==
  ASSUME IInv, UNCHANGED execution,
         \A t \in Task : /\ loop'[t].at = "none" <=> loop[t].at = "none"
                         /\ status'[t] = "none" <=> status[t] = "none"
                         /\ loop[t].at = "over" => loop'[t].at = "over"
  PROVE  (Started /\ Chunked /\ Layered /\ Acyclic /\ Answered)'
<1>. USE DEF execution
<1>1. Started'  BY DEF IInv, Started
<1>2. Chunked'
  <2>1. \A t \in Task : Past(t)' <=> Past(t)  BY DEF Past
  <2>. QED  BY <2>1 DEF IInv, Chunked, NextWave
<1>3. Layered' /\ Acyclic' /\ Answered'  BY DEF IInv, Layered, Acyclic, Answered, Past
<1>. QED  BY <1>1, <1>2, <1>3

LEMMA ChunkStarts == ASSUME IInv, StartChunk PROVE IInv'
<1>. DEFINE P == Pending
<1>1. chunk = {} /\ P # {}  BY DEF StartChunk, IInv, Chunked
<1>2. P \subseteq Task  BY DEF Pending, NextWave, IInv, Typed
<1>3. PICK S \in Chunks(P) :
        /\ chunk' = S
        /\ wave' = P \ S
        /\ status' = [t \in Task |-> IF t \in S THEN "running" ELSE status[t]]
        /\ loop' = [t \in Task |-> IF t \in S THEN executeTask(NewLoop) ELSE loop[t]]
  BY DEF StartChunk
<1>4. S \subseteq P /\ Cardinality(S) <= MaxParallel  BY <1>2, <1>3, ChunkFits
<1>5. /\ completed' = completed \cup P
      /\ fleet' = "running"
      /\ UNCHANGED <<deps, answers, call, muddled>>
  BY DEF StartChunk
<1>6. \A t \in Task : Past(t)' <=> Past(t)
  <2>1. \A t \in Task : Past(t)' <=> t \in (completed \cup P) \ P
    BY <1>3, <1>4, <1>5 DEF Past
  <2>2. CASE wave = {}
    BY <1>1, <2>1, <2>2 DEF Past, Pending, NextWave
  <2>3. CASE wave # {}
    BY <1>1, <2>1, <2>3 DEF Past, Pending, IInv, Typed
  <2>. QED  BY <2>2, <2>3
<1>7. \A t \in P : loop[t].at = "none" /\ deps[t] \subseteq completed /\ \A d \in deps[t] : Past(d)
  <2>1. CASE wave = {}
    BY <1>1, <2>1 DEF Past, Pending, NextWave, IInv, Typed, Started
  <2>2. CASE wave # {}
    BY <1>1, <2>2 DEF Past, Pending, IInv, Typed, Started, Layered
  <2>. QED  BY <2>1, <2>2
<1>8. executeTask(NewLoop) \in Loop /\ executeTask(NewLoop).at = "preparing"
  BY DEF executeTask, NewLoop, Loop, Statuses, Stations
<1>9. Typed'
  <2>1. loop' \in [Task -> Loop] /\ status' \in [Task -> {"none", "running", "paused", "completed", "failed"}]
    BY <1>3, <1>8 DEF IInv, Typed
  <2>. QED  BY <1>2, <1>3, <1>4, <1>5, <2>1 DEF IInv, Typed
<1>10. Started'
  <2>. SUFFICES ASSUME NEW t \in Task
                PROVE  /\ loop'[t].at = "none" <=> t \in wave' \/ t \notin completed'
                       /\ loop'[t].at = "none" <=> status'[t] = "none"
    BY DEF Started
  <2>1. CASE t \in S  BY <1>3, <1>4, <1>5, <1>8, <2>1
  <2>2. CASE t \in P \ S  BY <1>3, <1>7, <2>2 DEF IInv, Started
  <2>3. CASE t \notin P
    <3>1. loop'[t] = loop[t] /\ status'[t] = status[t]  BY <1>3, <1>4, <2>3
    <3>2. (t \in wave' \/ t \notin completed') <=> t \notin completed  BY <1>3, <1>5, <2>3
    <3>3. t \notin wave  BY <2>3 DEF Pending
    <3>. QED  BY <3>1, <3>2, <3>3 DEF IInv, Started
  <2>. QED  BY <2>1, <2>2, <2>3
<1>11. Chunked'
  <2>1. \A t \in Task : Past(t)' => loop'[t].at = "over"
    <3>. SUFFICES ASSUME NEW t \in Task, Past(t) PROVE loop'[t].at = "over"
      BY <1>6
    <3>1. loop[t].at = "over"  BY DEF IInv, Chunked
    <3>. QED  BY <1>3, <1>4, <1>7, <3>1
  <2>. QED  BY <1>3, <1>4, <1>5, <2>1 DEF Chunked
<1>12. Layered'
  <2>1. \A t \in completed' : deps'[t] \subseteq completed'
    BY <1>5, <1>7 DEF IInv, Layered
  <2>2. \A t \in wave' \cup chunk' : \A d \in deps'[t] : d \in Task
    BY <1>2, <1>3, <1>4, <1>5 DEF IInv, Typed
  <2>3. \A t \in wave' \cup chunk' : \A d \in deps'[t] : Past(d)'
    BY <1>3, <1>4, <1>5, <1>6, <1>7, <2>2
  <2>. QED  BY <2>1, <2>3 DEF Layered
<1>13. Acyclic'
  <2>. SUFFICES ASSUME NEW C \in SUBSET Task, \A t \in C : deps[t] \cap C # {}
                PROVE  C \cap (completed \cup P) = {}
    BY <1>5 DEF Acyclic
  <2>1. C \cap completed = {}  BY DEF IInv, Acyclic
  <2>. QED  BY <1>7, <2>1
<1>14. Answered'  BY <1>5, <1>6 DEF IInv, Answered
<1>15. Called'
  <2>1. \A t \in Task : loop[t].at # "none" => loop'[t].at # "none"  BY <1>3, <1>8
  <2>. QED  BY <1>5, <2>1 DEF IInv, Called
<1>. QED  BY <1>9, <1>10, <1>11, <1>12, <1>13, <1>14, <1>15 DEF IInv

LEMMA ChunkSettles == ASSUME IInv, ChunkEnds PROVE IInv'
<1>. USE DEF ChunkEnds
<1>1. \A t \in Task : Past(t)' <=> Past(t) \/ t \in chunk
  BY DEF Past, IInv, Typed
<1>2. Typed'  BY DEF IInv, Typed
<1>3. Started' /\ Acyclic' /\ Called'  BY DEF IInv, Started, Acyclic, Called
<1>4. Chunked'
  <2>1. Cardinality({}) = 0  BY FS_EmptySet
  <2>. QED  BY <1>1, <2>1, SomeParallel DEF IInv, Chunked
<1>5. Layered'  BY DEF IInv, Layered, Past
<1>6. Answered'
  <2>1. \A t \in chunk : ~ Past(t)  BY DEF Past
  <2>. QED  BY <1>1, <2>1 DEF IInv, Typed, Answered
<1>. QED  BY <1>2, <1>3, <1>4, <1>5, <1>6 DEF IInv

LEMMA FleetStops == ASSUME IInv, FleetEnds \/ FleetRejects PROVE IInv'
<1>. USE DEF FleetEnds, FleetRejects
<1>1. Typed' /\ Started' /\ Layered' /\ Acyclic' /\ Answered' /\ Called'
  BY DEF IInv, Typed, Started, Layered, Acyclic, Answered, Called, Past
<1>2. Chunked'
  <2>1. chunk = {}  BY DEF IInv, Chunked
  <2>2. \A t \in Task : Past(t)' <=> Past(t)  BY DEF Past
  <2>3. FleetEnds => wave' = {} /\ NextWave' = {}  BY DEF Pending, NextWave
  <2>. QED  BY <2>1, <2>2, <2>3 DEF IInv, Chunked
<1>. QED  BY <1>1, <1>2 DEF IInv

LEMMA AgentTurns == ASSUME IInv, NEW t \in Task, AgentSteps(t) PROVE IInv'
<1>1. PICK l \in Turns(loop[t]) :
        /\ loop' = [loop EXCEPT ![t] = l]
        /\ status' = IF l.at # "over" THEN status
                     ELSE [status EXCEPT ![t] = IF l.ok THEN "completed" ELSE "failed"]
  BY DEF AgentSteps
<1>2. UNCHANGED <<execution, call, muddled>>  BY DEF AgentSteps
<1>3. loop[t] \in Loop  BY DEF IInv, Typed
<1>4. l \in Loop /\ l.at # "none" /\ loop[t].at \notin {"none", "over"}
  BY <1>3, TurnKinds DEF Leaves
<1>5. status[t] # "none"  BY <1>4 DEF IInv, Started
<1>6. Typed'
  <2>1. loop' \in [Task -> Loop]  BY <1>1, <1>4 DEF IInv, Typed
  <2>2. status' \in [Task -> {"none", "running", "paused", "completed", "failed"}]
    BY <1>1 DEF IInv, Typed
  <2>. QED  BY <1>2, <2>1, <2>2 DEF IInv, Typed, execution
<1>7. \A u \in Task : /\ loop'[u].at = "none" <=> loop[u].at = "none"
                      /\ status'[u] = "none" <=> status[u] = "none"
                      /\ loop[u].at = "over" => loop'[u].at = "over"
  BY <1>1, <1>4, <1>5 DEF IInv, Typed
<1>8. (Started /\ Chunked /\ Layered /\ Acyclic /\ Answered)'
  BY <1>2, <1>7, AgentsOnly
<1>9. Called'  BY <1>2, <1>7 DEF IInv, Called
<1>. QED  BY <1>6, <1>8, <1>9 DEF IInv

\* A step that turns the loop of agent t to l, of the same station, and notes
\* a call k on t.
LEMMA CallsOn ==
  ASSUME IInv, NEW c \in Caller, NEW t \in Task, status[t] # "none",
         NEW l \in {pause(loop[t]), resume(loop[t]), stop(loop[t])},
         NEW k, k \in [op : {"paused", "running", "failed", "stopAll"},
                       of : {t}, seen : SUBSET Task],
         loop' = [loop EXCEPT ![t] = l],
         call' = [call EXCEPT ![c] = k],
         status' \in [Task -> {"none", "running", "paused", "completed", "failed"}],
         \A u \in Task : status'[u] = "none" <=> status[u] = "none",
         muddled' \subseteq Task, UNCHANGED execution
  PROVE  IInv'
<1>1. loop[t] \in Loop /\ loop[t].at # "none"  BY DEF IInv, Typed, Started
<1>2. l \in Loop /\ l.at = loop[t].at  BY <1>1, ControlKinds
<1>3. \A u \in Task : loop'[u].at = loop[u].at  BY <1>2 DEF IInv, Typed
<1>4. Typed'
  <2>1. loop' \in [Task -> Loop]  BY <1>2 DEF IInv, Typed
  <2>2. k \in [op : {"none", "paused", "running", "failed", "stopAll"},
               of : Task \cup {Nobody}, seen : SUBSET Task]  OBVIOUS
  <2>. QED  BY <2>1, <2>2 DEF IInv, Typed, execution
<1>5. (Started /\ Chunked /\ Layered /\ Acyclic /\ Answered)'
  BY <1>3, AgentsOnly
<1>6. Called'
  <2>1. k.op # "none" /\ k.of = t  OBVIOUS
  <2>2. \A d \in Caller : call'[d] = IF d = c THEN k ELSE call[d]  BY DEF IInv, Typed
  <2>. QED  BY <1>1, <1>3, <2>1, <2>2 DEF IInv, Called
<1>. QED  BY <1>4, <1>5, <1>6 DEF IInv

\* A call ends, whatever it writes on the status of an agent that exists.
LEMMA CallsEnd ==
  ASSUME IInv, NEW c \in Caller,
         call' = [call EXCEPT ![c] = NoCall],
         status' \in [Task -> {"none", "running", "paused", "completed", "failed"}],
         \A u \in Task : status'[u] = "none" <=> status[u] = "none",
         muddled' \subseteq Task, UNCHANGED <<execution, loop>>
  PROVE  IInv'
<1>1. Typed'  BY DEF IInv, Typed, NoCall, execution
<1>2. (Started /\ Chunked /\ Layered /\ Acyclic /\ Answered)'
  BY AgentsOnly
<1>3. Called'
  <2>1. \A d \in Caller : call'[d] = IF d = c THEN NoCall ELSE call[d]  BY DEF IInv, Typed
  <2>2. NoCall.op = "none"  BY DEF NoCall
  <2>3. loop' = loop  OBVIOUS
  <2>. QED  BY <2>1, <2>2, <2>3 DEF IInv, Called
<1>. QED  BY <1>1, <1>2, <1>3 DEF IInv

LEMMA Begins ==
  ASSUME IInv, NEW c \in Caller, NEW t \in Task,
         PauseAgent(c, t) \/ ResumeAgent(c, t) \/ StopAgent(c, t)
  PROVE  IInv'
<1>1. PICK op \in {"paused", "running", "failed"},
           l \in {pause(loop[t]), resume(loop[t]), stop(loop[t])} :
        status[t] # "none" /\ Begin(c, op, t, l)
  BY DEF PauseAgent, ResumeAgent, StopAgent
<1>2. status' \in [Task -> {"none", "running", "paused", "completed", "failed"}]
  BY <1>1 DEF Begin, IInv, Typed
<1>3. [op |-> op, of |-> t, seen |-> {}]
        \in [op : {"paused", "running", "failed", "stopAll"}, of : {t}, seen : SUBSET Task]
  OBVIOUS
<1>4. muddled' \subseteq Task  BY <1>1 DEF Begin, Meets, IInv, Typed
<1>. QED  BY <1>1, <1>2, <1>3, <1>4, CallsOn DEF Begin

LEMMA EndsOrThrows ==
  ASSUME IInv, NEW c \in Caller, Ends(c) \/ Throws(c) PROVE IInv'
<1>1. CASE Ends(c)
  <2>1. call[c].of \in Task /\ status[call[c].of] # "none"
    BY <1>1 DEF Ends, IInv, Started, Called
  <2>2. \A u \in Task : status'[u] = IF u = call[c].of THEN call[c].op ELSE status[u]
    BY <1>1, <2>1 DEF Ends, IInv, Typed
  <2>4. \A u \in Task : status'[u] = "none" <=> status[u] = "none"
    BY <1>1, <2>1, <2>2 DEF Ends
  <2>3. status' \in [Task -> {"none", "running", "paused", "completed", "failed"}]
    BY <1>1, <2>1 DEF Ends, IInv, Typed
  <2>5. muddled' \subseteq Task  BY <1>1 DEF Ends, IInv, Typed
  <2>. QED  BY <1>1, <2>3, <2>4, <2>5, CallsEnd DEF Ends
<1>2. CASE Throws(c)
  <2>1. status' \in [Task -> {"none", "running", "paused", "completed", "failed"}]
    BY <1>2 DEF Throws, IInv, Typed
  <2>2. call[c].of \in Task  BY <1>2 DEF Throws, IInv, Called
  <2>3. muddled' \subseteq Task  BY <1>2, <2>2 DEF Throws, IInv, Typed
  <2>. QED  BY <1>2, <2>1, <2>3, CallsEnd DEF Throws
<1>. QED  BY <1>1, <1>2

\* A turn of stopAll() over statuses that differ from the agents' in no agent
\* that does not exist.
LEMMA Visits ==
  ASSUME IInv, NEW c \in Caller, NEW seen \in SUBSET Task,
         status' \in [Task -> {"none", "running", "paused", "completed", "failed"}],
         \A u \in Task : status'[u] = "none" <=> status[u] = "none",
         Visit(c, status', seen), UNCHANGED execution
  PROVE  IInv'
<1>. DEFINE left == {t \in Task \ seen : status'[t] \in {"running", "paused"}}
<1>1. CASE left = {}
  <2>1. muddled' \subseteq Task  BY <1>1 DEF Visit, IInv, Typed
  <2>. QED  BY <1>1, <2>1, CallsEnd DEF Visit
<1>2. CASE left # {}
  <2>1. PICK t \in left :
          /\ loop' = [loop EXCEPT ![t] = stop(loop[t])]
          /\ call' = [call EXCEPT ![c] = [op |-> "stopAll", of |-> t, seen |-> seen \cup {t}]]
          /\ Meets(c, t)
    BY <1>2 DEF Visit
  <2>2. status[t] # "none"  BY <2>1
  <2>3. [op |-> "stopAll", of |-> t, seen |-> seen \cup {t}]
          \in [op : {"paused", "running", "failed", "stopAll"}, of : {t}, seen : SUBSET Task]
    BY <2>1
  <2>4. muddled' \subseteq Task  BY <2>1 DEF Meets, IInv, Typed
  <2>. QED  BY <2>1, <2>2, <2>3, <2>4, CallsOn
<1>. QED  BY <1>1, <1>2

LEMMA StopsAll ==
  ASSUME IInv, NEW c \in Caller, StopAll(c) \/ StopAllTurn(c) PROVE IInv'
<1>1. CASE StopAll(c)
  <2>1. status' = status /\ UNCHANGED execution  BY <1>1 DEF StopAll
  <2>2. status' \in [Task -> {"none", "running", "paused", "completed", "failed"}]
    BY <2>1 DEF IInv, Typed
  <2>3. Visit(c, status', {})  BY <1>1, <2>1 DEF StopAll
  <2>. QED  BY <2>1, <2>2, <2>3, Visits
<1>2. CASE StopAllTurn(c)
  <2>1. call[c].of \in Task /\ status[call[c].of] # "none"
    BY <1>2 DEF StopAllTurn, IInv, Started, Called
  <2>2. status' = [status EXCEPT ![call[c].of] = "failed"]  BY <1>2 DEF StopAllTurn
  <2>3. status' \in [Task -> {"none", "running", "paused", "completed", "failed"}]
    BY <2>1, <2>2 DEF IInv, Typed
  <2>4. \A u \in Task : status'[u] = "none" <=> status[u] = "none"
    BY <2>1, <2>2 DEF IInv, Typed
  <2>5. call[c].seen \in SUBSET Task  BY DEF IInv, Typed
  <2>. QED  BY <1>2, <2>3, <2>4, <2>5, Visits DEF StopAllTurn
<1>. QED  BY <1>1, <1>2

LEMMA Inductive == IInv /\ [Next]_vars => IInv'
<1>. SUFFICES ASSUME IInv, [Next]_vars PROVE IInv'
  OBVIOUS
<1>1. CASE StartChunk  BY <1>1, ChunkStarts
<1>2. CASE ChunkEnds  BY <1>2, ChunkSettles
<1>3. CASE FleetEnds \/ FleetRejects  BY <1>3, FleetStops
<1>4. ASSUME NEW t \in Task, AgentSteps(t) PROVE IInv'  BY <1>4, AgentTurns
<1>5. ASSUME NEW c \in Caller, NEW t \in Task,
             PauseAgent(c, t) \/ ResumeAgent(c, t) \/ StopAgent(c, t)
      PROVE  IInv'
  BY <1>5, Begins
<1>6. ASSUME NEW c \in Caller, Ends(c) \/ Throws(c) PROVE IInv'  BY <1>6, EndsOrThrows
<1>7. ASSUME NEW c \in Caller, StopAll(c) \/ StopAllTurn(c) PROVE IInv'  BY <1>7, StopsAll
<1>8. CASE UNCHANGED vars
  BY <1>8 DEF vars, IInv, Typed, Started, Chunked, NextWave, Layered, Acyclic, Answered, Called, Past
<1>. QED  BY <1>1, <1>2, <1>3, <1>4, <1>5, <1>6, <1>7, <1>8 DEF Next

LEMMA Invariant == Spec => []IInv
<1>1. Init => IInv  BY Starts
<1>. QED  BY <1>1, Inductive, PTL DEF Spec

-----------------------------------------------------------------------------
\* Every reachable state of the fleet, its agents, their loops and the calls of
\* the operators is well typed, whatever was paused, stopped or rejected.
THEOREM TypeCorrect == Spec => []TypeOK
<1>. DEFINE Kept == deps \in Graphs /\ fleet \in {"publishing", "running", "ended", "rejected"}
<1>1. Init => Kept  BY DEF Init
<1>2. Kept /\ [Next]_vars => Kept'
  <2>. SUFFICES ASSUME Kept, [Next]_vars PROVE Kept'
    OBVIOUS
  <2>1. CASE StartChunk \/ ChunkEnds \/ FleetEnds \/ FleetRejects
    BY <2>1 DEF StartChunk, ChunkEnds, FleetEnds, FleetRejects
  <2>2. CASE UNCHANGED <<deps, fleet>>  BY <2>2
  <2>3. ASSUME NEW t \in Task, AgentSteps(t) PROVE UNCHANGED <<deps, fleet>>
    BY <2>3 DEF AgentSteps, execution
  <2>4. ASSUME NEW c \in Caller, NEW t \in Task,
               PauseAgent(c, t) \/ ResumeAgent(c, t) \/ StopAgent(c, t)
        PROVE  UNCHANGED <<deps, fleet>>
    BY <2>4 DEF PauseAgent, ResumeAgent, StopAgent, Begin, execution
  <2>5. ASSUME NEW c \in Caller, Ends(c) \/ Throws(c) \/ StopAll(c) \/ StopAllTurn(c)
        PROVE  UNCHANGED <<deps, fleet>>
    BY <2>5 DEF Ends, Throws, StopAll, StopAllTurn, execution
  <2>6. UNCHANGED vars => UNCHANGED <<deps, fleet>>  BY DEF vars
  <2>. QED  BY <2>1, <2>2, <2>3, <2>4, <2>5, <2>6 DEF Next
<1>3. IInv /\ Kept => TypeOK  BY DEF IInv, Typed, TypeOK
<1>. HIDE DEF Kept
<1>. QED  BY <1>1, <1>2, <1>3, Invariant, PTL DEF Spec

-----------------------------------------------------------------------------
\* When the fleet ends, the tasks never scheduled are those Blocked names: they
\* wait for each other, and no set of such tasks is ever scheduled.
LEMMA EndsWhenBlocked ==
  ASSUME IInv, fleet = "ended" PROVE Task \ completed = Graph!Blocked(deps)
<1>1. NextWave = {}  BY DEF IInv, Chunked
<1>2. \A t \in Task \ completed : deps[t] \cap (Task \ completed) # {}
  BY <1>1 DEF NextWave, IInv, Typed
<1>3. Task \ completed \subseteq Graph!Blocked(deps)
  BY <1>2 DEF Graph!Blocked
<1>4. Graph!Blocked(deps) \subseteq Task \ completed
  BY DEF Graph!Blocked, IInv, Acyclic
<1>. QED  BY <1>3, <1>4

\* For every set of tasks, graph, tier and operators: when executeTasks() of
\* fleet-manager.ts returns, it has pushed one result for each task that lies
\* neither on a dependency cycle nor behind one, and none for the others.
THEOREM AnswersAll == Spec => []EndsWithAll
<1>1. ASSUME IInv PROVE EndsWithAll
  <2>. SUFFICES ASSUME fleet = "ended", NEW t \in Task
                PROVE  /\ answers[t] = IF t \in Graph!Blocked(deps) THEN 0 ELSE 1
                       /\ t \in Graph!Blocked(deps) <=> status[t] = "none"
    BY DEF EndsWithAll
  <2>1. chunk = {} /\ wave = {}  BY <1>1 DEF IInv, Chunked
  <2>2. t \in Graph!Blocked(deps) <=> t \notin completed  BY <1>1, EndsWhenBlocked
  <2>. QED  BY <1>1, <2>1, <2>2 DEF IInv, Answered, Started, Past
<1>. QED  BY <1>1, Invariant, PTL

-----------------------------------------------------------------------------
LEMMA StartMaps == ASSUME Init PROVE Graph!Init
BY DEF Init, Graph!Init, TaskState, Phase, NewLoop

LEMMA ChunkMaps == ASSUME IInv, StartChunk PROVE Graph!Start(chunk')
<1>. DEFINE P == Pending
<1>1. chunk = {} /\ IInv'  BY ChunkStarts DEF StartChunk, IInv, Chunked
<1>2. P \subseteq Task  BY DEF Pending, NextWave, IInv, Typed
<1>3. PICK S \in Chunks(P) :
        chunk' = S /\ loop' = [t \in Task |-> IF t \in S THEN executeTask(NewLoop) ELSE loop[t]]
  BY DEF StartChunk
<1>4. S \subseteq P /\ S \subseteq Task /\ Cardinality(S) <= MaxParallel
  BY <1>2, <1>3, ChunkFits
<1>5. \A t \in P : loop[t].at = "none" /\ \A d \in deps[t] : d \in Task /\ loop[d].at = "over"
  <2>1. CASE wave = {}
    <3>1. \A d \in completed : Past(d)  BY <1>1, <2>1 DEF Past
    <3>. QED  BY <2>1, <3>1 DEF Pending, NextWave, IInv, Typed, Started, Chunked
  <2>2. CASE wave # {}
    BY <2>2 DEF Pending, IInv, Typed, Started, Layered, Chunked
  <2>. QED  BY <2>1, <2>2
<1>6. S \subseteq Graph!Is("waiting") /\ \A t \in S : deps[t] \subseteq Graph!Is("ended")
  BY <1>2, <1>4, <1>5 DEF Graph!Is, TaskState, Phase
<1>7. Graph!Is("running") = {}
  <2>. SUFFICES ASSUME NEW t \in Task PROVE loop[t].at \in {"none", "over"}
    BY DEF Graph!Is, TaskState, Phase
  <2>1. t \in wave \/ t \notin completed \/ Past(t)  BY <1>1 DEF Past
  <2>. QED  BY <2>1 DEF IInv, Started, Chunked
<1>8. Graph!Cardinality(Graph!Is("running") \cup S) <= MaxParallel
  <2>1. Graph!Is("running") \cup S = S  BY <1>7
  <2>2. Graph!Cardinality(S) = Cardinality(S)  BY DEF Graph!Cardinality, Cardinality
  <2>. QED  BY <1>4, <2>1, <2>2
<1>9. TaskState' = [t \in Task |-> IF t \in S THEN "running" ELSE TaskState[t]]
  <2>1. Phase(executeTask(NewLoop)) = "running"  BY DEF Phase, executeTask
  <2>. QED  BY <1>3, <2>1 DEF TaskState
<1>10. deps' = deps  BY DEF StartChunk
<1>. QED  BY <1>3, <1>6, <1>8, <1>9, <1>10 DEF Graph!Start

LEMMA TurnMaps ==
  ASSUME IInv, NEW t \in Task, AgentSteps(t)
  PROVE  Graph!End(t) \/ UNCHANGED <<deps, TaskState>>
<1>1. PICK l \in Turns(loop[t]) : loop' = [loop EXCEPT ![t] = l]
  BY DEF AgentSteps
<1>2. deps' = deps  BY DEF AgentSteps, execution
<1>3. loop[t] \in Loop  BY DEF IInv, Typed
<1>4. l.at # "none" /\ loop[t].at \notin {"none", "over"}
  BY <1>3, TurnKinds DEF Leaves
<1>5. TaskState' = [u \in Task |-> IF u = t THEN Phase(l) ELSE TaskState[u]]
  BY <1>1 DEF TaskState, IInv, Typed
<1>6. TaskState[t] = "running"  BY <1>4 DEF TaskState, Phase
<1>7. CASE l.at = "over"
  <2>1. TaskState' = [TaskState EXCEPT ![t] = "ended"]
    BY <1>5, <1>7 DEF TaskState, Phase
  <2>. QED  BY <1>2, <1>6, <2>1 DEF Graph!End
<1>8. CASE l.at # "over"
  <2>1. Phase(l) = "running"  BY <1>4, <1>8 DEF Phase
  <2>2. TaskState' = TaskState  BY <1>5, <1>6, <2>1 DEF TaskState
  <2>. QED  BY <1>2, <2>2
<1>. QED  BY <1>7, <1>8

\* A call turns a status, which is not part of the abstract state.
LEMMA CallMaps ==
  ASSUME IInv, NEW c \in Caller,
         \/ \E t \in Task : PauseAgent(c, t) \/ ResumeAgent(c, t) \/ StopAgent(c, t)
         \/ Ends(c) \/ Throws(c) \/ StopAll(c) \/ StopAllTurn(c)
  PROVE  UNCHANGED <<deps, TaskState>>
<1>. SUFFICES deps' = deps /\ \A t \in Task : loop'[t].at = loop[t].at
  BY DEF TaskState, Phase
<1>1. deps' = deps
  BY DEF PauseAgent, ResumeAgent, StopAgent, Begin, Ends, Throws, StopAll, StopAllTurn, execution
<1>2. \/ loop' = loop
      \/ \E t \in Task, l \in Loop : loop' = [loop EXCEPT ![t] = l] /\ l.at = loop[t].at
  <2>1. \A t \in Task : \A l \in {pause(loop[t]), resume(loop[t]), stop(loop[t])} :
          l \in Loop /\ l.at = loop[t].at
    BY ControlKinds DEF IInv, Typed
  <2>2. CASE \E t \in Task : PauseAgent(c, t) \/ ResumeAgent(c, t) \/ StopAgent(c, t)
    BY <2>1, <2>2 DEF PauseAgent, ResumeAgent, StopAgent, Begin
  <2>3. CASE Ends(c) \/ Throws(c)
    BY <2>3 DEF Ends, Throws
  <2>4. CASE StopAll(c)
    BY <2>1, <2>4 DEF StopAll, Visit
  <2>5. CASE StopAllTurn(c)
    BY <2>1, <2>5 DEF StopAllTurn, Visit
  <2>. QED  BY <2>2, <2>3, <2>4, <2>5
<1>3. \A t \in Task : loop'[t].at = loop[t].at  BY <1>2 DEF IInv, Typed
<1>. QED  BY <1>1, <1>3

\* For every graph, tier and any number of operators whose calls overlap or
\* fail: executeTasks() starts an agent only after those it depends on have
\* returned, no agent twice, and at most MaxParallel run at a time.
THEOREM ImplementsGraph == Spec => RespectsGraph
<1>1. Init => Graph!Init  BY StartMaps
<1>2. IInv /\ [Next]_vars => [Graph!Next]_<<deps, TaskState>>
  <2>. SUFFICES ASSUME IInv, [Next]_vars PROVE [Graph!Next]_<<deps, TaskState>>
    OBVIOUS
  <2>1. CASE StartChunk
    <3>1. Graph!Start(chunk')  BY <2>1, ChunkMaps
    <3>2. chunk' \in SUBSET Task  BY <2>1, ChunkStarts DEF IInv, Typed
    <3>. QED  BY <3>1, <3>2 DEF Graph!Next
  <2>2. CASE ChunkEnds \/ FleetEnds \/ FleetRejects
    BY <2>2 DEF ChunkEnds, FleetEnds, FleetRejects, TaskState
  <2>3. ASSUME NEW t \in Task, AgentSteps(t) PROVE [Graph!Next]_<<deps, TaskState>>
    BY <2>3, TurnMaps DEF Graph!Next
  <2>4. ASSUME NEW c \in Caller,
               \/ \E t \in Task : PauseAgent(c, t) \/ ResumeAgent(c, t) \/ StopAgent(c, t)
               \/ Ends(c) \/ Throws(c) \/ StopAll(c) \/ StopAllTurn(c)
        PROVE  UNCHANGED <<deps, TaskState>>
    BY <2>4, CallMaps
  <2>5. CASE UNCHANGED vars  BY <2>5 DEF vars, TaskState
  <2>. QED  BY <2>1, <2>2, <2>3, <2>4, <2>5 DEF Next
<1>. QED  BY <1>1, <1>2, Invariant, PTL DEF Spec, RespectsGraph, Graph!Spec

-----------------------------------------------------------------------------
\* The status an agent will have when the call in flight on it ends.
Meant(op) == IF op = "stopAll" THEN "failed" ELSE op

\* While a call is in flight its agent's loop has been told already, and it is
\* the only call on that agent.
Told ==
  \A c \in Caller, t \in Task \ muddled :
    call[c].of = t => /\ Open(loop[t]) => Meant(call[c].op) = Shown(loop[t].status)
                      /\ \A d \in Caller : call[d].of = t => d = c

\* The operator c makes a call on an agent.
LEMMA OperatorStep ==
  ASSUME IInv, Told, ControlAgrees, NEW c \in Caller,
         NEW l, NEW t \in Task, NEW op \in {"paused", "running", "failed", "stopAll"},
         l \in Loop, l.at = loop[t].at, Shown(l.status) = Meant(op),
         loop' = [loop EXCEPT ![t] = l],
         NEW seen, call' = [call EXCEPT ![c] = [op |-> op, of |-> t, seen |-> seen]],
         Meets(c, t),
         \A u \in Task : u # t => \/ status'[u] = status[u] /\ call[c].of # u
                                  \/ status'[u] = Meant(call[c].op) /\ call[c].of = u
  PROVE  (Told /\ ControlAgrees)'
<1>1. call'[c].of = t /\ call'[c].op = op /\ \A d \in Caller \ {c} : call'[d] = call[d]
  BY DEF IInv, Typed
<1>2. \A u \in Task : loop'[u] = IF u = t THEN l ELSE loop[u]  BY DEF IInv, Typed
<1>3. /\ muddled \subseteq muddled'
      /\ t \notin muddled' => \A d \in Caller \ {c} : call[d].of # t
  BY DEF Meets
<1>4. ASSUME NEW d \in Caller, NEW u \in Task \ muddled', call'[d].of = u
      PROVE  /\ Open(loop'[u]) => Meant(call'[d].op) = Shown(loop'[u].status)
             /\ \A e \in Caller : call'[e].of = u => e = d
  <2>1. u \notin muddled  BY <1>3
  <2>2. CASE d = c
    BY <1>1, <1>2, <1>3, <1>4, <2>2
  <2>3. CASE d # c
    <3>1. u # t /\ call[d].of = u  BY <1>1, <1>3, <1>4, <2>3
    <3>2. call'[c].of # u  BY <1>1, <3>1
    <3>. QED  BY <1>1, <1>2, <2>1, <2>3, <3>1, <3>2 DEF Told
  <2>. QED  BY <2>2, <2>3
<1>5. ASSUME NEW u \in Task \ muddled', Open(loop'[u]), \A d \in Caller : call'[d].of # u
      PROVE  status'[u] = Shown(loop'[u].status)
  <2>1. u # t /\ u \notin muddled  BY <1>1, <1>3, <1>5
  <2>2. Open(loop[u]) /\ loop'[u] = loop[u]  BY <1>2, <1>5, <2>1
  <2>3. CASE call[c].of = u
    BY <2>1, <2>2, <2>3 DEF Told
  <2>4. CASE call[c].of # u
    <3>1. \A d \in Caller : call[d].of # u  BY <1>1, <1>5, <2>4
    <3>. QED  BY <2>1, <2>2, <2>4, <3>1 DEF ControlAgrees
  <2>. QED  BY <2>3, <2>4
<1>. QED  BY <1>4, <1>5 DEF Told, ControlAgrees

\* A call of the operator c ends, and has written the agent's status or thrown.
LEMMA OperatorDone ==
  ASSUME IInv, Told, ControlAgrees, NEW c \in Caller, loop' = loop,
         call' = [call EXCEPT ![c] = NoCall], muddled \subseteq muddled',
         \A u \in Task \ muddled' : \/ status'[u] = status[u] /\ call[c].of # u
                                    \/ status'[u] = Meant(call[c].op) /\ call[c].of = u
  PROVE  (Told /\ ControlAgrees)'
<1>1. call'[c].of \notin Task /\ \A d \in Caller \ {c} : call'[d] = call[d]
  BY NobodyIsNoTask DEF NoCall, Nobody, IInv, Typed
<1>2. Told'  BY <1>1 DEF Told
<1>3. ASSUME NEW u \in Task \ muddled', Open(loop[u]), \A d \in Caller : call'[d].of # u
      PROVE  status'[u] = Shown(loop[u].status)
  <2>1. CASE call[c].of = u
    BY <1>3, <2>1 DEF Told
  <2>2. CASE call[c].of # u
    <3>1. \A d \in Caller : call[d].of # u  BY <1>1, <1>3, <2>2
    <3>. QED  BY <1>3, <2>2, <3>1 DEF ControlAgrees
  <2>. QED  BY <2>1, <2>2
<1>. QED  BY <1>2, <1>3 DEF ControlAgrees

LEMMA ControlsInit == Init => Told /\ ControlAgrees
<1>. SUFFICES ASSUME Init PROVE \A t \in Task : ~ Open(loop[t])
  <2>1. Init => \A c \in Caller : call[c].of \notin Task
    BY NobodyIsNoTask DEF Init, NoCall, Nobody
  <2>. QED  BY <2>1 DEF Told, ControlAgrees
<1>. QED  BY DEF Init, NewLoop, Open

LEMMA ControlsNext ==
  IInv /\ Told /\ ControlAgrees /\ [Next]_vars => (Told /\ ControlAgrees)'
<1>. SUFFICES ASSUME IInv, Told, ControlAgrees, [Next]_vars
              PROVE  (Told /\ ControlAgrees)'
  OBVIOUS
<1>1. CASE StartChunk
  <2>1. PICK S \in Chunks(Pending) :
          /\ status' = [t \in Task |-> IF t \in S THEN "running" ELSE status[t]]
          /\ loop' = [t \in Task |-> IF t \in S THEN executeTask(NewLoop) ELSE loop[t]]
    BY <1>1 DEF StartChunk
  <2>2. UNCHANGED <<call, muddled>> /\ Shown(executeTask(NewLoop).status) = "running"
    BY <1>1 DEF StartChunk, Shown, executeTask
  <2>3. \A t \in S : loop[t].at = "none"
    <3>1. Pending \subseteq Task /\ \A t \in Pending : t \in wave \/ t \notin completed
      BY DEF Pending, NextWave, IInv, Typed
    <3>2. S \subseteq Pending  BY <3>1, ChunkFits
    <3>. QED  BY <3>1, <3>2 DEF IInv, Started
  <2>4. \A c \in Caller : call[c].of \notin S
    <3>1. Nobody \notin S
      <4>1. Pending \subseteq Task  BY DEF Pending, NextWave, IInv, Typed
      <4>. QED  BY <4>1, ChunkFits, NobodyIsNoTask DEF Nobody
    <3>. QED  BY <2>3, <3>1 DEF IInv, Called, NoCall
  <2>5. Told'  BY <2>1, <2>2, <2>4 DEF Told
  <2>6. ControlAgrees'  BY <2>1, <2>2 DEF ControlAgrees
  <2>. QED  BY <2>5, <2>6
<1>2. CASE ChunkEnds \/ FleetEnds \/ FleetRejects
  BY <1>2 DEF ChunkEnds, FleetEnds, FleetRejects, Told, ControlAgrees
<1>3. ASSUME NEW t \in Task, AgentSteps(t) PROVE (Told /\ ControlAgrees)'
  <2>1. PICK l \in Turns(loop[t]) :
          /\ loop' = [loop EXCEPT ![t] = l]
          /\ status' = IF l.at # "over" THEN status
                       ELSE [status EXCEPT ![t] = IF l.ok THEN "completed" ELSE "failed"]
    BY <1>3 DEF AgentSteps
  <2>2. UNCHANGED <<call, muddled>>  BY <1>3 DEF AgentSteps
  <2>3. loop[t] \in Loop  BY DEF IInv, Typed
  <2>4. Open(l) => Open(loop[t]) /\ l.status = loop[t].status
    BY <2>3, TurnKinds DEF Leaves
  <2>5. \A u \in Task : Open(loop'[u]) => /\ Open(loop[u])
                                          /\ loop'[u].status = loop[u].status
                                          /\ status'[u] = status[u]
    <3>1. Open(l) => l.at # "over"  BY DEF Open
    <3>. QED  BY <2>1, <2>4, <3>1 DEF IInv, Typed
  <2>6. Told'  BY <2>2, <2>5 DEF Told
  <2>7. ControlAgrees'  BY <2>2, <2>5 DEF ControlAgrees
  <2>. QED  BY <2>6, <2>7
<1>4. ASSUME NEW c \in Caller, NEW t \in Task,
             PauseAgent(c, t) \/ ResumeAgent(c, t) \/ StopAgent(c, t)
      PROVE  (Told /\ ControlAgrees)'
  <2>1. PICK op \in {"paused", "running", "failed"},
             l \in {pause(loop[t]), resume(loop[t]), stop(loop[t])} :
          Shown(l.status) = Meant(op) /\ Begin(c, op, t, l)
    <3>1. loop[t] \in Loop  BY DEF IInv, Typed
    <3>2. /\ Shown(pause(loop[t]).status) = Meant("paused")
          /\ Shown(resume(loop[t]).status) = Meant("running")
          /\ Shown(stop(loop[t]).status) = Meant("failed")
      BY <3>1 DEF Shown, Meant, pause, resume, stop, Loop
    <3>. QED  BY <1>4, <3>2 DEF PauseAgent, ResumeAgent, StopAgent
  <2>2. l \in Loop /\ l.at = loop[t].at  BY ControlKinds DEF IInv, Typed
  <2>3. call[c].of \notin Task /\ status' = status
    BY <2>1, NobodyIsNoTask DEF Begin, NoCall, Nobody
  <2>. QED  BY <2>1, <2>2, <2>3, OperatorStep DEF Begin
<1>5. ASSUME NEW c \in Caller, Ends(c) PROVE (Told /\ ControlAgrees)'
  <2>1. call[c].of \in Task  BY <1>5 DEF Ends, IInv, Called
  <2>2. status'[call[c].of] = Meant(call[c].op) /\ UNCHANGED <<loop, muddled>>
    BY <1>5, <2>1 DEF Ends, Meant, IInv, Typed
  <2>3. \A u \in Task : u # call[c].of => status'[u] = status[u]
    BY <1>5, <2>1 DEF Ends, IInv, Typed
  <2>. QED  BY <1>5, <2>2, <2>3, OperatorDone DEF Ends
<1>6. ASSUME NEW c \in Caller, Throws(c) PROVE (Told /\ ControlAgrees)'
  BY <1>6, OperatorDone DEF Throws
<1>7. ASSUME NEW c \in Caller, StopAll(c) \/ StopAllTurn(c)
      PROVE  (Told /\ ControlAgrees)'
  <2>1. PICK seen : Visit(c, status', seen)
    BY <1>7 DEF StopAll, StopAllTurn
  <2>2. \A u \in Task : \/ status'[u] = status[u] /\ call[c].of # u
                        \/ status'[u] = Meant(call[c].op) /\ call[c].of = u
    <3>1. CASE StopAll(c)
      BY <3>1, NobodyIsNoTask DEF StopAll, NoCall, Nobody
    <3>2. CASE StopAllTurn(c)
      BY <3>2 DEF StopAllTurn, Meant, IInv, Typed
    <3>. QED  BY <1>7, <3>1, <3>2
  <2>3. CASE call' = [call EXCEPT ![c] = NoCall] /\ UNCHANGED <<loop, muddled>>
    BY <2>2, <2>3, OperatorDone
  <2>4. ASSUME NEW t \in Task, loop' = [loop EXCEPT ![t] = stop(loop[t])],
               call' = [call EXCEPT ![c] = [op |-> "stopAll", of |-> t, seen |-> seen \cup {t}]],
               Meets(c, t)
        PROVE  (Told /\ ControlAgrees)'
    <3>1. loop[t] \in Loop  BY DEF IInv, Typed
    <3>2. stop(loop[t]) \in Loop /\ stop(loop[t]).at = loop[t].at  BY <3>1, ControlKinds
    <3>3. Shown(stop(loop[t]).status) = Meant("stopAll")
      BY <3>1 DEF Shown, Meant, stop, Loop
    <3>. QED  BY <2>2, <2>4, <3>2, <3>3, OperatorStep
  <2>. QED  BY <2>1, <2>3, <2>4 DEF Visit
<1>8. CASE UNCHANGED vars
  BY <1>8 DEF vars, Told, ControlAgrees
<1>. QED  BY <1>1, <1>2, <1>3, <1>4, <1>5, <1>6, <1>7, <1>8 DEF Next

\* For any number of operators: an agent that runs and on which no call is in
\* flight has the status that pauseAgent, resumeAgent, stopAgent and stopAll
\* last gave its loop, unless two calls overlapped on it or one threw.
THEOREM ControlsAgree == Spec => []ControlAgrees
BY ControlsInit, ControlsNext, Invariant, PTL DEF Spec

-----------------------------------------------------------------------------
(* A stopped agent stops, and a fleet is never stuck.                      *)

\* A call that pauses or resumes an agent was not made on a stopped one.
Steered ==
  \A c \in Caller, t \in Task \ muddled :
    call[c].of = t /\ call[c].op \in {"paused", "running"} /\ Open(loop[t]) => status[t] # "failed"

\* An agent marked failed has been told.
Halted == \A t \in Task \ muddled : status[t] = "failed" /\ Open(loop[t]) => loop[t].status = "stopped"

LEMMA HaltedHolds == Told /\ ControlAgrees /\ Steered /\ IInv => Halted
<1>. SUFFICES ASSUME Told, ControlAgrees, Steered, IInv,
                     NEW t \in Task \ muddled, status[t] = "failed", Open(loop[t])
              PROVE  loop[t].status = "stopped"
  BY DEF Halted
<1>1. Shown(loop[t].status) = "failed" => loop[t].status = "stopped"
  BY DEF Shown
<1>2. CASE \A c \in Caller : call[c].of # t
  BY <1>1, <1>2 DEF ControlAgrees
<1>3. ASSUME NEW c \in Caller, call[c].of = t PROVE loop[t].status = "stopped"
  <2>1. call[c].op \notin {"paused", "running"}  BY <1>3 DEF Steered
  <2>2. call[c].op # "none"
    BY <1>3, NobodyIsNoTask DEF IInv, Called, NoCall, Nobody
  <2>3. call[c].op \in {"none", "paused", "running", "failed", "stopAll"}
    BY DEF IInv, Typed
  <2>4. Meant(call[c].op) = "failed"  BY <2>1, <2>2, <2>3 DEF Meant
  <2>. QED  BY <1>1, <1>3, <2>4 DEF Told
<1>. QED  BY <1>2, <1>3

\* The agents a chunk starts were not there before.
LEMMA NewAgents ==
  ASSUME IInv, StartChunk
  PROVE  /\ UNCHANGED <<call, muddled>>
         /\ \A t \in Task : loop[t].at # "none" => loop'[t] = loop[t] /\ status'[t] = status[t]
<1>1. PICK S \in Chunks(Pending) :
        /\ status' = [t \in Task |-> IF t \in S THEN "running" ELSE status[t]]
        /\ loop' = [t \in Task |-> IF t \in S THEN executeTask(NewLoop) ELSE loop[t]]
  BY DEF StartChunk
<1>2. Pending \subseteq Task /\ \A t \in Pending : t \in wave \/ t \notin completed
  BY DEF Pending, NextWave, IInv, Typed
<1>3. S \subseteq Pending  BY <1>2, ChunkFits
<1>4. \A t \in S : loop[t].at = "none"  BY <1>2, <1>3 DEF IInv, Started
<1>. QED  BY <1>1, <1>4 DEF StartChunk

\* An agent takes a turn, and the others none.
LEMMA AgentTurn ==
  ASSUME IInv, NEW t \in Task, AgentSteps(t)
  PROVE  /\ UNCHANGED <<call, muddled>>
         /\ \A u \in Task \ {t} : loop'[u] = loop[u] /\ status'[u] = status[u]
         /\ loop'[t] \in Turns(loop[t]) /\ loop[t] \in Loop
         /\ Open(loop'[t]) => Open(loop[t]) /\ status'[t] = status[t]
<1>1. PICK l \in Turns(loop[t]) :
        /\ loop' = [loop EXCEPT ![t] = l]
        /\ status' = IF l.at # "over" THEN status
                     ELSE [status EXCEPT ![t] = IF l.ok THEN "completed" ELSE "failed"]
  BY DEF AgentSteps
<1>2. loop[t] \in Loop  BY DEF IInv, Typed
<1>3. Open(l) => Open(loop[t]) /\ l.at # "over"
  BY <1>2, TurnKinds DEF Open
<1>4. loop'[t] = l /\ \A u \in Task \ {t} : loop'[u] = loop[u]
  BY <1>1 DEF IInv, Typed
<1>5. \A u \in Task \ {t} : status'[u] = status[u]
  BY <1>1 DEF IInv, Typed
<1>. QED  BY <1>1, <1>2, <1>3, <1>4, <1>5 DEF AgentSteps

\* What an operator's step may change: no place of a loop, the statuses and
\* the call of its own.
CallSteps(c) ==
  \/ \E t \in Task : PauseAgent(c, t) \/ ResumeAgent(c, t) \/ StopAgent(c, t)
  \/ Ends(c) \/ Throws(c) \/ StopAll(c) \/ StopAllTurn(c)

LEMMA OwnCall ==
  ASSUME IInv, NEW c \in Caller, CallSteps(c)
  PROVE  /\ muddled \subseteq muddled'
         /\ \A t \in Task : loop'[t].at = loop[t].at
         /\ \A d \in Caller \ {c} : call'[d] = call[d]
         /\ \A t \in Task : call[c].of # t => status'[t] = status[t]
         /\ \A t \in Task : call[c].of = t => \/ status'[t] = status[t]
                                              \/ status'[t] = Meant(call[c].op)
<1>1. muddled \subseteq muddled'
  BY DEF CallSteps, PauseAgent, ResumeAgent, StopAgent, Begin, Meets, Ends, Throws, StopAll,
     StopAllTurn, Visit
<1>2. \A t \in Task : loop'[t].at = loop[t].at
  <2>1. \A t \in Task : \A l \in {pause(loop[t]), resume(loop[t]), stop(loop[t])} :
          l \in Loop /\ l.at = loop[t].at
    BY ControlKinds DEF IInv, Typed
  <2>2. \/ loop' = loop
        \/ \E t \in Task, l \in Loop : loop' = [loop EXCEPT ![t] = l] /\ l.at = loop[t].at
    <3>1. CASE \E t \in Task : PauseAgent(c, t) \/ ResumeAgent(c, t) \/ StopAgent(c, t)
      BY <2>1, <3>1 DEF PauseAgent, ResumeAgent, StopAgent, Begin
    <3>2. CASE Ends(c) \/ Throws(c)
      BY <3>2 DEF Ends, Throws
    <3>3. CASE StopAll(c)
      BY <2>1, <3>3 DEF StopAll, Visit
    <3>4. CASE StopAllTurn(c)
      BY <2>1, <3>4 DEF StopAllTurn, Visit
    <3>. QED  BY <3>1, <3>2, <3>3, <3>4 DEF CallSteps
  <2>. QED  BY <2>2 DEF IInv, Typed
<1>3. \A d \in Caller \ {c} : call'[d] = call[d]
  <2>1. \E k : call' = [call EXCEPT ![c] = k]
    BY DEF CallSteps, PauseAgent, ResumeAgent, StopAgent, Begin, Ends, Throws, StopAll,
       StopAllTurn, Visit
  <2>. QED  BY <2>1 DEF IInv, Typed
<1>4. /\ \A t \in Task : call[c].of # t => status'[t] = status[t]
      /\ \A t \in Task : call[c].of = t => \/ status'[t] = status[t]
                                           \/ status'[t] = Meant(call[c].op)
  BY DEF CallSteps, PauseAgent, ResumeAgent, StopAgent, Begin, Ends, Throws, StopAll,
     StopAllTurn, Meant, IInv, Typed
<1>. QED  BY <1>1, <1>2, <1>3, <1>4

LEMMA SteeredNext == IInv /\ Told /\ Steered /\ [Next]_vars => Steered'
<1>. SUFFICES ASSUME IInv, Told, Steered, [Next]_vars,
                     NEW d \in Caller, NEW t \in Task \ muddled',
                     call'[d].of = t, call'[d].op \in {"paused", "running"}, Open(loop'[t])
              PROVE  status'[t] # "failed"
  BY DEF Steered
<1>1. CASE StartChunk
  <2>1. call'[d] = call[d] /\ t \in Task \ muddled  BY <1>1, NewAgents
  <2>2. loop[t].at # "none"  BY <2>1 DEF IInv, Called, NoCall
  <2>. QED  BY <1>1, <2>1, <2>2, NewAgents DEF Steered
<1>2. CASE ChunkEnds \/ FleetEnds \/ FleetRejects \/ UNCHANGED vars
  BY <1>2 DEF ChunkEnds, FleetEnds, FleetRejects, vars, Steered
<1>3. ASSUME NEW u \in Task, AgentSteps(u) PROVE status'[t] # "failed"
  BY <1>3, AgentTurn DEF Steered
<1>4. ASSUME NEW c \in Caller, CallSteps(c) PROVE status'[t] # "failed"
  <2>1. t \notin muddled /\ Open(loop[t])  BY <1>4, OwnCall DEF Open
  <2>2. CASE d # c
    <3>1. call[d].of = t /\ call[d].op \in {"paused", "running"}  BY <1>4, <2>2, OwnCall
    <3>2. call[c].of # t  BY <2>1, <2>2, <3>1 DEF Told
    <3>. QED  BY <1>4, <2>1, <3>1, <3>2, OwnCall DEF Steered
  <2>3. CASE d = c
    <3>1. CASE Ends(c) \/ Throws(c) \/ StopAll(c) \/ StopAllTurn(c)
      <4>1. call'[c] = NoCall \/ call'[c].op = "stopAll"
        BY <3>1 DEF Ends, Throws, StopAll, StopAllTurn, Visit, IInv, Typed
      <4>. QED  BY <2>3, <4>1 DEF NoCall
    <3>2. ASSUME NEW u \in Task, PauseAgent(c, u) \/ ResumeAgent(c, u) \/ StopAgent(c, u)
          PROVE  status'[t] # "failed"
      <4>1. PICK op : /\ call' = [call EXCEPT ![c] = [op |-> op, of |-> u, seen |-> {}]]
                      /\ op \in {"paused", "running"} => status[u] \in {"running", "paused"}
                      /\ status' = status
        BY <3>2 DEF PauseAgent, ResumeAgent, StopAgent, Begin
      <4>2. call'[c].of = u /\ call'[c].op = op  BY <4>1 DEF IInv, Typed
      <4>. QED  BY <2>3, <4>1, <4>2
    <3>. QED  BY <1>4, <3>1, <3>2 DEF CallSteps
  <2>. QED  BY <2>2, <2>3
<1>. QED  BY <1>1, <1>2, <1>3, <1>4 DEF Next, CallSteps

\* How many turns a stopped agent has before its status is "idle" for good.
TurnsLeft(l) == IF l.at = "preparing" THEN 2 ELSE IF Open(l) THEN 1 ELSE 0

LEMMA StoppedTurns ==
  ASSUME NEW l \in Loop, l.status = "stopped", Open(l), NEW m \in Turns(l)
  PROVE  TurnsLeft(m) < TurnsLeft(l) /\ (Open(m) => m.status = "stopped")
<1>1. Open(m) => m.status = "stopped"
  BY TurnKinds DEF Leaves
<1>2. CASE l.at = "preparing"
  <2>1. m.at \in {"stepping", "over"}
    BY <1>2 DEF Turns, Prepared, Event, Resumed, EngineEnds, Finalized, Loop
  <2>. QED  BY <1>1, <1>2, <2>1 DEF TurnsLeft, Open
<1>3. CASE l.at # "preparing"
  <2>1. m.at = "finishing"
    BY <1>3 DEF Turns, Prepared, Event, Resumed, EngineEnds, Finalized, Finished, Loop, Open
  <2>. QED  BY <1>1, <1>3, <2>1 DEF TurnsLeft, Open
<1>. QED  BY <1>2, <1>3

\* An agent stopAgent() or stopAll() marked failed takes at most two turns
\* more, and no call takes the stop back: it never waits again, nor does it
\* track another event.
StopsSoon ==
  \A t \in Task \ muddled' :
    status[t] = "failed" /\ Open(loop[t]) =>
      /\ Open(loop'[t]) => status'[t] = "failed" /\ loop'[t].status = "stopped"
      /\ loop'[t].at # loop[t].at => TurnsLeft(loop'[t]) < TurnsLeft(loop[t])

\* The safety half of StopIsHeeded, for any number of agents and operators.
THEOREM StopsForGood == Spec => [][StopsSoon]_vars
<1>1. IInv /\ Told /\ ControlAgrees /\ Steered /\ [Next]_vars => [StopsSoon]_vars
  <2>. SUFFICES ASSUME IInv, Told, ControlAgrees, Steered, [Next]_vars,
                       NEW t \in Task \ muddled', status[t] = "failed", Open(loop[t])
                PROVE  /\ Open(loop'[t]) => status'[t] = "failed" /\ loop'[t].status = "stopped"
                       /\ loop'[t].at # loop[t].at => TurnsLeft(loop'[t]) < TurnsLeft(loop[t])
    BY DEF StopsSoon
  <2>0. /\ t \notin muddled => loop[t].status = "stopped"
        /\ status'[t] = "failed" /\ Open(loop'[t]) => loop'[t].status = "stopped"
    <3>1. IInv' /\ (Told /\ ControlAgrees)' /\ Steered'
      BY Inductive, ControlsNext, SteeredNext
    <3>2. Halted'
      BY <3>1, HaltedHolds, PTL
    <3>. QED  BY <3>2, HaltedHolds DEF Halted
  <2>1. CASE StartChunk
    <3>1. loop'[t] = loop[t] /\ status'[t] = status[t]  BY <2>1, NewAgents DEF Open
    <3>. QED  BY <2>0, <3>1
  <2>2. CASE ChunkEnds \/ FleetEnds \/ FleetRejects \/ UNCHANGED vars
    <3>1. UNCHANGED <<loop, status>>
      BY <2>2 DEF ChunkEnds, FleetEnds, FleetRejects, vars
    <3>. QED  BY <2>0, <3>1
  <2>3. ASSUME NEW u \in Task, AgentSteps(u)
        PROVE  /\ Open(loop'[t]) => status'[t] = "failed" /\ loop'[t].status = "stopped"
               /\ loop'[t].at # loop[t].at => TurnsLeft(loop'[t]) < TurnsLeft(loop[t])
    <3>1. t \notin muddled  BY <2>3, AgentTurn
    <3>2. CASE u = t
      <4>1. loop'[t] \in Turns(loop[t]) /\ loop[t] \in Loop /\ loop[t].status = "stopped"
        BY <2>0, <2>3, <3>1, <3>2, AgentTurn
      <4>. QED  BY <2>0, <2>3, <3>2, <4>1, AgentTurn, StoppedTurns
    <3>3. CASE u # t
      BY <2>0, <2>3, <3>3, AgentTurn
    <3>. QED  BY <3>2, <3>3
  <2>4. ASSUME NEW c \in Caller, CallSteps(c)
        PROVE  /\ Open(loop'[t]) => status'[t] = "failed" /\ loop'[t].status = "stopped"
               /\ loop'[t].at # loop[t].at => TurnsLeft(loop'[t]) < TurnsLeft(loop[t])
    <3>1. t \notin muddled /\ loop'[t].at = loop[t].at  BY <2>4, OwnCall
    <3>2. status'[t] = "failed"
      <4>1. CASE call[c].of # t  BY <2>4, <4>1, OwnCall
      <4>2. CASE call[c].of = t
        <5>1. call[c].op \notin {"paused", "running"}  BY <3>1, <4>2 DEF Steered
        <5>2. call[c].op \in {"failed", "stopAll"}
          <6>1. call[c].op # "none"
            BY <4>2, NobodyIsNoTask DEF IInv, Called, NoCall, Nobody
          <6>. QED  BY <5>1, <6>1 DEF IInv, Typed
        <5>3. Meant(call[c].op) = "failed"  BY <5>2 DEF Meant
        <5>. QED  BY <2>4, <4>2, <5>3, OwnCall
      <4>. QED  BY <4>1, <4>2
    <3>. QED  BY <2>0, <3>1, <3>2
  <2>. QED  BY <2>1, <2>2, <2>3, <2>4 DEF Next, CallSteps
<1>2. Init => Steered
  BY NobodyIsNoTask DEF Init, Steered, NoCall
<1>. QED  BY <1>1, <1>2, ControlsInit, ControlsNext, SteeredNext, Invariant, PTL DEF Spec

\* executeTasks() can always go on, unless an agent it waits for is paused:
\* one that resumeAgent() and stopAll() find by its status, or on which a call
\* is in flight, or calls overlapped.
GoesOn ==
  \/ fleet \in {"ended", "rejected", "publishing"}
  \/ \A t \in chunk : loop[t].at = "over"
  \/ \E t \in chunk : Turns(loop[t]) # {}
  \/ \E t \in chunk : /\ loop[t].at = "waiting"
                      /\ \/ status[t] = "paused" \/ t \in muddled
                         \/ \E c \in Caller : call[c].of = t

LEMMA TurnsWaiting ==
  ASSUME NEW l \in Loop, l.at \notin {"none", "over"}, Turns(l) = {}
  PROVE  l.at = "waiting" /\ l.status = "paused"
<1>1. l.at = "preparing" => Prepared(l) # {}  BY DEF Prepared
<1>2. l.at \in {"stepping", "drained"} => EngineEnds(l) # {}  BY DEF EngineEnds
<1>3. l.at = "finishing" => Finalized(l) # {}  BY DEF Finalized
<1>4. l.at = "waiting" /\ l.status # "paused" => Resumed(l) # {}  BY DEF Resumed, Tracked
<1>. QED  BY <1>1, <1>2, <1>3, <1>4 DEF Turns, Loop, Stations

\* The safety half of FleetSettles, for every graph and any number of
\* operators, whether their calls overlap or fail.
THEOREM NeverStuck == Spec => []GoesOn
<1>1. ASSUME IInv, ControlAgrees, fleet \in {"publishing", "running", "ended", "rejected"}
      PROVE  GoesOn
  <2>. SUFFICES ASSUME NEW t \in chunk, loop[t].at # "over", Turns(loop[t]) = {}
                PROVE  /\ loop[t].at = "waiting"
                       /\ \/ status[t] = "paused" \/ t \in muddled
                          \/ \E c \in Caller : call[c].of = t
    BY <1>1 DEF GoesOn
  <2>1. t \in Task /\ t \in completed /\ t \notin wave  BY <1>1 DEF IInv, Typed
  <2>2. loop[t] \in Loop /\ loop[t].at # "none"  BY <1>1, <2>1 DEF IInv, Typed, Started
  <2>3. loop[t].at = "waiting" /\ loop[t].status = "paused"  BY <2>2, TurnsWaiting
  <2>. QED  BY <1>1, <2>1, <2>3 DEF ControlAgrees, Open, Shown
<1>2. TypeOK => fleet \in {"publishing", "running", "ended", "rejected"}
  BY DEF TypeOK
<1>. QED  BY <1>1, <1>2, TypeCorrect, ControlsAgree, Invariant, PTL

=============================================================================
