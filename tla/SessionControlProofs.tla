------------------------ MODULE SessionControlProofs ------------------------
(***************************************************************************)
(* For any number of tasks, requests, phases and restarts: SessionControl  *)
(* keeps its types, a held session can be let go, and a session is closed  *)
(* only when the rows of its tasks have said that they are over.           *)
(***************************************************************************)
EXTENDS SessionControl, TLAPS

Points == {"idle", "admitted", "queued", "creating", "working", "lost", "returned",
           "closing", "done"}
Stops == {"idle", "checked", "sent", "signalled", "stored", "loading", "over"}

Task == [pc : Points, object : Objects \cup {None}, at : Stations \ {"over"},
         left : 0..MaxPhases, entry : Entries, attempt : 1..MaxAttempts]
Request == [pc : Stops, kind : Kinds, object : Objects \cup {None}]

\* A task that works has an object, and so has a handler that told a loop.
Equipped == /\ \A t \in Tasks : tasks[t].pc = "working" => tasks[t].object \in Objects
            /\ \A r \in Requests : requests[r].pc = "stored" => requests[r].kind = "cancel"

\* Outside the map no loop is paused, and none at all while a cancel cleans up.
NoneHidden ==
  crossed \/ /\ \A o \in Objects : status[o] = "paused" => o = active
             /\ Cleaning # {} => \A o \in Objects : status[o] # "paused"

\* The tasks a check may count as over: those that are, and those whose row
\* said so too early.
Counted == Reported \cup early

\* From the check that closes the session to its end, every listed task counts;
\* no row says more.
NoneMissed ==
  /\ \A t \in Tasks : RowOver(t) => t \in Counted
  /\ late \/ (row \in {"completed", "failed"} \/ (\E t \in Tasks : tasks[t].pc = "closing")
                => Listed \subseteq Counted)

-----------------------------------------------------------------------------
(* What a turn of executeTask() may leave                                  *)

\* It leaves the status of the loop alone or sets it to "idle".
Leaves(l, m) == m \in Loop /\ m.at # "none" /\ m.status \in {l.status, "idle"}

LEMMA FinishedLeaves ==
  ASSUME NEW l \in Loop, NEW ok \in BOOLEAN PROVE Leaves(l, Finished(l, ok))
BY DEF Leaves, Finished, Loop, Statuses, Stations

LEMMA AtLeaves ==
  ASSUME NEW l \in Loop, NEW at \in Stations \ {"none"}, NEW ok \in BOOLEAN
  PROVE  /\ Leaves(l, [l EXCEPT !.at = at])
         /\ Leaves(l, [status |-> l.status, at |-> at, ok |-> ok])
BY DEF Leaves, Loop, Statuses, Stations

LEMMA TrackedLeaves ==
  ASSUME NEW l \in Loop, NEW m \in Tracked(l) PROVE Leaves(l, m)
<1>1. "stepping" \in Stations \ {"none"} /\ "drained" \in Stations \ {"none"}  BY DEF Stations
<1>2. CASE m = [l EXCEPT !.at = "stepping"]  BY <1>1, <1>2, AtLeaves
<1>3. CASE m = Finished(l, FALSE)  BY <1>3, FinishedLeaves
<1>4. ASSUME NEW ok \in BOOLEAN, m = [status |-> l.status, at |-> "drained", ok |-> ok]
      PROVE  Leaves(l, m)
  BY <1>1, <1>4, AtLeaves
<1>. QED  BY <1>2, <1>3, <1>4 DEF Tracked

LEMMA TurnLeaves ==
  ASSUME NEW l \in Loop, NEW m \in Turns(l) PROVE Leaves(l, m)
<1>1. {"stepping", "waiting", "over"} \subseteq Stations \ {"none"}  BY DEF Stations
<1>2. l.ok \in BOOLEAN  BY DEF Loop
<1>3. CASE m \in Prepared(l)
  <2>1. m \in {[l EXCEPT !.at = "stepping"], [l EXCEPT !.at = "over"]}  BY <1>3 DEF Prepared
  <2>. QED  BY <2>1, <1>1, AtLeaves
<1>4. CASE m \in Event(l)
  <2>1. m = [l EXCEPT !.at = "waiting"] \/ m = Finished(l, FALSE) \/ m \in Tracked(l)
    BY <1>4 DEF Event
  <2>. QED  BY <2>1, <1>1, AtLeaves, FinishedLeaves, TrackedLeaves
<1>5. CASE m \in Resumed(l)
  <2>1. m = Finished(l, FALSE) \/ m \in Tracked(l)  BY <1>5 DEF Resumed
  <2>. QED  BY <2>1, FinishedLeaves, TrackedLeaves
<1>6. CASE m \in EngineEnds(l)
  <2>1. m = Finished(l, FALSE) \/ m = Finished(l, l.ok)  BY <1>6 DEF EngineEnds
  <2>. QED  BY <2>1, <1>2, FinishedLeaves
<1>7. CASE m \in Finalized(l)
  <2>1. m = [l EXCEPT !.at = "over"] \/ m = [status |-> l.status, at |-> "over", ok |-> FALSE]
    BY <1>7 DEF Finalized
  <2>. QED  BY <2>1, <1>1, AtLeaves
<1>. QED  BY <1>3, <1>4, <1>5, <1>6, <1>7 DEF Turns

-----------------------------------------------------------------------------
(* Types                                                                   *)

Typed ==
  /\ row \in RowStatuses /\ active \in Objects \cup {None}
  /\ status \in [Objects -> Statuses] /\ human \in BOOLEAN
  /\ tasks \in [Tasks -> Task] /\ requests \in [Requests -> Request]
  /\ restarts \in 0..MaxRestarts /\ crossed \in BOOLEAN /\ late \in BOOLEAN
  /\ early \subseteq Tasks

Shape == Typed /\ Equipped

LEMMA OverTyped ==
  ASSUME requests \in [Requests -> Request], NEW r \in Requests, Over(r)
  PROVE  requests' \in [Requests -> Request] /\ requests'[r].pc = "over"
BY DEF Over, NewRequest, Request, Stops, Kinds

LEMMA SettleTyped ==
  ASSUME requests \in [Requests -> Request], NEW r \in Requests, NEW pc \in Stops, Settle(r, pc)
  PROVE  requests' \in [Requests -> Request] /\ requests'[r].pc = pc
                /\ requests'[r].kind = requests[r].kind
BY DEF Settle, Request

LEMMA MovesTyped ==
  ASSUME tasks \in [Tasks -> Task], NEW t \in Tasks, NEW pc \in Points, Moves(t, pc)
  PROVE  tasks' \in [Tasks -> Task] /\ tasks'[t] = [tasks[t] EXCEPT !.pc = pc]
BY DEF Moves, Task

LEMMA IntoRow ==
  ASSUME NEW k \in Kinds PROVE Into(k) \in {"paused", "cancelled", "active"}
BY DEF Into

LEMMA ToldStatus ==
  ASSUME NEW k \in Kinds PROVE Told(k) \in Statuses
BY DEF Told, Statuses

\* The session object a request refers to is none, or that of some actor.
LEMMA RequestStepShape ==
  ASSUME Shape, NEW r \in Requests, RequestStep(r) PROVE Shape'
<1>. USE DEF Shape, Typed, orchestrator, history
<1>1. requests[r] \in Request /\ requests[r].kind \in Kinds  BY DEF Request
<1>2. Into(requests[r].kind) \in RowStatuses  BY <1>1, IntoRow DEF RowStatuses
<1>3. Objects \subseteq Objects \cup {None} /\ r \in Objects  BY DEF Objects
<1>4. CASE Write(r)
  <2>1. requests' \in [Requests -> Request] /\ requests'[r].pc \in {"over", "sent"}
    BY <1>4, OverTyped, SettleTyped DEF Write, Stops
  <2>2. \A q \in Requests \ {r} : requests'[q] = requests[q]  BY <1>4 DEF Write, Over, Settle
  <2>. QED  BY <1>2, <1>4, <2>1, <2>2 DEF Write, Equipped
<1>5. CASE Dropped(r)
  <2>2. \A q \in Requests \ {r} : requests'[q] = requests[q]  BY <1>5 DEF Dropped, Over
  <2>. QED  BY <1>5, <2>2, OverTyped DEF Dropped, Equipped
<1>6. CASE Signal(r)
  <2>1. active \in Objects  BY <1>6 DEF Signal
  <2>2. status' \in [Objects -> Statuses]  BY <1>1, <1>6, ToldStatus DEF Signal
  <2>3. requests'[r] = [pc |-> "signalled", kind |-> requests[r].kind, object |-> active]
    BY <1>6 DEF Signal
  <2>4. requests' \in [Requests -> Request]  BY <1>1, <1>6, <2>1 DEF Signal, Request, Stops
  <2>5. \A q \in Requests \ {r} : requests'[q] = requests[q]  BY <1>6 DEF Signal
  <2>6. Equipped'  BY <1>6, <2>3, <2>5 DEF Signal, Equipped
  <2>. QED  BY <1>6, <2>2, <2>4, <2>6 DEF Signal
<1>7. CASE Stored(r)
  <2>1. requests' \in [Requests -> Request]
           /\ (requests'[r].pc = "stored" => requests'[r].kind = "cancel")
    BY <1>7, OverTyped, SettleTyped DEF Stored, Stops
  <2>2. \A q \in Requests \ {r} : requests'[q] = requests[q]  BY <1>7 DEF Stored, Over, Settle
  <2>. QED  BY <1>2, <1>7, <2>1, <2>2 DEF Stored, Equipped
<1>8. CASE Cleaned(r)
  <2>1. requests' \in [Requests -> Request] /\ requests'[r].pc = "over"
    BY <1>8, SettleTyped DEF Cleaned, Stops
  <2>2. \A q \in Requests \ {r} : requests'[q] = requests[q]  BY <1>8 DEF Cleaned, Settle
  <2>. QED  BY <1>8, <2>1, <2>2 DEF Cleaned, Equipped
<1>9. CASE TakenOver(r)
  <2>2. \A q \in Requests \ {r} : requests'[q] = requests[q]  BY <1>9 DEF TakenOver, Over
  <2>. QED  BY <1>9, <2>2, OverTyped DEF TakenOver, Equipped
<1>10. CASE Release(r)
  <2>1. CASE human
    <3>1. requests' = [requests EXCEPT
                         ![r] = [pc |-> "signalled", kind |-> "release", object |-> active]]
      BY <1>10, <2>1 DEF Release
    <3>2. requests' \in [Requests -> Request]  BY <3>1 DEF Request, Stops, Kinds
    <3>. QED  BY <1>10, <2>1, <3>1, <3>2 DEF Release, Equipped
  <2>2. CASE ~ human
    <3>1. Over(r) /\ status' = [status EXCEPT ![active] = "running"]  BY <1>10, <2>2 DEF Release
    <3>2. \A q \in Requests \ {r} : requests'[q] = requests[q]  BY <3>1 DEF Over
    <3>3. status' \in [Objects -> Statuses]  BY <3>1 DEF Statuses
    <3>. QED  BY <1>10, <3>1, <3>2, <3>3, OverTyped DEF Release, Equipped
  <2>. QED  BY <2>1, <2>2
<1>11. CASE Released(r)
  <2>1. \A q \in Requests \ {r} : requests'[q] = requests[q]  BY <1>11 DEF Released, Over
  <2>2. status' \in [Objects -> Statuses]  BY <1>11 DEF Released, Statuses
  <2>. QED  BY <1>11, <2>1, <2>2, OverTyped DEF Released, Equipped
<1>12. CASE Poll(r)
  <2>1. requests' \in [Requests -> Request] /\ requests'[r].pc \in {"over", "loading"}
    BY <1>12, OverTyped, SettleTyped DEF Poll, Stops
  <2>2. \A q \in Requests \ {r} : requests'[q] = requests[q]  BY <1>12 DEF Poll, Over, Settle
  <2>. QED  BY <1>12, <2>1, <2>2 DEF Poll, Equipped
<1>13. CASE Loaded(r)
  <2>1. \A q \in Requests \ {r} : requests'[q] = requests[q]  BY <1>13 DEF Loaded, Over
  <2>2. status' \in [Objects -> Statuses]  BY <1>13 DEF Loaded, Installs, Statuses
  <2>3. HidesHold \in BOOLEAN  BY DEF HidesHold
  <2>. QED  BY <1>3, <1>13, <2>1, <2>2, <2>3, OverTyped DEF Loaded, Installs, Equipped
<1>14. CASE Throws(r)
  <2>2. \A q \in Requests \ {r} : requests'[q] = requests[q]  BY <1>14 DEF Throws, Over
  <2>. QED  BY <1>14, <2>2, OverTyped DEF Throws, Equipped
<1>. QED
  BY <1>4, <1>5, <1>6, <1>7, <1>8, <1>9, <1>10, <1>11, <1>12, <1>13, <1>14 DEF RequestStep

LEMMA UserStepShape ==
  ASSUME Shape, NEW r \in Requests, NEW k \in Kinds, Accept(r, k) \/ Ask(r, k)
  PROVE  Shape'
<1>. USE DEF Shape, Typed, orchestrator, history
<1>1. Into(k) \in RowStatuses  BY IntoRow DEF RowStatuses
<1>2. requests' \in [Requests -> Request] /\ requests'[r].pc # "stored"
  BY DEF Accept, Ask, Request, Stops
<1>3. \A q \in Requests \ {r} : requests'[q] = requests[q]  BY DEF Accept, Ask
<1>4. row' \in RowStatuses  BY <1>1 DEF Accept, Ask
<1>. QED  BY <1>2, <1>3, <1>4 DEF Accept, Ask, Equipped

\* Only its own record changes when a task moves.
LEMMA TaskMoved ==
  ASSUME Shape, NEW t \in Tasks, NEW new \in Task, tasks' = [tasks EXCEPT ![t] = new],
         new.pc = "working" => new.object \in Objects
  PROVE  /\ tasks' \in [Tasks -> Task]
         /\ \A u \in Tasks : tasks'[u].pc = "working" => tasks'[u].object \in Objects
BY DEF Shape, Typed, Equipped

LEMMA ApartTyped ==
  ASSUME NEW pc \in Points, NEW entry \in Entries, NEW attempt \in 1..MaxAttempts
  PROVE  /\ Apart(pc, entry, attempt) \in Task
         /\ Apart(pc, entry, attempt).pc = pc /\ Apart(pc, entry, attempt).entry = entry
<1>1. "none" \in Stations \ {"over"}  BY DEF Stations
<1>2. MaxPhases \in 0..MaxPhases  BY BoundsNat
<1>. QED  BY <1>1, <1>2 DEF Apart, Task

LEMMA SaysTyped ==
  ASSUME Shape, NEW t \in Tasks, NEW entry \in Entries
  PROVE  Says(t, entry) \in Entries /\ (Says(t, entry) = "none" <=> tasks[t].entry = "none" \/ entry = "none")
BY DEF Says, Entries

LEMMA FailsShape ==
  ASSUME Shape, NEW t \in Tasks, Fails(t) PROVE Shape'
<1>. USE DEF Shape, Typed, orchestrator, history, Equipped
<1>. DEFINE again == tasks[t].attempt < MaxAttempts
            pc == IF again THEN "queued" ELSE "done"
            n == IF again THEN tasks[t].attempt + 1 ELSE tasks[t].attempt
            new == Apart(pc, Says(t, "ended"), n)
<1>1. tasks[t].attempt \in 1..MaxAttempts /\ MaxAttempts \in Nat  BY BoundsNat DEF Task
<1>2. n \in 1..MaxAttempts  BY <1>1
<1>3. pc \in Points /\ pc # "working" /\ Says(t, "ended") \in Entries  BY SaysTyped DEF Points, Entries
<1>4. tasks' = [tasks EXCEPT ![t] = new]  BY DEF Fails
<1>5. early' \subseteq Tasks  BY DEF Fails
<1>. HIDE DEF pc, n
<1>6. new \in Task /\ new.pc # "working"  BY <1>2, <1>3, ApartTyped
<1>. HIDE DEF new
<1>. QED  BY <1>4, <1>5, <1>6, TaskMoved DEF Fails

LEMMA CancelShape ==
  ASSUME Shape, NEW t \in Tasks, CancelTask(t) PROVE Shape'
<1>. USE DEF Shape, Typed, orchestrator, history, Equipped
<1>. DEFINE new == [tasks[t] EXCEPT !.entry = "cancelled"]
<1>1. tasks' = [tasks EXCEPT ![t] = new]  BY DEF CancelTask
<1>2. new \in Task /\ (new.pc = "working" => new.object \in Objects)
  BY DEF Task, Entries
<1>. HIDE DEF new
<1>. QED  BY <1>1, <1>2, TaskMoved DEF CancelTask

LEMMA TaskStepShape ==
  ASSUME Shape, NEW t \in Tasks, TaskStep(t) PROVE Shape'
<1>. USE DEF Shape, Typed, orchestrator, history, Equipped
<1>1. tasks[t] \in Task /\ tasks[t].object \in Objects \cup {None} /\ t \in Objects
  BY DEF Task, Objects
<1>2. MaxPhases \in Nat  BY BoundsNat
<1>3. CASE Submit(t)
  <2>1. PICK entry \in {"none", "open"} :
          tasks' = [tasks EXCEPT ![t] = [tasks[t] EXCEPT !.pc = "queued", !.entry = entry]]
    BY <1>3 DEF Submit
  <2>2. [tasks[t] EXCEPT !.pc = "queued", !.entry = entry] \in Task
    BY <1>1 DEF Task, Points, Entries
  <2>3. late' \in BOOLEAN  BY <1>3 DEF Submit
  <2>4. [tasks[t] EXCEPT !.pc = "queued", !.entry = entry].pc = "queued"  BY <1>1 DEF Task
  <2>. QED  BY <1>3, <2>1, <2>2, <2>3, <2>4, TaskMoved DEF Submit
<1>4. CASE Begin(t)
  <2>. DEFINE new == [tasks[t] EXCEPT !.pc = IF active = None THEN "creating" ELSE "working",
                                      !.object = active, !.entry = Says(t, "open")]
  <2>0. Says(t, "open") \in Entries  BY SaysTyped DEF Entries
  <2>1. tasks' = [tasks EXCEPT ![t] = new]  BY <1>4 DEF Begin
  <2>2. new \in Task  BY <1>1, <2>0 DEF Task, Points
  <2>3. new.pc = "working" => new.object \in Objects  BY <1>1 DEF Task
  <2>. HIDE DEF new
  <2>. QED  BY <1>4, <2>1, <2>2, <2>3, TaskMoved DEF Begin
<1>5. CASE Created(t)
  <2>. DEFINE new == [tasks[t] EXCEPT !.pc = "working", !.object = t]
  <2>1. tasks' = [tasks EXCEPT ![t] = new]  BY <1>5 DEF Created
  <2>2. new \in Task  BY <1>1 DEF Task, Points
  <2>3. new.pc = "working" => new.object \in Objects  BY <1>1 DEF Task
  <2>4. status' \in [Objects -> Statuses]  BY <1>5 DEF Created, Installs, Statuses
  <2>5. crossed' \in BOOLEAN  BY <1>5 DEF Created, Installs, HidesHold
  <2>. HIDE DEF new
  <2>. QED  BY <1>1, <1>5, <2>1, <2>2, <2>3, <2>4, <2>5, TaskMoved DEF Created, Installs
<1>6. CASE Phase(t)
  <2>. DEFINE new == [tasks[t] EXCEPT !.at = "preparing", !.left = tasks[t].left - 1]
  <2>0. executeTask(NewLoop).status = "running" /\ executeTask(NewLoop).at = "preparing"
    BY DEF executeTask
  <2>1. tasks' = [tasks EXCEPT ![t] = new]  BY <1>6, <2>0 DEF Phase
  <2>2. tasks[t].left \in 0..MaxPhases /\ tasks[t].left > 0  BY <1>1, <1>6 DEF Phase, Task
  <2>3. tasks[t].left - 1 \in 0..MaxPhases  BY <1>2, <2>2
  <2>4. new \in Task  BY <1>1, <2>3 DEF Task, Stations
  <2>5. new.pc = "working" => new.object \in Objects  BY <1>1, <1>6 DEF Task, Phase
  <2>6. status' \in [Objects -> Statuses]  BY <1>6, <2>0 DEF Phase, Statuses
  <2>. HIDE DEF new
  <2>. QED  BY <1>6, <2>1, <2>4, <2>5, <2>6, TaskMoved DEF Phase
<1>7. CASE Turn(t)
  <2>1. PICK l \in Turns(LoopOf(t)) :
          /\ status' = [status EXCEPT ![tasks[t].object] = l.status]
          /\ tasks' = [tasks EXCEPT ![t] = [@ EXCEPT !.at = IF l.at = "over" THEN "none" ELSE l.at]]
    BY <1>7 DEF Turn
  <2>2. tasks[t].object \in Objects  BY <1>7 DEF Turn
  <2>3. LoopOf(t) \in Loop  BY <1>1, <2>2 DEF LoopOf, Loop, Task
  <2>4. l \in Loop  BY <2>3, TurnLeaves DEF Leaves
  <2>. DEFINE at == IF l.at = "over" THEN "none" ELSE l.at
              new == [tasks[t] EXCEPT !.at = at]
  <2>5. at \in Stations \ {"over"}  BY <2>4 DEF Loop, Stations
  <2>6. new \in Task /\ new.object = tasks[t].object  BY <1>1, <2>5 DEF Task
  <2>7. tasks' = [tasks EXCEPT ![t] = new]  BY <2>1
  <2>8. status' \in [Objects -> Statuses]  BY <2>1, <2>4 DEF Loop
  <2>. HIDE DEF new
  <2>. QED  BY <1>7, <2>2, <2>6, <2>7, <2>8, TaskMoved DEF Turn
<1>8. CASE Returns(t)
  <2>. DEFINE new == Apart("returned", Says(t, "ended"), tasks[t].attempt)
  <2>1. tasks' = [tasks EXCEPT ![t] = new]  BY <1>8 DEF Returns
  <2>0. "returned" \in Points /\ Says(t, "ended") \in Entries /\ tasks[t].attempt \in 1..MaxAttempts
    BY <1>1, SaysTyped DEF Task, Points, Entries
  <2>2. new \in Task /\ new.pc # "working"  BY <2>0, ApartTyped
  <2>. HIDE DEF new
  <2>. QED  BY <1>8, <2>1, <2>2, TaskMoved DEF Returns
<1>9. ASSUME NEW pc \in Points \ {"working"}, Moves(t, pc),
             UNCHANGED <<orchestrator, requests, restarts, history>>, row' \in RowStatuses
      PROVE  Shape'
  <2>1. tasks' = [tasks EXCEPT ![t] = [tasks[t] EXCEPT !.pc = pc]]  BY <1>9 DEF Moves
  <2>2. [tasks[t] EXCEPT !.pc = pc] \in Task /\ [tasks[t] EXCEPT !.pc = pc].pc # "working"
    BY <1>1, <1>9 DEF Task
  <2>. QED  BY <1>9, <2>1, <2>2, TaskMoved
<1>10. CASE Fallback(t)
  <2>. DEFINE new == [tasks[t] EXCEPT !.pc = "returned", !.entry = Says(t, "ended")]
  <2>1. tasks' = [tasks EXCEPT ![t] = new]  BY <1>10 DEF Fallback
  <2>2. Says(t, "ended") \in Entries  BY SaysTyped DEF Entries
  <2>3. new \in Task /\ new.pc # "working"  BY <1>1, <2>2 DEF Task, Points
  <2>. HIDE DEF new
  <2>. QED  BY <1>10, <2>1, <2>3, TaskMoved DEF Fallback
<1>11. CASE Checks(t)  BY <1>9, <1>11 DEF Checks, Points
<1>12. CASE Closes(t)  BY <1>9, <1>12 DEF Closes, Points, RowStatuses
<1>. QED  BY <1>3, <1>4, <1>5, <1>6, <1>7, <1>8, <1>10, <1>11, <1>12 DEF TaskStep

LEMMA MovesShape ==
  ASSUME Shape, NEW t \in Tasks, Admitted(t) \/ Dequeued(t) PROVE Shape'
<1>1. PICK pc \in {"admitted", "done"} : tasks' = [tasks EXCEPT ![t] = [tasks[t] EXCEPT !.pc = pc]]
  BY DEF Admitted, Dequeued, Moves
<1>2. [tasks[t] EXCEPT !.pc = pc] \in Task /\ [tasks[t] EXCEPT !.pc = pc].pc # "working"
  BY DEF Shape, Typed, Task, Points
<1>. QED
  BY <1>1, <1>2, TaskMoved DEF Shape, Typed, Equipped, Admitted, Dequeued, orchestrator, history

LEMMA RestartShape ==
  ASSUME Shape, Restart PROVE Shape'
<1>4. restarts' \in 0..MaxRestarts  BY BoundsNat DEF Shape, Typed, Restart
<1>. USE DEF Shape, Typed, Restart, orchestrator, history
<1>1. tasks' \in [Tasks -> Task]
  <2>1. "lost" \in Points /\ \A t \in Tasks : /\ tasks[t].entry \in Entries
                                             /\ tasks[t].attempt \in 1..MaxAttempts
    BY DEF Task, Points
  <2>2. \A t \in Tasks : Apart("lost", tasks[t].entry, tasks[t].attempt) \in Task
    BY <2>1, ApartTyped
  <2>. QED  BY <2>2
<1>2. requests' \in [Requests -> Request]  BY DEF Request, NewRequest, Kinds, Stops
<1>3. Equipped'
  <2>1. \A t \in Tasks : tasks'[t].pc # "working"  BY DEF Apart
  <2>2. \A r \in Requests : requests'[r].pc # "stored"  BY DEF NewRequest
  <2>. QED  BY <2>1, <2>2 DEF Equipped
<1>5. status' \in [Objects -> Statuses]  BY DEF Statuses
<1>. QED  BY <1>1, <1>2, <1>3, <1>4, <1>5

LEMMA InitShape == ASSUME Init PROVE Shape
<1>0. "none" \in Entries /\ "idle" \in Points /\ 1 \in 1..MaxAttempts
  BY BoundsNat DEF Entries, Points
<1>1. Apart("idle", "none", 1) \in Task /\ Apart("idle", "none", 1).pc = "idle"
  BY <1>0, ApartTyped
<1>2. NewRequest \in Request /\ NewRequest.pc = "idle"
  BY DEF NewRequest, Request, Stops, Kinds
<1>3. restarts \in 0..MaxRestarts  BY BoundsNat DEF Init
<1>4. Equipped  BY <1>1, <1>2 DEF Init, Equipped
<1>. QED  BY <1>1, <1>2, <1>3, <1>4 DEF Init, Shape, Typed, RowStatuses, Statuses

LEMMA NextShape ==
  ASSUME Shape, [Next]_vars PROVE Shape'
<1>1. CASE Next
  BY <1>1, UserStepShape, RequestStepShape, TaskStepShape, MovesShape, FailsShape, CancelShape,
     RestartShape
     DEF Next, UserStep
<1>2. CASE UNCHANGED vars
  BY <1>2 DEF Shape, Typed, Equipped, vars, orchestrator, history
<1>. QED  BY <1>1, <1>2

\* Whatever the numbers of tasks, requests, phases and restarts, each variable
\* keeps its shape: loops know only AgentLoop's statuses, rows only theirs.
THEOREM TypeCorrect == Spec => []TypeOK
<1>1. Shape => TypeOK  BY DEF Shape, Typed, TypeOK, Task, Request, Points, Stops
<1>. QED  BY <1>1, InitShape, NextShape, PTL DEF Spec

-----------------------------------------------------------------------------
(* No hold is hidden                                                       *)

\* Loops that are not told to pause stay as they are, or stop being paused.
LEMMA NoNewPause ==
  ASSUME Shape, NoneHidden, crossed' = crossed, active' = active, Cleaning' \subseteq Cleaning,
         \A o \in Objects : status'[o] = "paused" => status[o] = "paused"
  PROVE  NoneHidden'
BY DEF NoneHidden

\* A request that is over, or has only been received, cleans nothing up.
LEMMA CleaningShrinks ==
  ASSUME Shape, NEW r \in Requests, \A q \in Requests \ {r} : requests'[q] = requests[q],
         requests'[r].pc \in {"checked", "sent", "loading", "over"} \/ requests'[r].kind # "cancel"
           \/ r \in Cleaning
  PROVE  Cleaning' \subseteq Cleaning
BY DEF Cleaning

LEMMA InstallsHidden ==
  ASSUME Shape, NoneHidden, NEW o \in Objects, Installs(o), Cleaning' \subseteq Cleaning
  PROVE  NoneHidden'
<1>1. CASE crossed  BY <1>1 DEF Installs, NoneHidden
<1>2. CASE ~ crossed /\ ~ HidesHold
  <2>1. \A p \in Objects : status[p] # "paused"  BY <1>2, NumberedActors DEF NoneHidden, HidesHold
  <2>2. \A p \in Objects : status'[p] # "paused"  BY <2>1 DEF Installs, Shape, Typed
  <2>. QED  BY <2>2 DEF NoneHidden
<1>3. CASE HidesHold  BY <1>3 DEF Installs, NoneHidden
<1>. QED  BY <1>1, <1>2, <1>3

LEMMA RequestStepHidden ==
  ASSUME Shape, NoneHidden, NEW r \in Requests, RequestStep(r) PROVE NoneHidden'
<1>. USE DEF orchestrator, history
<1>1. requests[r] \in Request /\ status \in [Objects -> Statuses]
         /\ requests \in [Requests -> Request]  BY DEF Shape, Typed
<1>2. ASSUME Over(r) PROVE Cleaning' \subseteq Cleaning
  <2>1. requests'[r].pc = "over" /\ \A q \in Requests \ {r} : requests'[q] = requests[q]
    BY <1>1, <1>2, OverTyped DEF Over
  <2>. QED  BY <2>1, CleaningShrinks
<1>3. ASSUME NEW pc \in {"checked", "sent", "loading", "over"}, Settle(r, pc)
      PROVE  Cleaning' \subseteq Cleaning
  <2>1. requests'[r].pc = pc /\ \A q \in Requests \ {r} : requests'[q] = requests[q]
    BY <1>1, <1>3, SettleTyped DEF Settle, Stops
  <2>. QED  BY <2>1, CleaningShrinks
<1>4. CASE Write(r)  BY <1>2, <1>3, <1>4, NoNewPause DEF Write
<1>5. CASE Dropped(r)  BY <1>2, <1>5, NoNewPause DEF Dropped
<1>6. CASE Signal(r)
  <2>. DEFINE k == requests[r].kind
  <2>1. active \in Objects /\ status' = [status EXCEPT ![active] = Told(k)] /\ active' = active
    BY <1>6 DEF Signal, Shape, Typed
  <2>2. \A o \in Objects \ {active} : status'[o] = status[o]  BY <1>1, <2>1
  <2>3. status'[active] = Told(k)  BY <1>1, <2>1
  <2>4. \A q \in Requests \ {r} : requests'[q] = requests[q]  BY <1>1, <1>6 DEF Signal
  <2>5. requests'[r].kind = k  BY <1>1, <1>6 DEF Signal
  <2>6. CASE crossed'  BY <2>6 DEF NoneHidden
  <2>7. CASE ~ crossed' /\ k = "cancel"
    <3>0. ~ crossed  BY <1>6, <2>7, Zenon DEF Signal
    <3>1. status'[active] # "paused"  BY <2>3, <2>7 DEF Told
    <3>2. \A o \in Objects : status'[o] # "paused"  BY <2>2, <3>0, <3>1 DEF NoneHidden
    <3>. QED  BY <3>2 DEF NoneHidden
  <2>8. CASE ~ crossed' /\ k = "resume"
    <3>0. ~ crossed  BY <1>6, <2>8, Zenon DEF Signal
    <3>1. status'[active] # "paused"  BY <2>3, <2>8 DEF Told
    <3>2. Cleaning' \subseteq Cleaning  BY <2>4, <2>5, <2>8, CleaningShrinks
    <3>. QED  BY <2>1, <2>2, <3>0, <3>1, <3>2 DEF NoneHidden
  <2>9. CASE ~ crossed' /\ k \in {"pause", "takeover"}
    <3>1. ~ crossed /\ Cleaning = {}  BY <1>6, <2>9 DEF Signal, Hides
    <3>2. Cleaning' \subseteq Cleaning  BY <2>4, <2>5, <2>9, CleaningShrinks
    <3>. QED  BY <2>1, <2>2, <3>1, <3>2 DEF NoneHidden
  <2>. QED  BY <1>6, <2>6, <2>7, <2>8, <2>9 DEF Signal
<1>7. CASE Stored(r)
  <2>1. CASE requests[r].kind = "cancel"
    <3>1. \A q \in Requests \ {r} : requests'[q] = requests[q]  BY <1>1, <1>7, <2>1 DEF Stored, Settle
    <3>2. r \in Cleaning  BY <1>7, <2>1 DEF Stored, Cleaning
    <3>3. Cleaning' \subseteq Cleaning  BY <3>1, <3>2, CleaningShrinks
    <3>. QED  BY <1>7, <3>3, NoNewPause DEF Stored
  <2>2. CASE requests[r].kind # "cancel"  BY <1>2, <1>7, <2>2, NoNewPause DEF Stored
  <2>. QED  BY <2>1, <2>2
<1>8. CASE Cleaned(r)
  <2>1. r \in Cleaning  BY <1>8 DEF Cleaned, Cleaning, Shape, Equipped
  <2>2. crossed \/ \A o \in Objects : status[o] # "paused"  BY <2>1 DEF NoneHidden
  <2>. QED  BY <1>8, <2>2 DEF Cleaned, NoneHidden
<1>9. CASE TakenOver(r)  BY <1>2, <1>9, NoNewPause DEF TakenOver
<1>10. ASSUME NEW o, status' = [status EXCEPT ![o] = "running"]
       PROVE  \A p \in Objects : status'[p] = "paused" => status[p] = "paused"
  BY <1>1, <1>10
<1>11. CASE Release(r)
  <2>1. CASE human
    <3>1. requests' = [requests EXCEPT
                         ![r] = [pc |-> "signalled", kind |-> "release", object |-> active]]
      BY <1>11, <2>1 DEF Release
    <3>2. requests'[r].kind # "cancel" /\ \A q \in Requests \ {r} : requests'[q] = requests[q]
      BY <1>1, <3>1
    <3>3. Cleaning' \subseteq Cleaning  BY <3>2, CleaningShrinks
    <3>. QED  BY <1>11, <2>1, <3>3, NoNewPause DEF Release
  <2>2. CASE ~ human  BY <1>2, <1>10, <1>11, <2>2, NoNewPause DEF Release
  <2>. QED  BY <2>1, <2>2
<1>12. CASE Released(r)  BY <1>2, <1>10, <1>12, NoNewPause DEF Released
<1>13. CASE Poll(r)  BY <1>2, <1>3, <1>13, NoNewPause DEF Poll
<1>14. CASE Loaded(r)  BY <1>2, <1>14, InstallsHidden DEF Loaded, Objects
<1>15. CASE Throws(r)  BY <1>2, <1>15, NoNewPause DEF Throws
<1>. QED
  BY <1>4, <1>5, <1>6, <1>7, <1>8, <1>9, <1>11, <1>12, <1>13, <1>14, <1>15 DEF RequestStep

LEMMA TaskStepHidden ==
  ASSUME Shape, NoneHidden, NEW t \in Tasks, TaskStep(t) PROVE NoneHidden'
<1>. USE DEF orchestrator, history
<1>1. requests' = requests
  BY DEF TaskStep, Submit, Begin, Created, Phase, Turn, Returns, Fallback, Checks, Closes
<1>2. Cleaning' \subseteq Cleaning  BY <1>1 DEF Cleaning
<1>3. status \in [Objects -> Statuses] /\ tasks[t] \in Task  BY DEF Shape, Typed
<1>4. CASE Created(t)  BY <1>2, <1>4, InstallsHidden DEF Created, Objects
<1>5. CASE Phase(t)
  <2>1. status' = [status EXCEPT ![tasks[t].object] = "running"]
    BY <1>5 DEF Phase, executeTask
  <2>2. \A o \in Objects : status'[o] = "paused" => status[o] = "paused"  BY <1>3, <2>1
  <2>. QED  BY <1>2, <1>5, <2>2, NoNewPause DEF Phase
<1>6. CASE Turn(t)
  <2>1. PICK l \in Turns(LoopOf(t)) : status' = [status EXCEPT ![tasks[t].object] = l.status]
    BY <1>6 DEF Turn
  <2>2. tasks[t].object \in Objects  BY <1>6 DEF Turn, Shape, Equipped
  <2>3. LoopOf(t) \in Loop /\ LoopOf(t).status = status[tasks[t].object]
    BY <1>3, <2>2 DEF LoopOf, Loop, Task
  <2>4. l.status \in {status[tasks[t].object], "idle"}  BY <2>3, TurnLeaves DEF Leaves
  <2>5. \A o \in Objects : status'[o] = "paused" => status[o] = "paused"  BY <1>3, <2>1, <2>4
  <2>. QED  BY <1>2, <1>6, <2>5, NoNewPause DEF Turn
<1>7. ASSUME status' = status, active' = active, crossed' = crossed PROVE NoneHidden'
  BY <1>2, <1>7, NoNewPause
<1>. QED
  BY <1>4, <1>5, <1>6, <1>7 DEF TaskStep, Submit, Begin, Returns, Fallback, Checks, Closes

LEMMA UserStepHidden ==
  ASSUME Shape, NoneHidden, NEW r \in Requests, NEW k \in Kinds, Accept(r, k) \/ Ask(r, k)
  PROVE  NoneHidden'
<1>1. \A q \in Requests \ {r} : requests'[q] = requests[q]  BY DEF Accept, Ask, Shape, Typed
<1>2. requests'[r].pc \in {"checked", "sent"}  BY DEF Accept, Ask, Shape, Typed
<1>3. Cleaning' \subseteq Cleaning  BY <1>1, <1>2, CleaningShrinks
<1>. QED  BY <1>3, NoNewPause DEF Accept, Ask, orchestrator, history

LEMMA RestartHidden == ASSUME Shape, Restart PROVE NoneHidden'
<1>1. \A o \in Objects : status'[o] # "paused"  BY DEF Restart
<1>. QED  BY <1>1 DEF NoneHidden

LEMMA NextHidden ==
  ASSUME Shape, NoneHidden, [Next]_vars PROVE NoneHidden'
<1>1. CASE UNCHANGED vars  BY <1>1 DEF NoneHidden, Cleaning, vars, orchestrator, history
<1>2. ASSUME NEW t \in Tasks, Admitted(t) \/ CancelTask(t) \/ Dequeued(t) \/ Fails(t)
      PROVE  NoneHidden'
  BY <1>2 DEF Admitted, CancelTask, Dequeued, Fails, NoneHidden, Cleaning, orchestrator, history
<1>. QED
  BY <1>1, <1>2, UserStepHidden, RequestStepHidden, TaskStepHidden, RestartHidden
     DEF Next, UserStep

LEMMA InitHidden == ASSUME Init PROVE NoneHidden
BY DEF Init, NoneHidden

\* However many tasks, requests and restarts: no task is left on a paused loop
\* that the map does not lead to, unless a hold crossed a clean-up.
THEOREM HoldsCanBeLifted == Spec => []HoldCanBeLifted
<1>1. Shape /\ NoneHidden => HoldCanBeLifted
  BY DEF HoldCanBeLifted, Stranded, NoneHidden, Shape, Equipped
<1>. QED  BY <1>1, InitShape, NextShape, InitHidden, NextHidden, PTL DEF Spec

-----------------------------------------------------------------------------
(* A task can always go on                                                 *)

\* A task under way has a turn to take, or waits in a pause that a request can
\* still lift: the loop it waits in is the one the map leads to, unless a hold
\* crossed a clean-up.
GoesOn ==
  \A t \in Tasks : tasks[t].pc = "working" /\ tasks[t].at # "none" =>
    \/ Turns(LoopOf(t)) # {}
    \/ /\ tasks[t].at = "waiting" /\ status[tasks[t].object] = "paused"
       /\ tasks[t].object = active \/ crossed

LEMMA TurnsWaiting ==
  ASSUME NEW l \in Loop, l.at \notin {"none", "over"}, Turns(l) = {}
  PROVE  l.at = "waiting" /\ l.status = "paused"
<1>1. l.at = "preparing" => Prepared(l) # {}  BY DEF Prepared
<1>2. l.at \in {"stepping", "drained"} => EngineEnds(l) # {}  BY DEF EngineEnds
<1>3. l.at = "finishing" => Finalized(l) # {}  BY DEF Finalized
<1>4. l.at = "waiting" /\ l.status # "paused" => Resumed(l) # {}  BY DEF Resumed, Tracked
<1>. QED  BY <1>1, <1>2, <1>3, <1>4 DEF Turns, Loop, Stations

\* The safety half of Settles: whatever requests pause, resume, cancel, take
\* over or load the session, no task is left without a turn to take, save by a
\* pause that can be lifted.
THEOREM NeverStuck == Spec => []GoesOn
<1>1. ASSUME Shape, HoldCanBeLifted PROVE GoesOn
  <2>. SUFFICES ASSUME NEW t \in Tasks, tasks[t].pc = "working", tasks[t].at # "none",
                       Turns(LoopOf(t)) = {}
                PROVE  /\ tasks[t].at = "waiting" /\ status[tasks[t].object] = "paused"
                       /\ tasks[t].object = active \/ crossed
    BY DEF GoesOn
  <2>1. /\ tasks[t].object \in Objects /\ tasks[t].at \in Stations \ {"over"}
        /\ status[tasks[t].object] \in Statuses
    BY <1>1 DEF Shape, Typed, Equipped, Task
  <2>2. /\ LoopOf(t) \in Loop /\ LoopOf(t).at = tasks[t].at
        /\ LoopOf(t).status = status[tasks[t].object]
    BY <2>1 DEF LoopOf, Loop
  <2>3. tasks[t].at = "waiting" /\ status[tasks[t].object] = "paused"
    BY <2>1, <2>2, TurnsWaiting
  <2>. QED  BY <1>1, <2>3 DEF HoldCanBeLifted, Stranded
<1>. QED  BY <1>1, InitShape, NextShape, HoldsCanBeLifted, PTL DEF Spec

-----------------------------------------------------------------------------
(* No listed task is missed                                                *)

\* A step that writes no closing status, lists no task, and lets no row say
\* more than its task does.
LEMMA NoNewClosing ==
  ASSUME NoneMissed, late' = late, Listed' \subseteq Listed, Listed' \cap Counted \subseteq Counted',
         \A t \in Tasks : RowOver(t)' => (RowOver(t) /\ t \in Listed') \/ t \in Counted',
         row' \in {"completed", "failed"} => row' = row,
         \A t \in Tasks : tasks'[t].pc = "closing" => tasks[t].pc = "closing"
  PROVE  NoneMissed'
<1>1. \A t \in Tasks : RowOver(t)' => t \in Counted'
  <2>. TAKE t \in Tasks
  <2>. HAVE RowOver(t)'
  <2>. QED  BY DEF NoneMissed
<1>2. CASE late  BY <1>1, <1>2 DEF NoneMissed
<1>3. CASE ~ late
  <2>. SUFFICES ASSUME row' \in {"completed", "failed"} \/ \E t \in Tasks : tasks'[t].pc = "closing"
                PROVE  Listed' \subseteq Counted'
    BY <1>1 DEF NoneMissed
  <2>1. row \in {"completed", "failed"} \/ \E t \in Tasks : tasks[t].pc = "closing"
    OBVIOUS
  <2>2. Listed \subseteq Counted  BY <1>3, <2>1 DEF NoneMissed
  <2>. QED  BY <2>2
<1>. QED  BY <1>2, <1>3

\* Requests do not touch the tasks, and write no closing status.
LEMMA RequestsMissed ==
  ASSUME NoneMissed, tasks' = tasks, late' = late, early' = early,
         row' = row \/ row' \in {"paused", "cancelled", "active"}
  PROVE  NoneMissed'
BY DEF NoneMissed, Listed, Counted, Reported, RowOver

\* One task moves: its row is new, or says that it is over only if it counts.
LEMMA OneMoves ==
  ASSUME Shape, NoneMissed, NEW t \in Tasks, NEW new, tasks' = [tasks EXCEPT ![t] = new],
         late' = late, early \subseteq early', row' = row, (new.pc = "closing" => tasks[t].pc = "closing"),
         new.entry # "none" => tasks[t].entry # "none",
         new.entry # "none" /\ t \in Counted => t \in early' \/ new.pc \in {"returned", "closing", "done"},
         new.entry \in {"ended", "cancelled"} =>
           RowOver(t) \/ t \in early' \/ new.pc \in {"returned", "closing", "done"}
  PROVE  NoneMissed'
<1>1. \A u \in Tasks : tasks'[u] = IF u = t THEN new ELSE tasks[u]  BY DEF Shape, Typed
<1>2. Listed' \subseteq Listed  BY <1>1 DEF Listed
<1>3. \A u \in Tasks \ {t} : u \in Counted => u \in Counted'  BY <1>1 DEF Counted, Reported
<1>4. t \in Listed' /\ t \in Counted => t \in Counted'  BY <1>1 DEF Counted, Reported, Listed
<1>5. \A u \in Tasks : u \in Listed' /\ u \in Counted => u \in Counted'  BY <1>3, <1>4
<1>6. \A u \in Tasks : RowOver(u)' => (RowOver(u) /\ u \in Listed') \/ u \in Counted'
  <2>. TAKE u \in Tasks
  <2>. HAVE RowOver(u)'
  <2>1. u \in Listed'  BY DEF Listed, RowOver
  <2>2. CASE u = t  BY <1>1, <2>1, <2>2 DEF RowOver, Counted, Reported
  <2>3. CASE u # t  BY <1>1, <2>1, <2>3 DEF RowOver
  <2>. QED  BY <2>2, <2>3
<1>7. \A u \in Tasks : tasks'[u].pc = "closing" => tasks[u].pc = "closing"  BY <1>1
<1>8. Listed' \cap Counted \subseteq Counted'  BY <1>5 DEF Listed
<1>. QED  BY <1>2, <1>6, <1>7, <1>8, NoNewClosing


LEMMA SubmitMissed ==
  ASSUME Shape, NoneMissed, NEW t \in Tasks, Submit(t) PROVE NoneMissed'
<1>. USE DEF orchestrator, history
<1>0. tasks \in [Tasks -> Task] /\ tasks[t] \in Task /\ late \in BOOLEAN  BY DEF Shape, Typed
<1>1. PICK entry \in {"none", "open"} :
        /\ tasks' = [tasks EXCEPT ![t] = [tasks[t] EXCEPT !.pc = "queued", !.entry = entry]]
        /\ late' = (late \/ (entry = "open" /\ (row \in {"completed", "failed"}
                                                  \/ \E u \in Tasks : tasks[u].pc = "closing")))
  BY DEF Submit
<1>. DEFINE new == [tasks[t] EXCEPT !.pc = "queued", !.entry = entry]
<1>2. new.pc = "queued" /\ new.entry = entry  BY <1>0 DEF Task
<1>3. \A u \in Tasks : tasks'[u] = IF u = t THEN new ELSE tasks[u]  BY <1>0, <1>1
<1>. HIDE DEF new
<1>4. row' = row /\ early' = early /\ tasks[t].pc = "admitted"  BY DEF Submit
<1>5. \A u \in Tasks : tasks'[u].pc = "closing" => tasks[u].pc = "closing"  BY <1>2, <1>3
<1>6. Counted \subseteq Counted'  BY <1>3, <1>4 DEF Counted, Reported, Shape, Typed
<1>7. \A u \in Tasks : RowOver(u)' => RowOver(u)  BY <1>2, <1>3 DEF RowOver
<1>8. \A u \in Tasks : RowOver(u)' => u \in Counted'  BY <1>6, <1>7 DEF NoneMissed
<1>9. CASE late'  BY <1>8, <1>9 DEF NoneMissed
<1>10. CASE ~ late' /\ entry = "open"
  <2>1. row \notin {"completed", "failed"} /\ ~ \E u \in Tasks : tasks[u].pc = "closing"
    BY <1>1, <1>10, Zenon
  <2>. QED  BY <1>4, <1>5, <1>8, <2>1 DEF NoneMissed
<1>11. CASE ~ late' /\ entry = "none"
  <2>1. ~ late  BY <1>1, <1>11, Zenon
  <2>2. Listed' \subseteq Listed  BY <1>2, <1>3, <1>11 DEF Listed
  <2>3. row \in {"completed", "failed"} \/ (\E u \in Tasks : tasks[u].pc = "closing")
          => Listed \subseteq Counted
    BY <2>1 DEF NoneMissed
  <2>4. row' \in {"completed", "failed"} \/ (\E u \in Tasks : tasks'[u].pc = "closing")
          => Listed' \subseteq Counted'
    BY <1>4, <1>5, <1>6, <2>2, <2>3
  <2>. QED  BY <1>8, <2>4 DEF NoneMissed
<1>. QED  BY <1>1, <1>9, <1>10, <1>11

\* A task that has not come back moves to where it has not, or comes back.
LEMMA UnderWayMoves ==
  ASSUME Shape, NoneMissed, NEW t \in Tasks, NEW new, tasks' = [tasks EXCEPT ![t] = new],
         late' = late, early' = early, row' = row, t \notin Reported, new.pc # "closing",
         new.entry # "none" => tasks[t].entry # "none",
         new.entry \in {tasks[t].entry, "none", "open"} \/ new.pc = "returned"
  PROVE  NoneMissed'
<1>1. t \in Counted => t \in early'  BY DEF Counted
<1>2. new.entry \in {"ended", "cancelled"} => RowOver(t) \/ new.pc = "returned"  BY DEF RowOver
<1>. QED  BY <1>1, <1>2, OneMoves

LEMMA TaskStepMissed ==
  ASSUME Shape, NoneMissed, NEW t \in Tasks, TaskStep(t) PROVE NoneMissed'
<1>. USE DEF orchestrator, history
<1>0. tasks \in [Tasks -> Task] /\ tasks[t] \in Task  BY DEF Shape, Typed
<1>1. CASE Begin(t)
  <2>. DEFINE new == [tasks[t] EXCEPT !.pc = IF active = None THEN "creating" ELSE "working",
                                      !.object = active, !.entry = Says(t, "open")]
  <2>1. tasks' = [tasks EXCEPT ![t] = new] /\ t \notin Reported  BY <1>1 DEF Begin, Reported
  <2>2. new.entry = Says(t, "open") /\ new.pc # "closing"  BY <1>0 DEF Task
  <2>. HIDE DEF new
  <2>3. /\ new.entry # "none" => tasks[t].entry # "none"
        /\ new.entry \in {"none", "open"}
    BY <2>2 DEF Says
  <2>. QED  BY <1>1, <2>1, <2>2, <2>3, UnderWayMoves DEF Begin
<1>2. CASE Created(t)
  <2>. DEFINE new == [tasks[t] EXCEPT !.pc = "working", !.object = t]
  <2>1. tasks' = [tasks EXCEPT ![t] = new] /\ t \notin Reported  BY <1>2 DEF Created, Reported
  <2>2. new.entry = tasks[t].entry /\ new.pc # "closing"  BY <1>0 DEF Task
  <2>. HIDE DEF new
  <2>. QED  BY <1>2, <2>1, <2>2, UnderWayMoves DEF Created, Installs
<1>3. CASE Phase(t)
  <2>. DEFINE new == [tasks[t] EXCEPT !.at = executeTask(NewLoop).at, !.left = tasks[t].left - 1]
  <2>1. tasks' = [tasks EXCEPT ![t] = new] /\ t \notin Reported  BY <1>3 DEF Phase, Reported
  <2>2. new.entry = tasks[t].entry /\ new.pc = "working"  BY <1>0, <1>3 DEF Task, Phase
  <2>. HIDE DEF new
  <2>3. late' = late /\ early' = early /\ row' = row  BY <1>3 DEF Phase
  <2>. QED  BY <2>1, <2>2, <2>3, UnderWayMoves
<1>4. CASE Turn(t)
  <2>1. PICK l \in Turns(LoopOf(t)) :
          tasks' = [tasks EXCEPT ![t] = [@ EXCEPT !.at = IF l.at = "over" THEN "none" ELSE l.at]]
    BY <1>4 DEF Turn
  <2>. DEFINE new == [tasks[t] EXCEPT !.at = IF l.at = "over" THEN "none" ELSE l.at]
  <2>2. tasks' = [tasks EXCEPT ![t] = new] /\ t \notin Reported  BY <1>4, <2>1 DEF Turn, Reported
  <2>3. new.entry = tasks[t].entry /\ new.pc = "working"  BY <1>0, <1>4 DEF Task, Turn
  <2>. HIDE DEF new
  <2>. QED  BY <1>4, <2>2, <2>3, UnderWayMoves DEF Turn
<1>5. CASE Returns(t)
  <2>. DEFINE new == Apart("returned", Says(t, "ended"), tasks[t].attempt)
  <2>1. tasks' = [tasks EXCEPT ![t] = new] /\ t \notin Reported  BY <1>5 DEF Returns, Reported
  <2>2. new.pc = "returned" /\ (new.entry # "none" => tasks[t].entry # "none")
    BY DEF Apart, Says
  <2>. HIDE DEF new
  <2>. QED  BY <1>5, <2>1, <2>2, UnderWayMoves DEF Returns
<1>6. CASE Fallback(t)
  <2>. DEFINE new == [tasks[t] EXCEPT !.pc = "returned", !.entry = Says(t, "ended")]
  <2>1. tasks' = [tasks EXCEPT ![t] = new] /\ t \notin Reported  BY <1>6 DEF Fallback, Reported
  <2>2. new.pc = "returned" /\ (new.entry # "none" => tasks[t].entry # "none")
    BY <1>0 DEF Task, Says
  <2>. HIDE DEF new
  <2>. QED  BY <1>6, <2>1, <2>2, UnderWayMoves DEF Fallback
<1>7. ASSUME NEW pc \in {"closing", "done"}, Moves(t, pc), early' = early, t \in Reported
      PROVE  /\ Listed' = Listed /\ Counted' = Counted
             /\ \A u \in Tasks : RowOver(u)' <=> RowOver(u)
             /\ \A u \in Tasks \ {t} : tasks'[u] = tasks[u]
             /\ tasks'[t].pc = pc
  <2>1. \A u \in Tasks : tasks'[u] = IF u = t THEN [tasks[t] EXCEPT !.pc = pc] ELSE tasks[u]
    BY <1>0, <1>7 DEF Moves
  <2>2. tasks'[t].pc = pc /\ tasks'[t].entry = tasks[t].entry  BY <1>0, <2>1 DEF Task
  <2>3. Listed' = Listed /\ \A u \in Tasks : RowOver(u)' <=> RowOver(u)
    BY <2>1, <2>2 DEF Listed, RowOver
  <2>4. Reported' = Reported  BY <1>7, <2>1, <2>2 DEF Reported
  <2>. QED  BY <1>7, <2>1, <2>2, <2>3, <2>4 DEF Counted
<1>8. CASE Checks(t)
  <2>1. t \in Reported /\ early' = early /\ late' = late /\ row' = row  BY <1>8 DEF Checks, Reported
  <2>2. CASE AllDone
    <3>1. Moves(t, "closing")  BY <1>8, <2>2 DEF Checks
    <3>2. Listed \subseteq Counted  BY <2>2 DEF AllDone, NoneMissed, Listed
    <3>. QED  BY <1>7, <2>1, <3>1, <3>2 DEF NoneMissed
  <2>3. CASE ~ AllDone
    <3>1. Moves(t, "done")  BY <1>8, <2>3 DEF Checks
    <3>. QED  BY <1>7, <2>1, <3>1 DEF NoneMissed
  <2>. QED  BY <2>2, <2>3
<1>9. CASE Closes(t)
  <2>1. Moves(t, "done") /\ tasks[t].pc = "closing" /\ late' = late /\ early' = early
    BY <1>9 DEF Closes
  <2>2. t \in Reported /\ (late \/ Listed \subseteq Counted)  BY <2>1 DEF NoneMissed, Reported
  <2>. QED  BY <1>7, <2>1, <2>2 DEF NoneMissed
<1>. QED
  BY <1>1, <1>2, <1>3, <1>4, <1>5, <1>6, <1>8, <1>9, SubmitMissed DEF TaskStep


LEMMA CancelMissed ==
  ASSUME Shape, NoneMissed, NEW t \in Tasks, CancelTask(t) PROVE NoneMissed'
<1>. USE DEF orchestrator, history
<1>. DEFINE new == [tasks[t] EXCEPT !.entry = "cancelled"]
<1>0. tasks[t] \in Task  BY DEF Shape, Typed
<1>1. /\ tasks' = [tasks EXCEPT ![t] = new] /\ tasks[t].entry = "open"
      /\ late' = late /\ row' = row /\ early' = early \cup ({t} \ Reported)
  BY DEF CancelTask
<1>2. new.pc = tasks[t].pc  BY <1>0 DEF Task
<1>3. t \in early' \/ new.pc \in {"returned", "closing", "done"}  BY <1>1, <1>2 DEF Reported
<1>. HIDE DEF new
<1>. QED  BY <1>1, <1>2, <1>3, OneMoves

LEMMA FailsMissed ==
  ASSUME Shape, NoneMissed, NEW t \in Tasks, Fails(t) PROVE NoneMissed'
<1>. USE DEF orchestrator, history
<1>. DEFINE again == tasks[t].attempt < MaxAttempts
            new == Apart(IF again THEN "queued" ELSE "done", Says(t, "ended"),
                         IF again THEN tasks[t].attempt + 1 ELSE tasks[t].attempt)
<1>1. /\ tasks' = [tasks EXCEPT ![t] = new] /\ late' = late /\ row' = row
      /\ early' = IF again THEN early \cup ({t} \cap Listed) ELSE early
  BY DEF Fails
<1>2. new.pc = (IF again THEN "queued" ELSE "done") /\ new.entry = Says(t, "ended")
  BY DEF Apart
<1>3. new.entry # "none" => tasks[t].entry # "none"  BY <1>2 DEF Says
<1>4. new.entry # "none" => t \in early' \/ new.pc = "done"
  BY <1>1, <1>2, <1>3 DEF Listed
<1>5. new.pc # "closing" /\ early \subseteq early'  BY <1>1, <1>2
<1>. HIDE DEF new, again
<1>. QED  BY <1>1, <1>3, <1>4, <1>5, OneMoves

LEMMA DequeuedMissed ==
  ASSUME Shape, NoneMissed, NEW t \in Tasks, Dequeued(t) PROVE NoneMissed'
<1>. DEFINE new == [tasks[t] EXCEPT !.pc = "done"]
<1>1. tasks' = [tasks EXCEPT ![t] = new] /\ late' = late /\ early' = early /\ row' = row
  BY DEF Dequeued, Moves, history
<1>2. new.pc = "done" /\ new.entry = tasks[t].entry  BY DEF Shape, Typed, Task
<1>. HIDE DEF new
<1>. QED  BY <1>1, <1>2, OneMoves

LEMMA AdmittedMissed ==
  ASSUME Shape, NoneMissed, NEW t \in Tasks, Admitted(t) PROVE NoneMissed'
<1>. DEFINE new == [tasks[t] EXCEPT !.pc = "admitted"]
<1>1. /\ tasks' = [tasks EXCEPT ![t] = new] /\ late' = late /\ early' = early /\ row' = row
      /\ t \notin Reported
  BY DEF Admitted, Moves, history, Reported
<1>2. new.pc # "closing" /\ new.entry = tasks[t].entry  BY DEF Shape, Typed, Task
<1>. HIDE DEF new
<1>. QED  BY <1>1, <1>2, UnderWayMoves

LEMMA RequestStepMissed ==
  ASSUME Shape, NoneMissed, NEW r \in Requests,
         RequestStep(r) \/ (\E k \in Kinds : Accept(r, k) \/ Ask(r, k))
  PROVE  NoneMissed'
<1>. USE DEF orchestrator, history
<1>0. requests[r].kind \in Kinds  BY DEF Shape, Typed, Request
<1>1. CASE RequestStep(r)
  <2>1. tasks' = tasks /\ late' = late /\ early' = early
    BY <1>1 DEF RequestStep, Write, Dropped, Signal, Stored, Cleaned, TakenOver, Release,
                Released, Poll, Loaded, Installs, Throws
  <2>2. row' = row \/ row' = Into(requests[r].kind)
    BY <1>1 DEF RequestStep, Write, Dropped, Signal, Stored, Cleaned, TakenOver, Release,
                Released, Poll, Loaded, Installs, Throws
  <2>. QED  BY <1>0, <2>1, <2>2, IntoRow, RequestsMissed
<1>2. ASSUME NEW k \in Kinds, Accept(r, k) \/ Ask(r, k) PROVE NoneMissed'
  BY <1>2, IntoRow, RequestsMissed DEF Accept, Ask
<1>. QED  BY <1>1, <1>2

LEMMA RestartMissed ==
  ASSUME Shape, NoneMissed, Restart PROVE NoneMissed'
<1>0. \A t \in Tasks : tasks[t] \in Task  BY DEF Shape, Typed
<1>1. \A t \in Tasks : tasks'[t] = IF tasks[t].pc \in {"creating", "working"}
                                   THEN Apart("lost", tasks[t].entry, tasks[t].attempt)
                                   ELSE tasks[t]
  BY DEF Restart
<1>2. \A t \in Tasks : /\ tasks'[t].entry = tasks[t].entry
                       /\ tasks'[t].pc = IF tasks[t].pc \in {"creating", "working"} THEN "lost"
                                         ELSE tasks[t].pc
  <2>. TAKE t \in Tasks
  <2>1. CASE tasks[t].pc \in {"creating", "working"}
    <3>1. tasks'[t] = Apart("lost", tasks[t].entry, tasks[t].attempt)  BY <1>1, <2>1
    <3>. QED  BY <2>1, <3>1 DEF Apart
  <2>2. CASE tasks[t].pc \notin {"creating", "working"}  BY <1>1, <2>2
  <2>. QED  BY <2>1, <2>2
<1>3. Listed' = Listed /\ \A t \in Tasks : RowOver(t)' <=> RowOver(t)  BY <1>2 DEF Listed, RowOver
<1>4. Reported' = Reported  BY <1>2 DEF Reported
<1>5. early' = early /\ late' = late /\ row' = row  BY DEF Restart, history
<1>6. Counted' = Counted  BY <1>4, <1>5 DEF Counted
<1>. QED  BY <1>2, <1>3, <1>5, <1>6 DEF NoneMissed

LEMMA NextMissed ==
  ASSUME Shape, NoneMissed, [Next]_vars PROVE NoneMissed'
<1>1. CASE UNCHANGED vars
  BY <1>1 DEF NoneMissed, Listed, Counted, Reported, RowOver, vars, history
<1>. QED
  BY <1>1, RequestStepMissed, TaskStepMissed, CancelMissed, FailsMissed, DequeuedMissed,
     AdmittedMissed, RestartMissed DEF Next, UserStep

\* However many tasks, requests and attempts: a session is closed as completed
\* or failed only when its listed tasks are over, unless one was listed too
\* late to count or its row was written too early.
THEOREM ClosedInTime == Spec => []ClosedWhenDone
<1>1. ASSUME Init PROVE NoneMissed
  <2>1. \A t \in Tasks : tasks[t].pc = "idle" /\ tasks[t].entry = "none"
    BY <1>1 DEF Init, Apart
  <2>2. row = "active"  BY <1>1 DEF Init
  <2>3. row \notin {"completed", "failed"}  BY <2>2
  <2>4. ~ \E t \in Tasks : tasks[t].pc = "closing"  BY <2>1
  <2>5. \A t \in Tasks : ~ RowOver(t)  BY <2>1 DEF RowOver
  <2>. QED  BY <2>3, <2>4, <2>5 DEF NoneMissed
<1>2. NoneMissed => ClosedWhenDone  BY DEF NoneMissed, ClosedWhenDone, Counted
<1>. QED  BY <1>1, <1>2, InitShape, NextShape, NextMissed, PTL DEF Spec
=============================================================================
