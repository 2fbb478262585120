--------------------------- MODULE SessionControl ---------------------------
(***************************************************************************)
(* One session under its users' requests: the API's pause, resume, cancel, *)
(* retry, takeover, release and status (api routers/sessions.ts and        *)
(* routes/v1/sessions.ts), the orchestrator's handlers of the same names   *)
(* (index.ts, session-manager.ts, takeover.ts), the tasks that             *)
(* TaskRouter.processTask() runs for it, and checkSessionCompletion() of   *)
(* the queue worker.                                                       *)
(*                                                                         *)
(* The session's row is shared by all of them.  In the orchestrator the    *)
(* map activeSessions holds at most one object for it, with an AgentLoop;  *)
(* a task keeps the object it found, whatever the map holds later.         *)
(*                                                                         *)
(* Left out: the status field of the object in memory and the rows of the  *)
(* agents, which decide nothing; what a phase computes; the worker's time  *)
(* limit and the statuses tasks.updateStatus writes, which TaskCredits has.*)
(***************************************************************************)
EXTENDS AgentLoop, Integers, FiniteSets

CONSTANTS
  Tasks, Requests,  \* disjoint sets of numbers; the lower ones come first
  MaxAttempts,      \* attempts of the queue's retry policy
  MaxPhases,        \* bound: calls of executeTask() in one processTask()
  MaxRestarts       \* bound: restarts of the orchestrator

None == 0

\* A session object is named after the task or the status request that puts it
\* into the map: neither puts more than one there.
Objects == Tasks \cup Requests

ASSUME NumberedActors == Objects \subseteq Nat \ {None} /\ Tasks \cap Requests = {}
ASSUME BoundsNat == /\ MaxAttempts \in Nat \ {0}
                    /\ MaxPhases \in Nat /\ MaxRestarts \in Nat

VARIABLES
  row,       \* sessions.status
  active,    \* the object under the session's id in activeSessions
  status,    \* each object's AgentLoop.status
  human,     \* whether TakeoverManager holds a state for the session
  tasks,     \* each task: where it stands, its executeTask() call, the
             \* status of its row and the number of its attempt
  requests,  \* each request of a user: where it stands
  restarts,
  crossed,   \* history: a hold slipped past a clean-up (Hides, HidesHold)
  late,      \* history: a task was stored behind a closing check (Submit)
  early      \* history: tasks whose row said they were over before they were

orchestrator == <<active, status, human>>
history == <<crossed, late, early>>
vars == <<row, orchestrator, tasks, requests, restarts, history>>

RowStatuses == {"active", "paused", "cancelled", "completed", "failed"}

Kinds == {"pause", "resume", "cancel", "retry", "takeover", "release", "status"}

\* What a task's row may say: there is none, or it is queued or running, or
\* completed or failed, or cancelled.
Entries == {"none", "open", "ended", "cancelled"}

\* A task that has no object of the orchestrator.
Apart(pc, entry, attempt) ==
  [pc |-> pc, object |-> None, at |-> "none", left |-> MaxPhases, entry |-> entry,
   attempt |-> attempt]
NewRequest == [pc |-> "idle", kind |-> "status", object |-> None]

Init ==
  /\ row = "active"
  /\ active = None /\ status = [o \in Objects |-> "idle"] /\ human = FALSE
  /\ tasks = [t \in Tasks |-> Apart("idle", "none", 1)]
  /\ requests = [r \in Requests |-> NewRequest]
  /\ restarts = 0
  /\ crossed = FALSE /\ late = FALSE /\ early = {}

Settle(r, pc) == requests' = [requests EXCEPT ![r].pc = pc]

Over(r) == requests' = [requests EXCEPT ![r] = [NewRequest EXCEPT !.pc = "over"]]

\* The next identity of its kind: names carry no meaning.
Next1(S, x, started) == \A y \in S : y < x => started[y].pc # "idle"

-----------------------------------------------------------------------------
(* The API                                                                 *)

\* The statuses from which a request is accepted.
From(k) ==
  CASE k \in {"pause", "takeover"} -> {"active"}
    [] k = "resume" -> {"paused"}
    [] k = "cancel" -> {"active", "paused"}
    [] k = "retry"  -> {"failed"}
    [] OTHER        -> RowStatuses

\* The status a request writes.
Into(k) ==
  CASE k = "pause" -> "paused" [] k = "cancel" -> "cancelled" [] OTHER -> "active"

\* sessions.ts: one UPDATE checks the status and writes it.
Accept(r, k) ==
  /\ requests[r].pc = "idle" /\ Next1(Requests, r, requests)
  /\ k \in {"pause", "resume", "cancel"} /\ row \in From(k)
  /\ row' = Into(k)
  /\ requests' = [requests EXCEPT ![r] = [pc |-> "sent", kind |-> k, object |-> None]]
  /\ UNCHANGED <<orchestrator, tasks, restarts, history>>

\* The other requests read the row first: those of the REST API, retry and
\* takeover.  Release and status do not look at it.
Ask(r, k) ==
  /\ requests[r].pc = "idle" /\ Next1(Requests, r, requests)
  /\ row \in From(k)
  /\ requests' = [requests EXCEPT
       ![r] = [pc     |-> IF k \in {"takeover", "release", "status"} THEN "sent" ELSE "checked",
               kind   |-> k,
               object |-> None]]
  /\ UNCHANGED <<row, orchestrator, tasks, restarts, history>>

\* ... and write it whatever it is by then.  No route answers a retry.
Write(r) ==
  /\ requests[r].pc = "checked"
  /\ row' = Into(requests[r].kind)
  /\ IF requests[r].kind = "retry" THEN Over(r) ELSE Settle(r, "sent")
  /\ UNCHANGED <<orchestrator, tasks, restarts, history>>

\* fetch() fails, which the API logs, or the session is not in memory.
Dropped(r) ==
  /\ requests[r].pc = "sent"
  /\ Over(r)
  /\ UNCHANGED <<row, orchestrator, tasks, restarts, history>>

-----------------------------------------------------------------------------
(* The orchestrator's handlers, up to their first await and from there on  *)

Cleaning == {r \in Requests : requests[r].kind = "cancel"
                                /\ requests[r].pc \in {"signalled", "stored"}}

ToldPause(k) ==  \* mutant: a cancel only pauses the loop
  IF k = "resume" THEN "running" ELSE "paused"

ToldTheRow(k) ==  \* mutant: the loop is given the session's status
  CASE k = "cancel" -> "cancelled" [] k = "resume" -> "running" [] OTHER -> "paused"

\* What a handler tells the loop at once.
Told(k) == CASE k = "cancel" -> "stopped" [] k = "resume" -> "running" [] OTHER -> "paused"

\* A hold that comes while a cancel cleans up: the map will forget it.
Hides(k) == k \in {"pause", "takeover"} /\ Cleaning # {}

\* pauseSession(), resumeSession(), cancelSession() and POST takeover.
Signal(r) ==
  LET k == requests[r].kind IN
  /\ requests[r].pc = "sent" /\ k \in {"pause", "resume", "cancel", "takeover"}
  /\ active # None
  /\ status' = [status EXCEPT ![active] = Told(k)]
  /\ requests' = [requests EXCEPT ![r] = [pc |-> "signalled", kind |-> k, object |-> active]]
  /\ crossed' = (crossed \/ Hides(k))
  /\ UNCHANGED <<row, active, human, tasks, restarts, late, early>>

\* The unconditional UPDATE of the three; a cancel then terminates the agents.
Stored(r) ==
  LET k == requests[r].kind IN
  /\ requests[r].pc = "signalled" /\ k \in {"pause", "resume", "cancel"}
  /\ row' = Into(k)
  /\ IF k = "cancel" THEN Settle(r, "stored") ELSE Over(r)
  /\ UNCHANGED <<orchestrator, tasks, restarts, history>>

\* activeSessions.delete(): by the session's id, whatever object is there.
Cleaned(r) ==
  /\ requests[r].pc = "stored"
  /\ active' = None
  /\ Settle(r, "over")
  /\ UNCHANGED <<row, status, human, tasks, restarts, history>>

\* TakeoverManager.takeover(), once the loop is paused.
TakenOver(r) ==
  /\ requests[r].pc = "signalled" /\ requests[r].kind = "takeover"
  /\ human' = TRUE
  /\ Over(r)
  /\ UNCHANGED <<row, active, status, tasks, restarts, history>>

\* POST release: TakeoverManager.release() awaits a publication if it holds a
\* state; then the loop runs, whoever paused it.
Release(r) ==
  /\ requests[r].pc = "sent" /\ requests[r].kind = "release"
  /\ active # None
  /\ IF human
     THEN requests' = [requests EXCEPT
            ![r] = [pc |-> "signalled", kind |-> "release", object |-> active]] /\ UNCHANGED status
     ELSE Over(r) /\ status' = [status EXCEPT ![active] = "running"]
  /\ UNCHANGED <<row, active, human, tasks, restarts, history>>

Released(r) ==
  /\ requests[r].pc = "signalled" /\ requests[r].kind = "release"
  /\ human' = FALSE
  /\ status' = [status EXCEPT ![requests[r].object] = "running"]
  /\ Over(r)
  /\ UNCHANGED <<row, active, tasks, restarts, history>>

\* GET status: a session that is not in memory is loaded from its row.
Poll(r) ==
  /\ requests[r].pc = "sent" /\ requests[r].kind = "status"
  /\ IF active = None THEN Settle(r, "loading") ELSE Over(r)
  /\ UNCHANGED <<row, orchestrator, tasks, restarts, history>>

\* An awaited publication, UPDATE or SELECT throws: the handler answers 500.
Throws(r) ==
  /\ requests[r].pc \in {"signalled", "stored", "loading"}
  /\ Over(r)
  /\ UNCHANGED <<row, orchestrator, tasks, restarts, history>>

-----------------------------------------------------------------------------
(* createSession() and loadSession(), from the answer of the database on   *)

\* The object a held loop belongs to leaves the map.
HidesHold == active # None /\ status[active] = "paused"

\* activeSessions.set(): over whatever another call has put there meanwhile.
Installs(o) ==
  /\ active' = o
  /\ status' = [status EXCEPT ![o] = "idle"]
  /\ crossed' = (crossed \/ HidesHold)
  /\ UNCHANGED <<human, late, early>>

Loaded(r) ==
  /\ requests[r].pc = "loading"
  /\ Over(r)
  /\ Installs(r)
  /\ UNCHANGED <<row, tasks, restarts>>

-----------------------------------------------------------------------------
(* The tasks of the session                                                *)

Moves(t, pc) == tasks' = [tasks EXCEPT ![t].pc = pc]

\* An UPDATE of t's row, which does nothing if there is none.
Says(t, entry) == IF tasks[t].entry = "none" THEN "none" ELSE entry

Listed == {t \in Tasks : tasks[t].entry # "none"}

\* The worker has what the orchestrator, or its fallback, made of the task.
Reported == {t \in Tasks : tasks[t].pc \in {"returned", "closing", "done"}}

\* tasks.submit, sendMessage or a resume with a prompt finds the session active ...
Admitted(t) ==
  /\ tasks[t].pc = "idle" /\ Next1(Tasks, t, tasks)
  /\ row = "active"
  /\ Moves(t, "admitted")
  /\ UNCHANGED <<row, orchestrator, requests, restarts, history>>

\* ... and then queues the task.  Only submit and retry list it in the table.
Submit(t) ==
  /\ tasks[t].pc = "admitted"
  /\ \E entry \in {"none", "open"} :
       /\ tasks' = [tasks EXCEPT ![t] = [@ EXCEPT !.pc = "queued", !.entry = entry]]
       /\ late' = (late \/ (entry = "open" /\ (row \in {"completed", "failed"}
                                                 \/ \E u \in Tasks : tasks[u].pc = "closing")))
  /\ UNCHANGED <<row, orchestrator, requests, restarts, crossed, early>>

\* tasks.cancel, of a task whose row is neither completed, failed nor cancelled:
\* nobody tells the worker or the orchestrator.
CancelTask(t) ==
  /\ tasks[t].entry = "open"
  /\ tasks' = [tasks EXCEPT ![t].entry = "cancelled"]
  /\ early' = early \cup ({t} \ Reported)
  /\ UNCHANGED <<row, orchestrator, requests, restarts, crossed, late>>

\* It then removes the job, unless the worker has taken it.
Dequeued(t) ==
  /\ tasks[t].pc = "queued" /\ tasks[t].entry = "cancelled"
  /\ Moves(t, "done")
  /\ UNCHANGED <<row, orchestrator, requests, restarts, history>>

\* The worker and processTask() set the task to running, whatever its row says.
\* processTask() looks the session up, and creates it if it is not in memory.
Begin(t) ==
  /\ tasks[t].pc = "queued"
  /\ tasks' = [tasks EXCEPT ![t] = [@ EXCEPT !.pc = IF active = None THEN "creating" ELSE "working",
                                             !.object = active,
                                             !.entry = Says(t, "open")]]
  /\ UNCHANGED <<row, orchestrator, requests, restarts, history>>

\* The INSERT of createSession() is answered: it does nothing if the row is
\* there, whatever its status, and a failure is only logged.
Created(t) ==
  /\ tasks[t].pc = "creating"
  /\ Installs(t)
  /\ tasks' = [tasks EXCEPT ![t] = [@ EXCEPT !.pc = "working", !.object = t]]
  /\ UNCHANGED <<row, requests, restarts>>

\* The next phase calls executeTask() on the loop the task has.
Phase(t) ==
  /\ tasks[t].pc = "working" /\ tasks[t].at = "none" /\ tasks[t].left > 0
  /\ LET l == executeTask(NewLoop) IN
       /\ status' = [status EXCEPT ![tasks[t].object] = l.status]
       /\ tasks' = [tasks EXCEPT ![t] = [@ EXCEPT !.at = l.at, !.left = tasks[t].left - 1]]
  /\ UNCHANGED <<row, active, human, requests, restarts, history>>

\* The loop as t's executeTask() sees it: the status is everybody's.  Whether
\* its result is a success decides nothing here.
LoopOf(t) == [status |-> status[tasks[t].object], at |-> tasks[t].at, ok |-> FALSE]

\* A turn of t's executeTask(); when it is over the task goes on.
Turn(t) ==
  /\ tasks[t].pc = "working" /\ tasks[t].at # "none"
  /\ \E l \in Turns(LoopOf(t)) :
       /\ status' = [status EXCEPT ![tasks[t].object] = l.status]
       /\ tasks' = [tasks EXCEPT ![t] = [@ EXCEPT !.at = IF l.at = "over" THEN "none" ELSE l.at]]
  /\ UNCHANGED <<row, active, human, requests, restarts, history>>

\* processTask() returns, or throws between two phases: the row says completed
\* or failed.
Returns(t) ==
  /\ tasks[t].pc = "working" /\ tasks[t].at = "none"
  /\ tasks' = [tasks EXCEPT ![t] = Apart("returned", Says(t, "ended"), tasks[t].attempt)]
  /\ UNCHANGED <<row, orchestrator, requests, restarts, history>>

\* The worker has lost the orchestrator: fallbackProcess() completes the task.
Fallback(t) ==
  /\ tasks[t].pc = "lost"
  /\ tasks' = [tasks EXCEPT ![t] = [@ EXCEPT !.pc = "returned", !.entry = Says(t, "ended")]]
  /\ UNCHANGED <<row, orchestrator, requests, restarts, history>>

\* Whatever the worker awaits throws: its catch sets the task to failed, and
\* the queue gives it out again while it has attempts left.
Fails(t) ==
  LET again == tasks[t].attempt < MaxAttempts IN
  /\ tasks[t].pc \in {"queued", "lost", "returned", "closing"}
  /\ tasks' = [tasks EXCEPT
       ![t] = Apart(IF again THEN "queued" ELSE "done", Says(t, "ended"),
                    IF again THEN tasks[t].attempt + 1 ELSE tasks[t].attempt)]
  /\ early' = IF again THEN early \cup ({t} \cap Listed) ELSE early
  /\ UNCHANGED <<row, orchestrator, requests, restarts, crossed, late>>

-----------------------------------------------------------------------------
(* checkSessionCompletion()                                                *)

RowOver(t) == tasks[t].entry \in {"ended", "cancelled"}

SomeDone == \E t \in Listed : RowOver(t)  \* mutant: some() for every()
AllDone == Listed # {} /\ \A t \in Listed : RowOver(t)

\* Unless something failed, it reads the statuses of the listed tasks ...
Checks(t) ==
  /\ tasks[t].pc = "returned"
  /\ Moves(t, IF AllDone THEN "closing" ELSE "done")
  /\ UNCHANGED <<row, orchestrator, requests, restarts, history>>

\* ... and writes the session's, whatever it is by then.
Closes(t) ==
  /\ tasks[t].pc = "closing"
  /\ row' \in {"completed", "failed"}
  /\ Moves(t, "done")
  /\ UNCHANGED <<orchestrator, requests, restarts, history>>

-----------------------------------------------------------------------------
(* The orchestrator restarts: what it held in memory is gone.              *)

Restart ==
  /\ restarts < MaxRestarts
  /\ restarts' = restarts + 1
  /\ active' = None /\ human' = FALSE /\ status' = [o \in Objects |-> "idle"]
  /\ tasks' = [t \in Tasks |-> IF tasks[t].pc \in {"creating", "working"}
                               THEN Apart("lost", tasks[t].entry, tasks[t].attempt) ELSE tasks[t]]
  /\ requests' = [r \in Requests |-> IF requests[r].pc \in {"signalled", "stored", "loading"}
                                     THEN [NewRequest EXCEPT !.pc = "over"] ELSE requests[r]]
  /\ UNCHANGED <<row, history>>

-----------------------------------------------------------------------------
(* The specification                                                       *)

UserStep(r) == \E k \in Kinds : Accept(r, k) \/ Ask(r, k)

RequestStep(r) ==
  \/ Write(r) \/ Dropped(r) \/ Signal(r) \/ Stored(r) \/ Cleaned(r) \/ TakenOver(r)
  \/ Release(r) \/ Released(r) \/ Poll(r) \/ Loaded(r) \/ Throws(r)

TaskStep(t) ==
  \/ Submit(t) \/ Begin(t) \/ Created(t) \/ Phase(t) \/ Turn(t) \/ Returns(t)
  \/ Fallback(t) \/ Checks(t) \/ Closes(t)

Next ==
  \/ \E r \in Requests : UserStep(r) \/ RequestStep(r)
  \/ \E t \in Tasks : Admitted(t) \/ CancelTask(t) \/ Dequeued(t) \/ TaskStep(t) \/ Fails(t)
  \/ Restart

\* A request under way ends, for its awaits are answered or time out; a queued
\* task is taken, and the engine of a running one yields finitely many events.
\* Nobody must make a request, submit or cancel a task, and nothing must fail.
Fairness == /\ \A r \in Requests : WF_vars(RequestStep(r))
            /\ \A t \in Tasks : WF_vars(TaskStep(t))

Spec == Init /\ [][Next]_vars
FairSpec == Spec /\ Fairness

-----------------------------------------------------------------------------
(* Properties                                                              *)

\* Each variable keeps its shape.
TypeOK ==
  /\ row \in RowStatuses
  /\ active \in Objects \cup {None}
  /\ status \in [Objects -> Statuses]
  /\ human \in BOOLEAN
  /\ tasks \in [Tasks -> [pc : {"idle", "admitted", "queued", "creating", "working", "lost",
                                "returned", "closing", "done"},
                          object : Objects \cup {None}, at : Stations \ {"over"},
                          left : 0..MaxPhases, entry : Entries, attempt : 1..MaxAttempts]]
  /\ requests \in [Requests -> [pc : {"idle", "checked", "sent", "signalled", "stored",
                                      "loading", "over"},
                                kind : Kinds, object : Objects \cup {None}]]
  /\ restarts \in 0..MaxRestarts
  /\ crossed \in BOOLEAN /\ late \in BOOLEAN /\ early \subseteq Tasks

\* A task on a held loop that the map does not lead to any more.
Stranded(t) ==
  /\ tasks[t].pc = "working" /\ tasks[t].object # active
  /\ status[tasks[t].object] = "paused"

\* Whoever holds a session can let it go again: no task is left in a paused
\* loop that no request can reach, unless a hold came while a cancel cleaned
\* up, or a second look-up replaced the object of a held session.
HoldCanBeLifted == crossed \/ \A t \in Tasks : ~ Stranded(t)

\* A session is closed as completed or failed only when every listed task is
\* over, but for those whose row said so before they were: cancelled while they
\* ran, or failed with an attempt left.  Nor is one waited for that was listed
\* behind a check that had already read the others.
ClosedWhenDone ==
  late \/ row \notin {"completed", "failed"} \/ Listed \subseteq Reported \cup early

\* In the end every task is over, or is held by a pause that a request can
\* still lift.
Settles ==
  \A t \in Tasks :
    <>[](tasks[t].pc \in {"idle", "done"}
           \/ (tasks[t].at = "waiting" /\ status[tasks[t].object] = "paused"
                 /\ (tasks[t].object = active \/ crossed)))

\* cancelSession(): "Stops the agent loop and cleans up".  After its answer no
\* task begins another phase on the loop it stopped.
CancelStops ==
  [][\A t \in Tasks, r \in Requests :
       requests[r].kind = "cancel" /\ requests[r].pc = "over"
         /\ tasks[t].object = requests[r].object /\ tasks[t].pc = "working"
       => tasks'[t].left = tasks[t].left]_vars
=============================================================================
