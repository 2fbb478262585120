---------------------------- MODULE TaskCredits ----------------------------
(***************************************************************************)
(* The life of the paid tasks of one session of one organisation: the API  *)
(* (tasks.submit, tasks.cancel, tasks.updateStatus) reserves and releases  *)
(* credits, BullMQ hands jobs to the queue worker, and the worker's        *)
(* TaskProcessor runs a task, charges it, or releases what was reserved.   *)
(*                                                                         *)
(* Every SQL statement is one step: none of these handlers opens a         *)
(* transaction, so any other handler may run between two of its            *)
(* statements.  A handler that has stopped for good (its process died, or  *)
(* its request was aborted) is one that takes no further step.  Left out,  *)
(* because no handler here reads them: the agents and model_usage rows an  *)
(* attempt writes and the events it publishes.                             *)
(***************************************************************************)
EXTENDS Naturals, FiniteSets

CONSTANTS
  Tasks,            \* tasks a user may submit in the session
  Cancels,          \* cancel requests a user may send for one task
  Cost,             \* CREDIT_COSTS.medium_task, reserved for every task
  Charges,          \* totalCreditsConsumed the orchestrator may answer
  InitialBalance,   \* balance of the organisation at the start
  UserStatuses,     \* statuses a user may write with tasks.updateStatus
  MaxAttempts,      \* attempts of the queue's retry policy
  MaxStalls,        \* BullMQ's maxStalledCount
  Timeouts,         \* TRUE when a job may outlive JOB_TIMEOUT_MS
  MaxCrashes,       \* bound: attempts whose worker process dies
  MaxFaults         \* bound: database or Redis calls that fail

Terminal == {"completed", "failed", "cancelled"}
Statuses == {"pending", "queued", "running", "paused"} \cup Terminal

ASSUME TasksFinite == IsFiniteSet(Tasks)
ASSUME CreditsNat == Cost \in Nat /\ Charges \subseteq Nat /\ InitialBalance \in Nat
ASSUME StatusesKnown == UserStatuses \subseteq Statuses
ASSUME BoundsNat == /\ MaxAttempts \in Nat \ {0} /\ MaxStalls \in Nat
                    /\ MaxCrashes \in Nat /\ MaxFaults \in Nat
                    /\ Timeouts \in BOOLEAN

VARIABLES
  balance, reserved,  \* the organisation's row of credit_balances
  resv,               \* status of the task's row of credit_reservations
  spent, refunded,    \* sums of the task's rows of credit_transactions
  status,             \* tasks.status
  creditsReserved,    \* tasks.credits_reserved, also carried by the job
  session,            \* sessions.status
  job,                \* the task's BullMQ job
  dlq,                \* entries of the task in agent-tasks-dlq
  filing, lost,       \* entries a listener is still adding; history: never added
  sub, can, att,      \* submit, cancel and worker attempts in progress
  crashes, faults     \* how many happened so far

rows  == <<balance, reserved, resv, spent, refunded>>
plane == <<status, creditsReserved, session>>
letters == <<dlq, filing, lost>>
queue == <<job, letters>>
procs == <<sub, can, att>>
env   == <<crashes, faults>>
vars  == <<rows, plane, queue, procs, env>>

Attempts == 1 .. (MaxAttempts + MaxCrashes)
Runs     == Tasks \X Attempts

SubmitPC == {"idle", "check", "insert", "reserve", "create", "createBare",
             "enqueue", "done", "rejected"}
CancelPC == {"idle", "cancel", "find", "release", "decrement", "record",
             "dequeue", "done"}
AttemptPC == {"idle", "begin", "call", "complete", "find", "deduct", "mark",
              "direct", "record", "check", "close", "return", "catch",
              "relFind", "relDec", "relMark", "relRecord", "throw", "done",
              "dead"}
Ended == {"idle", "done", "dead"}

NoJob     == [state |-> "none", owner |-> 0, made |-> 0, stalls |-> 0]
NoAttempt == [pc |-> "idle", charge |-> 0, failed |-> FALSE]

\* GREATEST(n - m, 0)
Minus(n, m) == IF n >= m THEN n - m ELSE 0

Init ==
  /\ balance = InitialBalance /\ reserved = 0
  /\ resv = [t \in Tasks |-> "none"]
  /\ spent = [t \in Tasks |-> 0] /\ refunded = [t \in Tasks |-> 0]
  /\ status = [t \in Tasks |-> "none"]
  /\ creditsReserved = [t \in Tasks |-> 0]
  /\ session = "active"
  /\ job = [t \in Tasks |-> NoJob]
  /\ dlq = [t \in Tasks |-> 0]
  /\ filing = [t \in Tasks |-> 0] /\ lost = [t \in Tasks |-> 0]
  /\ sub = [t \in Tasks |-> "idle"]
  /\ can = [r \in Tasks \X Cancels |-> "idle"]
  /\ att = [r \in Runs |-> NoAttempt]
  /\ crashes = 0 /\ faults = 0

-----------------------------------------------------------------------------
(* tasks.submit                                                            *)

SubmitAt(t, from, to) == sub[t] = from /\ sub' = [sub EXCEPT ![t] = to]

\* The session's status is read once, before anything is reserved.
SubmitStart(t) ==
  /\ session = "active"
  /\ SubmitAt(t, "idle", "check")
  /\ UNCHANGED <<rows, plane, queue, can, att, env>>

\* reserveCredits reads the balance row without a lock.
CheckBalance(t) ==
  /\ \/ balance >= reserved + Cost /\ SubmitAt(t, "check", "insert")
     \/ balance < reserved + Cost  /\ SubmitAt(t, "check", "rejected")
  /\ UNCHANGED <<rows, plane, queue, can, att, env>>

InsertReservation(t) ==
  /\ SubmitAt(t, "insert", "reserve")
  /\ resv' = [resv EXCEPT ![t] = "active"]
  /\ UNCHANGED <<balance, reserved, spent, refunded, plane, queue, can, att, env>>

IncrementReserved(t) ==
  /\ SubmitAt(t, "reserve", "create")
  /\ reserved' = reserved + Cost
  /\ UNCHANGED <<balance, resv, spent, refunded, plane, queue, can, att, env>>

\* Any error but the insufficient-credits one is logged and swallowed: the
\* task is created without a reservation.
ReserveFault(t) ==
  /\ faults < MaxFaults
  /\ \E pc \in {"check", "insert", "reserve"} : SubmitAt(t, pc, "createBare")
  /\ faults' = faults + 1
  /\ UNCHANGED <<rows, plane, queue, can, att, crashes>>

CreateTask(t) ==
  /\ \/ /\ SubmitAt(t, "create", "enqueue")
        /\ creditsReserved' = [creditsReserved EXCEPT ![t] = Cost]
     \/ /\ SubmitAt(t, "createBare", "enqueue")
        /\ UNCHANGED creditsReserved
  /\ status' = [status EXCEPT ![t] = "queued"]
  /\ UNCHANGED <<rows, session, queue, can, att, env>>

EnqueueJob(t) ==
  /\ SubmitAt(t, "enqueue", "done")
  /\ job' = [job EXCEPT ![t].state = "waiting"]
  /\ UNCHANGED <<rows, plane, letters, can, att, env>>

Submit(t) ==
  \/ SubmitStart(t) \/ CheckBalance(t) \/ InsertReservation(t)
  \/ IncrementReserved(t) \/ CreateTask(t) \/ EnqueueJob(t)

-----------------------------------------------------------------------------
(* tasks.cancel and tasks.updateStatus                                     *)

CancelAt(r, from, to) == can[r] = from /\ can' = [can EXCEPT ![r] = to]

\* verifyTaskAccess loads the row; a terminal task is refused.
CancelStart(t, c) ==
  /\ status[t] \notin Terminal \cup {"none"}
  /\ CancelAt(<<t, c>>, "idle", "cancel")
  /\ UNCHANGED <<rows, plane, queue, sub, att, env>>

CancelMarkLeaves(t, c) ==  \* mutant: nothing is released
  /\ CancelAt(<<t, c>>, "cancel", "dequeue")
  /\ status' = [status EXCEPT ![t] = "cancelled"]
  /\ UNCHANGED <<rows, creditsReserved, session, queue, sub, att, env>>

CancelMarkSilent(t, c) ==  \* mutant: the task's row is not written
  /\ CancelAt(<<t, c>>, "cancel", IF creditsReserved[t] > 0 THEN "find" ELSE "dequeue")
  /\ UNCHANGED <<rows, plane, queue, sub, att, env>>

CancelMark(t, c) ==
  /\ CancelAt(<<t, c>>, "cancel", IF creditsReserved[t] > 0 THEN "find" ELSE "dequeue")
  /\ status' = [status EXCEPT ![t] = "cancelled"]
  /\ UNCHANGED <<rows, creditsReserved, session, queue, sub, att, env>>

CancelFindAny(t, c) ==  \* mutant: a settled reservation is found too
  /\ CancelAt(<<t, c>>, "find", IF resv[t] # "none" THEN "release" ELSE "dequeue")
  /\ UNCHANGED <<rows, plane, queue, sub, att, env>>

CancelFind(t, c) ==
  /\ CancelAt(<<t, c>>, "find", IF resv[t] = "active" THEN "release" ELSE "dequeue")
  /\ UNCHANGED <<rows, plane, queue, sub, att, env>>

CancelRelease(t, c) ==
  /\ CancelAt(<<t, c>>, "release", "decrement")
  /\ resv' = [resv EXCEPT ![t] = "released"]
  /\ UNCHANGED <<balance, reserved, spent, refunded, plane, queue, sub, att, env>>

CancelDecrementUnclamped(t, c) ==  \* mutant: no GREATEST(.., 0)
  /\ CancelAt(<<t, c>>, "decrement", "record")
  /\ reserved' = reserved - Cost
  /\ UNCHANGED <<balance, resv, spent, refunded, plane, queue, sub, att, env>>

CancelDecrement(t, c) ==
  /\ CancelAt(<<t, c>>, "decrement", "record")
  /\ reserved' = Minus(reserved, Cost)
  /\ UNCHANGED <<balance, resv, spent, refunded, plane, queue, sub, att, env>>

CancelRecord(t, c) ==
  /\ CancelAt(<<t, c>>, "record", "dequeue")
  /\ refunded' = [refunded EXCEPT ![t] = @ + Cost]
  /\ UNCHANGED <<balance, reserved, resv, spent, plane, queue, sub, att, env>>

\* A job that a worker holds is locked: its remove() throws and is ignored.
CancelDequeue(t, c) ==
  /\ CancelAt(<<t, c>>, "dequeue", "done")
  /\ job' = IF job[t].state \in {"none", "active"} THEN job
            ELSE [job EXCEPT ![t].state = "removed"]
  /\ UNCHANGED <<rows, plane, letters, sub, att, env>>

Cancel(t, c) ==
  \/ CancelStart(t, c) \/ CancelMark(t, c) \/ CancelFind(t, c)
  \/ CancelRelease(t, c) \/ CancelDecrement(t, c) \/ CancelRecord(t, c)
  \/ CancelDequeue(t, c)

\* The requested status is written whatever the present one is.
UpdateStatus(t) ==
  /\ status[t] # "none"
  /\ \E s \in UserStatuses : status' = [status EXCEPT ![t] = s]
  /\ UNCHANGED <<rows, creditsReserved, session, queue, procs, env>>

-----------------------------------------------------------------------------
(* BullMQ: the job around the attempts                                     *)

Unstarted(t) == {k \in Attempts : att[<<t, k>>].pc = "idle"}

Deliver(t) ==
  /\ job[t].state = "waiting"
  /\ \E k \in Unstarted(t) :
       /\ \A j \in Unstarted(t) : k <= j
       /\ att' = [att EXCEPT ![<<t, k>>].pc = "begin"]
       /\ job' = [job EXCEPT ![t] = [@ EXCEPT !.state = "active", !.owner = k]]
  /\ UNCHANGED <<rows, plane, letters, sub, can, env>>

JobFailsOnce(t) ==  \* mutant: the listener takes every failure for the last
  /\ job' = [job EXCEPT ![t] = [@ EXCEPT
       !.state = IF job[t].made + 1 < MaxAttempts THEN "delayed" ELSE "failed",
       !.owner = 0, !.made = job[t].made + 1]]
  /\ filing' = [filing EXCEPT ![t] = @ + 1]
  /\ UNCHANGED <<dlq, lost>>

\* A failed attempt is retried after its backoff until attempts run out; the
\* worker's "failed" listener then begins to file the job, and nobody waits
\* for it.
JobFails(t) ==
  LET made == job[t].made + 1 IN
  \/ /\ made < MaxAttempts
     /\ job' = [job EXCEPT ![t] = [@ EXCEPT !.state = "delayed", !.owner = 0, !.made = made]]
     /\ UNCHANGED letters
  \/ /\ made >= MaxAttempts
     /\ job' = [job EXCEPT ![t] = [@ EXCEPT !.state = "failed", !.owner = 0, !.made = made]]
     /\ filing' = [filing EXCEPT ![t] = @ + 1]
     /\ UNCHANGED <<dlq, lost>>

\* moveToDLQ: the job is added to the dead letter queue, or never will be:
\* an add that fails is logged and swallowed, and the worker may die first.
FileJob(t) ==
  /\ filing[t] > 0
  /\ filing' = [filing EXCEPT ![t] = @ - 1]
  /\ \/ dlq' = [dlq EXCEPT ![t] = @ + 1] /\ UNCHANGED lost
     \/ lost' = [lost EXCEPT ![t] = @ + 1] /\ UNCHANGED dlq
  /\ UNCHANGED <<rows, plane, job, procs, env>>

Retry(t) ==
  /\ job[t].state = "delayed"
  /\ job' = [job EXCEPT ![t].state = "waiting"]
  /\ UNCHANGED <<rows, plane, letters, procs, env>>

\* withJobTimeout rejects; the processor it raced against keeps running.
Timeout(t) ==
  /\ Timeouts
  /\ job[t].state = "active" /\ att[<<t, job[t].owner>>].pc \notin Ended
  /\ JobFails(t)
  /\ UNCHANGED <<rows, plane, procs, env>>

Crash(t, k) ==
  /\ crashes < MaxCrashes
  /\ att[<<t, k>>].pc \notin Ended
  /\ att' = [att EXCEPT ![<<t, k>>].pc = "dead"]
  /\ crashes' = crashes + 1
  /\ UNCHANGED <<rows, plane, queue, sub, can, faults>>

\* The lock of a dead worker's job expires: the job waits again, or fails
\* outright, with attempts left and so unseen by the dead letter listener.
Stalled(t) ==
  /\ job[t].state = "active" /\ att[<<t, job[t].owner>>].pc = "dead"
  /\ job' = [job EXCEPT ![t] = [@ EXCEPT
                 !.owner = 0, !.stalls = job[t].stalls + 1,
                 !.state = IF job[t].stalls < MaxStalls THEN "waiting" ELSE "failed"]]
  /\ UNCHANGED <<rows, plane, letters, procs, env>>

Broker(t) == Deliver(t) \/ Retry(t) \/ Stalled(t)

-----------------------------------------------------------------------------
(* TaskProcessor: attempt k at task t                                      *)

AttemptAt(r, from, to) == att[r].pc = from /\ att' = [att EXCEPT ![r].pc = to]

Begin(t, k) ==
  /\ AttemptAt(<<t, k>>, "begin", "call")
  /\ status' = [status EXCEPT ![t] = "running"]
  /\ UNCHANGED <<rows, creditsReserved, session, queue, sub, can, env>>

\* fallbackProcess charges at most two credits when the orchestrator is down.
FallbackCharge(t) ==
  IF 0 < creditsReserved[t] /\ creditsReserved[t] < 2 THEN creditsReserved[t] ELSE 2

CallOrchestrator(t, k) ==
  /\ att[<<t, k>>].pc = "call"
  /\ \E n \in Charges \cup {FallbackCharge(t)} :
       att' = [att EXCEPT ![<<t, k>>] = [@ EXCEPT !.pc = "complete", !.charge = n]]
  /\ UNCHANGED <<rows, plane, queue, sub, can, env>>

CompleteOwned(t, k) ==  \* mutant: a late attempt's result is dropped
  /\ AttemptAt(<<t, k>>, "complete", IF att[<<t, k>>].charge > 0 THEN "find" ELSE "check")
  /\ status' = IF job[t].owner = k THEN [status EXCEPT ![t] = "completed"] ELSE status
  /\ UNCHANGED <<rows, creditsReserved, session, queue, sub, can, env>>

Complete(t, k) ==
  /\ AttemptAt(<<t, k>>, "complete", IF att[<<t, k>>].charge > 0 THEN "find" ELSE "check")
  /\ status' = [status EXCEPT ![t] = "completed"]
  /\ UNCHANGED <<rows, creditsReserved, session, queue, sub, can, env>>

ConsumeFind(t, k) ==
  /\ AttemptAt(<<t, k>>, "find", IF resv[t] = "active" THEN "deduct" ELSE "direct")
  /\ UNCHANGED <<rows, plane, queue, sub, can, env>>

ConsumeDeductAll(t, k) ==  \* mutant: the reserved amount is deducted
  /\ AttemptAt(<<t, k>>, "deduct", "mark")
  /\ balance' = Minus(balance, Cost)
  /\ reserved' = Minus(reserved, Cost)
  /\ UNCHANGED <<resv, spent, refunded, plane, queue, sub, can, env>>

ConsumeDeductUnmarked(t, k) ==  \* mutant: the reservation is not committed
  /\ AttemptAt(<<t, k>>, "deduct", "record")
  /\ balance' = Minus(balance, att[<<t, k>>].charge)
  /\ reserved' = Minus(reserved, Cost)
  /\ UNCHANGED <<resv, spent, refunded, plane, queue, sub, can, env>>

ConsumeDeduct(t, k) ==
  /\ AttemptAt(<<t, k>>, "deduct", "mark")
  /\ balance' = Minus(balance, att[<<t, k>>].charge)
  /\ reserved' = Minus(reserved, Cost)
  /\ UNCHANGED <<resv, spent, refunded, plane, queue, sub, can, env>>

ConsumeMark(t, k) ==
  /\ AttemptAt(<<t, k>>, "mark", "record")
  /\ resv' = [resv EXCEPT ![t] = "committed"]
  /\ UNCHANGED <<balance, reserved, spent, refunded, plane, queue, sub, can, env>>

\* No active reservation: the balance is charged directly.
ConsumeDirect(t, k) ==
  /\ AttemptAt(<<t, k>>, "direct", "record")
  /\ balance' = Minus(balance, att[<<t, k>>].charge)
  /\ UNCHANGED <<reserved, resv, spent, refunded, plane, queue, sub, can, env>>

ConsumeRecord(t, k) ==
  /\ AttemptAt(<<t, k>>, "record", "check")
  /\ spent' = [spent EXCEPT ![t] = @ + att[<<t, k>>].charge]
  /\ UNCHANGED <<balance, reserved, resv, refunded, plane, queue, sub, can, env>>

Submitted == {t \in Tasks : status[t] # "none"}

\* checkSessionCompletion reads every task of the session ...
CheckSession(t, k) ==
  /\ att[<<t, k>>].pc = "check"
  /\ att' = [att EXCEPT ![<<t, k>>] = [@ EXCEPT
       !.pc = IF \A u \in Submitted : status[u] \in Terminal THEN "close" ELSE "return",
       !.failed = \E u \in Submitted : status[u] = "failed"]]
  /\ UNCHANGED <<rows, plane, queue, sub, can, env>>

\* ... and then closes it on what it read.
CloseSession(t, k) ==
  /\ AttemptAt(<<t, k>>, "close", "return")
  /\ session' = IF att[<<t, k>>].failed THEN "failed" ELSE "completed"
  /\ UNCHANGED <<rows, status, creditsReserved, queue, sub, can, env>>

\* The answer of an attempt that no longer holds the job is ignored.
Return(t, k) ==
  /\ AttemptAt(<<t, k>>, "return", "done")
  /\ job' = IF job[t].owner = k THEN [job EXCEPT ![t] = [@ EXCEPT !.state = "completed", !.owner = 0]]
            ELSE job
  /\ UNCHANGED <<rows, plane, letters, sub, can, env>>

Catch(t, k) ==
  /\ AttemptAt(<<t, k>>, "catch", "relFind")
  /\ status' = [status EXCEPT ![t] = "failed"]
  /\ UNCHANGED <<rows, creditsReserved, session, queue, sub, can, env>>

ReleaseFindMarks(t, k) ==  \* mutant: marked released, never decremented
  /\ AttemptAt(<<t, k>>, "relFind", IF resv[t] = "active" THEN "relMark" ELSE "throw")
  /\ UNCHANGED <<rows, plane, queue, sub, can, env>>

ReleaseFind(t, k) ==
  /\ AttemptAt(<<t, k>>, "relFind", IF resv[t] = "active" THEN "relDec" ELSE "throw")
  /\ UNCHANGED <<rows, plane, queue, sub, can, env>>

ReleaseDecrement(t, k) ==
  /\ AttemptAt(<<t, k>>, "relDec", "relMark")
  /\ reserved' = Minus(reserved, Cost)
  /\ UNCHANGED <<balance, resv, spent, refunded, plane, queue, sub, can, env>>

ReleaseMark(t, k) ==
  /\ AttemptAt(<<t, k>>, "relMark", "relRecord")
  /\ resv' = [resv EXCEPT ![t] = "released"]
  /\ UNCHANGED <<balance, reserved, spent, refunded, plane, queue, sub, can, env>>

ReleaseRecord(t, k) ==
  /\ AttemptAt(<<t, k>>, "relRecord", "throw")
  /\ refunded' = [refunded EXCEPT ![t] = @ + Cost]
  /\ UNCHANGED <<balance, reserved, resv, spent, plane, queue, sub, can, env>>

Throw(t, k) ==
  /\ AttemptAt(<<t, k>>, "throw", "done")
  /\ IF job[t].owner = k THEN JobFails(t) ELSE UNCHANGED queue
  /\ UNCHANGED <<rows, plane, sub, can, env>>

\* Where an attempt goes when the call it is about to make fails.  Of the
\* calls that make up "call" the first two stand before the try block.
AfterFault(pc) ==
  CASE pc \in {"begin", "return", "catch", "relFind", "relDec", "relMark", "relRecord"} -> {"throw"}
    [] pc = "call" -> {"throw", "catch"}
    [] pc \in {"complete", "check", "close"} -> {"catch"}
    [] pc \in {"find", "deduct", "mark", "direct", "record"} -> {"check"}

Fault(t, k) ==
  /\ faults < MaxFaults
  /\ att[<<t, k>>].pc \notin Ended \cup {"throw"}
  /\ \E to \in AfterFault(att[<<t, k>>].pc) : att' = [att EXCEPT ![<<t, k>>].pc = to]
  /\ faults' = faults + 1
  /\ UNCHANGED <<rows, plane, queue, sub, can, crashes>>

Work(t, k) ==
  \/ Begin(t, k) \/ CallOrchestrator(t, k) \/ Complete(t, k)
  \/ ConsumeFind(t, k) \/ ConsumeDeduct(t, k) \/ ConsumeMark(t, k)
  \/ ConsumeDirect(t, k) \/ ConsumeRecord(t, k)
  \/ CheckSession(t, k) \/ CloseSession(t, k) \/ Return(t, k)
  \/ Catch(t, k) \/ ReleaseFind(t, k) \/ ReleaseDecrement(t, k)
  \/ ReleaseMark(t, k) \/ ReleaseRecord(t, k) \/ Throw(t, k)

-----------------------------------------------------------------------------
Next ==
  \/ \E t \in Tasks : \/ Submit(t) \/ ReserveFault(t) \/ UpdateStatus(t)
                      \/ Broker(t) \/ Timeout(t) \/ FileJob(t)
  \/ \E t \in Tasks, c \in Cancels : Cancel(t, c)
  \/ \E t \in Tasks, k \in Attempts : Work(t, k) \/ Crash(t, k) \/ Fault(t, k)

Spec == Init /\ [][Next]_vars

\* Live workers keep going and BullMQ delivers; a request once begun is
\* finished by the API.  Nothing obliges a user to submit or to cancel.
Fairness ==
  /\ \A t \in Tasks : WF_vars(Broker(t)) /\ WF_vars(Submit(t) /\ sub[t] # "idle")
  /\ \A t \in Tasks, k \in Attempts : WF_vars(Work(t, k))

FairSpec == Spec /\ Fairness

-----------------------------------------------------------------------------
(* Types.                                                                  *)
JobStates == {"none", "waiting", "active", "delayed", "completed", "failed", "removed"}
JobRecords == [state : JobStates, owner : Nat, made : Nat, stalls : Nat]
AttemptRecords == [pc : AttemptPC, charge : Nat, failed : BOOLEAN]

TypeOK ==
  /\ balance \in Nat /\ reserved \in Nat
  /\ resv \in [Tasks -> {"none", "active", "committed", "released"}]
  /\ spent \in [Tasks -> Nat] /\ refunded \in [Tasks -> Nat]
  /\ status \in [Tasks -> Statuses \cup {"none"}]
  /\ creditsReserved \in [Tasks -> {0, Cost}]
  /\ session \in {"active", "completed", "failed"}
  /\ job \in [Tasks -> JobRecords]
  /\ dlq \in [Tasks -> Nat] /\ filing \in [Tasks -> Nat] /\ lost \in [Tasks -> Nat]
  /\ sub \in [Tasks -> SubmitPC]
  /\ can \in [Tasks \X Cancels -> CancelPC]
  /\ att \in [Runs -> AttemptRecords]
  /\ crashes \in Nat /\ faults \in Nat

-----------------------------------------------------------------------------
(* Safety.                                                                 *)

\* Reservations whose credits the counter may still hold: active and not
\* just deducted by a worker that has yet to mark them, or marked released
\* by a cancel request that has yet to decrement the counter.
Settling(t) == \E k \in Attempts : att[<<t, k>>].pc \in {"mark", "relMark"}
Held == {t \in Tasks : \/ resv[t] = "active" /\ ~ Settling(t)
                       \/ \E c \in Cancels : can[<<t, c>>] = "decrement"}

\* Whatever the interleaving of submits, cancels, retries, late attempts,
\* crashes and failing calls, credit_balances.reserved never counts more
\* than the reservations still held: settling one never leaves its credits
\* behind (processor.ts consumeCredits, releaseCredits; tasks.ts
\* releaseCredits).
ReservedWithinHeld == reserved <= Cost * Cardinality(Held)

\* A task is paid for once: its consumption rows never add up to more than
\* one execution may cost, however often it is retried.
MaxCharge == CHOOSE n \in Charges \cup {2} : \A m \in Charges \cup {2} : m <= n
ChargedOnce == \A t \in Tasks : spent[t] <= MaxCharge

\* The "failed" listener files a job once, when its last attempt has failed,
\* and never before: not for a late answer of an attempt that timed out, nor
\* when the job was handed out again.  From then on its one entry is in the
\* dead letter queue, on its way there, or lost.
Filed(t) == dlq[t] + filing[t] + lost[t]
FiledOnce == \A t \in Tasks : Filed(t) = IF job[t].made >= MaxAttempts THEN 1 ELSE 0

\* BullMQ will hand the job out, or finds that its worker died.
InQueue(t) ==
  \/ job[t].state \in {"waiting", "delayed"}
  \/ job[t].state = "active" /\ att[<<t, job[t].owner>>].pc = "dead"
AtWork(t, pcs) == \E k \in Attempts : att[<<t, k>>].pc \in pcs

\* No call fails, and a worker that dies holds its job and has it handed out
\* again; every task costs something.
Unhampered ==
  /\ faults = 0 /\ (crashes = 0 \/ (~ Timeouts /\ crashes <= MaxStalls))
  /\ Cost > 0 /\ 0 \notin Charges

\* An active reservation always has somebody left to settle it: the submit
\* that made it, a job yet to be handed out, or an attempt at work.  No
\* interleaving of cancels, timeouts and late attempts leaves it to nobody.
SettlerRemains ==
  Unhampered => \A t \in Tasks : resv[t] = "active" =>
    \/ sub[t] \in {"reserve", "create", "enqueue"} \/ InQueue(t)
    \/ AtWork(t, {"begin", "call", "complete", "find", "deduct", "mark"})

\* A task shown as queued or running always has somebody left to run it,
\* as long as no call fails and no worker dies: neither a cancel that removes
\* the job nor a timeout leaves its row behind.
RunnerRemains ==
  faults = 0 /\ crashes = 0 => \A t \in Tasks : status[t] \in {"queued", "running"} =>
    sub[t] = "enqueue" \/ InQueue(t) \/ AtWork(t, {"begin", "call", "complete"})

-----------------------------------------------------------------------------
(* Liveness, under FairSpec.                                               *)

\* Every task that is queued or running ends, whatever times out, dies or
\* fails within the bounds.
TaskEnds == \A t \in Tasks : status[t] \in {"queued", "running"} ~> status[t] \in Terminal

\* Every reservation is settled in the end, whichever of the attempts and
\* the cancel requests gets to it.
ReservationSettles == \A t \in Tasks : resv[t] = "active" ~> resv[t] # "active"
=============================================================================
