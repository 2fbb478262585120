------------------------- MODULE TaskCreditsProofs -------------------------
(***************************************************************************)
(* Machine-checked proofs about TaskCredits: its types, and that the       *)
(* reserved counter never holds more than the reservations still open, for *)
(* every number of tasks, cancel requests, attempts, crashes and faults.   *)
(***************************************************************************)
EXTENDS MCTaskCredits, FiniteSums, TLAPS, FiniteSetTheorems

-----------------------------------------------------------------------------
(* Types.                                                                  *)

LEMMA MinusNat == \A n, m \in Nat : Minus(n, m) \in Nat
  BY DEF Minus

LEMMA AttemptMoves ==
  ASSUME TypeOK, NEW r \in Runs, NEW from, NEW to \in AttemptPC, AttemptAt(r, from, to)
  PROVE  att' \in [Runs -> AttemptRecords]
  BY DEF TypeOK, AttemptAt, AttemptRecords

LEMMA JobMoves ==
  ASSUME TypeOK, NEW t \in Tasks, NEW s \in JobStates, job' = [job EXCEPT ![t].state = s]
  PROVE  job' \in [Tasks -> JobRecords]
  BY DEF TypeOK, JobRecords

LEMMA TypeInit == Init => TypeOK
  BY CreditsNat DEF Init, TypeOK, NoJob, NoAttempt, JobStates, JobRecords,
                    AttemptRecords, SubmitPC, CancelPC,
                    AttemptPC, Statuses, Runs

\* What a submit or a cancel request does keeps the types.
LEMMA TypeSubmit ==
  ASSUME TypeOK, NEW t \in Tasks, Submit(t) \/ ReserveFault(t)
  PROVE  TypeOK'
<1> USE CreditsNat DEF TypeOK, SubmitAt, SubmitPC, rows, plane, queue, letters, env
<1>1. CASE SubmitStart(t)
  BY <1>1 DEF SubmitStart
<1>2. CASE CheckBalance(t)
  BY <1>2 DEF CheckBalance
<1>3. CASE InsertReservation(t)
  BY <1>3 DEF InsertReservation
<1>4. CASE IncrementReserved(t)
  BY <1>4 DEF IncrementReserved
<1>5. CASE CreateTask(t)
  BY <1>5 DEF CreateTask, Statuses
<1>6. CASE EnqueueJob(t)
  BY <1>6 DEF EnqueueJob, JobStates, JobRecords
<1>7. CASE ReserveFault(t)
  BY <1>7, BoundsNat DEF ReserveFault
<1> QED BY <1>1, <1>2, <1>3, <1>4, <1>5, <1>6, <1>7 DEF Submit

LEMMA TypeCancel ==
  ASSUME TypeOK, NEW t \in Tasks, NEW c \in Cancels, Cancel(t, c)
  PROVE  TypeOK'
<1> USE CreditsNat DEF TypeOK, CancelAt, CancelPC, rows, plane, queue, letters, env
<1>1. CASE CancelStart(t, c)
  BY <1>1 DEF CancelStart
<1>2. CASE CancelMark(t, c)
  BY <1>2 DEF CancelMark, Statuses, Terminal
<1>3. CASE CancelFind(t, c)
  BY <1>3 DEF CancelFind
<1>4. CASE CancelRelease(t, c)
  BY <1>4 DEF CancelRelease
<1>5. CASE CancelDecrement(t, c)
  BY <1>5, MinusNat DEF CancelDecrement
<1>6. CASE CancelRecord(t, c)
  BY <1>6 DEF CancelRecord
<1>7. CASE CancelDequeue(t, c)
  BY <1>7 DEF CancelDequeue, JobStates, JobRecords
<1> QED BY <1>1, <1>2, <1>3, <1>4, <1>5, <1>6, <1>7 DEF Cancel

LEMMA TypeJobFails ==
  ASSUME TypeOK, NEW t \in Tasks, JobFails(t)
  PROVE  /\ job' \in [Tasks -> JobRecords]
         /\ dlq' \in [Tasks -> Nat] /\ filing' \in [Tasks -> Nat] /\ lost' \in [Tasks -> Nat]
<1> DEFINE made == job[t].made + 1
<1>1. made \in Nat
  BY DEF TypeOK, JobRecords
<1>d. /\ job \in [Tasks -> JobRecords]
      /\ dlq \in [Tasks -> Nat] /\ filing \in [Tasks -> Nat] /\ lost \in [Tasks -> Nat]
  BY DEF TypeOK
<1> HIDE DEF made
<1>2. CASE /\ job' = [job EXCEPT ![t] = [@ EXCEPT !.state = "delayed", !.owner = 0, !.made = made]]
           /\ UNCHANGED letters
  BY <1>1, <1>d, <1>2 DEF JobStates, JobRecords, letters
<1>3. CASE /\ job' = [job EXCEPT ![t] = [@ EXCEPT !.state = "failed", !.owner = 0, !.made = made]]
           /\ filing' = [filing EXCEPT ![t] = @ + 1] /\ UNCHANGED <<dlq, lost>>
  <2>1. job' \in [Tasks -> JobRecords]
    BY <1>1, <1>d, <1>3 DEF JobStates, JobRecords
  <2>2. filing' \in [Tasks -> Nat]
    BY <1>d, <1>3
  <2> QED BY <1>d, <1>3, <2>1, <2>2
<1> QED BY <1>2, <1>3 DEF JobFails, made

\* The listener at its filing: only the dead letter queue sees it.
Files == UNCHANGED <<rows, plane, job, procs, env>>

LEMMA FileJobFiles == \A t \in Tasks : FileJob(t) => Files
BY DEF FileJob, Files

LEMMA TypeFileJob ==
  ASSUME TypeOK, NEW t \in Tasks, FileJob(t)
  PROVE  TypeOK'
<1>1. /\ dlq' \in [Tasks -> Nat] /\ filing' \in [Tasks -> Nat] /\ lost' \in [Tasks -> Nat]
  BY DEF FileJob, TypeOK
<1>2. Files
  BY DEF FileJob, Files
<1> QED BY <1>1, <1>2 DEF Files, rows, plane, procs, env, TypeOK

\* What the broker, a timeout, a crash or a failing call does.
LEMMA TypeBroker ==
  ASSUME TypeOK, NEW t \in Tasks, Broker(t) \/ Timeout(t) \/ UpdateStatus(t)
  PROVE  TypeOK'
<1> USE DEF TypeOK, rows, plane, queue, letters, procs, env
<1>1. CASE Deliver(t)
  <2>1. PICK k \in Unstarted(t) :
               /\ att' = [att EXCEPT ![<<t, k>>].pc = "begin"]
               /\ job' = [job EXCEPT ![t] = [@ EXCEPT !.state = "active", !.owner = k]]
    BY <1>1 DEF Deliver
  <2>2. k \in Nat /\ <<t, k>> \in Runs
    BY <2>1, BoundsNat DEF Unstarted, Runs, Attempts
  <2>3. att' \in [Runs -> AttemptRecords]
    BY <2>1, <2>2 DEF AttemptPC, AttemptRecords
  <2>4. job' \in [Tasks -> JobRecords]
    BY <2>1, <2>2 DEF JobStates, JobRecords
  <2> QED BY <1>1, <2>3, <2>4 DEF Deliver
<1>2. CASE Retry(t)
  BY <1>2 DEF Retry, JobStates, JobRecords
<1>3. CASE Stalled(t)
  <2>1. job' \in [Tasks -> JobRecords]
    <3> DEFINE s == IF job[t].stalls < MaxStalls THEN "waiting" ELSE "failed"
    <3>1. s \in JobStates
      BY DEF JobStates
    <3>2. job' = [job EXCEPT ![t] = [@ EXCEPT !.owner = 0, !.stalls = job[t].stalls + 1, !.state = s]]
      BY <1>3 DEF Stalled
    <3>3. job[t] \in JobRecords /\ job[t].stalls + 1 \in Nat
      BY DEF JobRecords
    <3>4. [job[t] EXCEPT !.owner = 0, !.stalls = job[t].stalls + 1, !.state = s] \in JobRecords
      <4> HIDE DEF s
      <4> QED BY <3>1, <3>3 DEF JobRecords
    <3> HIDE DEF s
    <3> QED BY <3>2, <3>4
  <2> QED BY <1>3, <2>1 DEF Stalled
<1>4. CASE Timeout(t)
  BY <1>4, TypeJobFails DEF Timeout
<1>5. CASE UpdateStatus(t)
  BY <1>5, StatusesKnown DEF UpdateStatus, Statuses, Terminal
<1> QED BY <1>1, <1>2, <1>3, <1>4, <1>5 DEF Broker

LEMMA TypeWork ==
  ASSUME TypeOK, NEW t \in Tasks, NEW k \in Attempts, Work(t, k)
  PROVE  TypeOK'
<1>0. <<t, k>> \in Runs /\ att[<<t, k>>] \in AttemptRecords
  BY DEF Runs, TypeOK
<1>a. att[<<t, k>>].charge \in Nat /\ att[<<t, k>>].pc \in AttemptPC
  BY <1>0 DEF AttemptRecords
<1> USE <1>0, <1>a, CreditsNat DEF TypeOK, AttemptPC, rows, plane, queue, letters, env
<1>1. CASE Begin(t, k)
  BY <1>1, AttemptMoves DEF Begin, Statuses
<1>2. CASE CallOrchestrator(t, k)
  <2>1. PICK n \in Charges \cup {FallbackCharge(t)} :
               att' = [att EXCEPT ![<<t, k>>] = [@ EXCEPT !.pc = "complete", !.charge = n]]
    BY <1>2 DEF CallOrchestrator
  <2>2. n \in Nat
    BY <2>1 DEF FallbackCharge
  <2>3. att' \in [Runs -> AttemptRecords]
    BY <2>1, <2>2 DEF AttemptRecords
  <2> QED BY <1>2, <2>3 DEF CallOrchestrator
<1>3. CASE Complete(t, k)
  BY <1>3, AttemptMoves DEF Complete, Statuses, Terminal
<1>4. CASE ConsumeFind(t, k)
  BY <1>4, AttemptMoves DEF ConsumeFind
<1>5. CASE ConsumeDeduct(t, k)
  BY <1>5, AttemptMoves, MinusNat DEF ConsumeDeduct
<1>6. CASE ConsumeMark(t, k)
  BY <1>6, AttemptMoves DEF ConsumeMark
<1>7. CASE ConsumeDirect(t, k)
  BY <1>7, AttemptMoves, MinusNat DEF ConsumeDirect
<1>8. CASE ConsumeRecord(t, k)
  BY <1>8, AttemptMoves DEF ConsumeRecord
<1>9. CASE CheckSession(t, k)
  <2>1. att' \in [Runs -> AttemptRecords]
    <3> DEFINE pc == IF \A u \in Submitted : status[u] \in Terminal THEN "close" ELSE "return"
               any == \E u \in Submitted : status[u] = "failed"
    <3>1. pc \in AttemptPC /\ any \in BOOLEAN
      OBVIOUS
    <3>2. att' = [att EXCEPT ![<<t, k>>] = [@ EXCEPT !.pc = pc, !.failed = any]]
      BY <1>9 DEF CheckSession
    <3> HIDE DEF pc, any
    <3> QED BY <3>1, <3>2 DEF AttemptRecords
  <2> QED BY <1>9, <2>1 DEF CheckSession
<1>10. CASE CloseSession(t, k)
  BY <1>10, AttemptMoves DEF CloseSession
<1>11. CASE Return(t, k)
  <2>1. job' \in [Tasks -> JobRecords]
    <3>1. CASE job' = [job EXCEPT ![t] = [@ EXCEPT !.state = "completed", !.owner = 0]]
      BY <3>1 DEF JobStates, JobRecords
    <3> QED BY <1>11, <3>1 DEF Return
  <2> QED BY <1>11, <2>1, AttemptMoves DEF Return
<1>12. CASE Catch(t, k)
  BY <1>12, AttemptMoves DEF Catch, Statuses, Terminal
<1>13. CASE ReleaseFind(t, k)
  BY <1>13, AttemptMoves DEF ReleaseFind
<1>14. CASE ReleaseDecrement(t, k)
  BY <1>14, AttemptMoves, MinusNat DEF ReleaseDecrement
<1>15. CASE ReleaseMark(t, k)
  BY <1>15, AttemptMoves DEF ReleaseMark
<1>16. CASE ReleaseRecord(t, k)
  BY <1>16, AttemptMoves DEF ReleaseRecord
<1>17. CASE Throw(t, k)
  BY <1>17, AttemptMoves, TypeJobFails DEF Throw
<1> QED BY <1>1, <1>2, <1>3, <1>4, <1>5, <1>6, <1>7, <1>8, <1>9, <1>10, <1>11,
           <1>12, <1>13, <1>14, <1>15, <1>16, <1>17 DEF Work

LEMMA TypeCrashFault ==
  ASSUME TypeOK, NEW t \in Tasks, NEW k \in Attempts, Crash(t, k) \/ Fault(t, k)
  PROVE  TypeOK'
<1>0. <<t, k>> \in Runs /\ att[<<t, k>>] \in AttemptRecords
  BY DEF Runs, TypeOK
<1>a. att[<<t, k>>].charge \in Nat /\ att[<<t, k>>].pc \in AttemptPC
  BY <1>0 DEF AttemptRecords
<1> USE <1>0, <1>a, BoundsNat DEF TypeOK, AttemptPC, rows, plane, queue, letters
<1>1. CASE Crash(t, k)
  <2>1. att' \in [Runs -> AttemptRecords]
    BY <1>1 DEF Crash, AttemptRecords
  <2> QED BY <1>1, <2>1 DEF Crash
<1>2. CASE Fault(t, k)
  <2>1. PICK to \in AfterFault(att[<<t, k>>].pc) : att' = [att EXCEPT ![<<t, k>>].pc = to]
    BY <1>2 DEF Fault
  <2>2. to \in AttemptPC
    BY <1>2, <2>1 DEF Fault, AfterFault, Ended
  <2>3. att' \in [Runs -> AttemptRecords]
    BY <2>1, <2>2 DEF AttemptRecords
  <2> QED BY <1>2, <2>3 DEF Fault
<1> QED BY <1>1, <1>2

LEMMA TypeStep == TypeOK /\ [Next]_vars => TypeOK'
<1> SUFFICES ASSUME TypeOK, [Next]_vars PROVE TypeOK'
  OBVIOUS
<1>1. CASE UNCHANGED vars
  BY <1>1 DEF vars, rows, plane, queue, letters, procs, env, TypeOK
<1>2. CASE Next
  BY <1>2, TypeSubmit, TypeCancel, TypeBroker, TypeFileJob, TypeWork, TypeCrashFault DEF Next
<1> QED BY <1>1, <1>2

\* Every reachable state is well typed: no status, counter or program counter
\* ever leaves its range, at any size.
THEOREM TypeCorrect == Spec => []TypeOK
<1> QED BY TypeInit, TypeStep, PTL DEF Spec

-----------------------------------------------------------------------------
(* The strengthening of ReservedWithinHeld.  The counter is raised one     *)
(* statement after the reservation row is inserted, so the credits of a    *)
(* submit between the two are not in it yet; and until the task's row is   *)
(* created nobody else can know of the task.                               *)

Early   == {"idle", "check", "insert", "reserve", "create", "createBare", "rejected"}
Raised  == {"create", "createBare", "enqueue", "done"}
Counted == {t \in Held : sub[t] \in Raised}

Fresh == \A t \in Tasks : sub[t] \in Early =>
  /\ status[t] = "none" /\ job[t].state = "none"
  /\ \A c \in Cancels : can[<<t, c>>] = "idle"
  /\ \A k \in Attempts : att[<<t, k>>].pc = "idle"

Reserving == \A t \in Tasks : sub[t] = "reserve" => resv[t] = "active"

IInv == /\ TypeOK /\ Fresh /\ Reserving
        /\ reserved <= Cost * Cardinality(Counted)

-----------------------------------------------------------------------------
(* Counting.                                                               *)

LEMMA CountedFinite ==
  ASSUME NEW S \in SUBSET Tasks
  PROVE  IsFiniteSet(S) /\ Cardinality(S) \in Nat
  BY TasksFinite, FS_Subset, FS_CardinalityType

LEMMA TimesMonotone == \A c, m, n \in Nat : m <= n => c * m <= c * n
<1> SUFFICES ASSUME NEW c \in Nat, NEW m \in Nat, NEW n \in Nat, m <= n
             PROVE  c * m <= c * n
  OBVIOUS
<1>1. PICK d \in Nat : n = m + d
  BY n - m \in Nat
<1>2. c * n = c * m + c * d /\ c * m \in Nat /\ c * d \in Nat
  BY <1>1
<1> QED BY <1>2

\* A set that keeps every member keeps the bound.
LEMMA BoundGrows ==
  ASSUME NEW A \in SUBSET Tasks, NEW B \in SUBSET Tasks, A \subseteq B,
         NEW n \in Nat, n <= Cost * Cardinality(A)
  PROVE  n <= Cost * Cardinality(B)
<1>1. Cardinality(A) \in Nat /\ Cardinality(B) \in Nat /\ Cardinality(A) <= Cardinality(B)
  BY CountedFinite, FS_Subset
<1>2. /\ Cost * Cardinality(A) <= Cost * Cardinality(B)
      /\ Cost * Cardinality(A) \in Nat /\ Cost * Cardinality(B) \in Nat
  BY <1>1, TimesMonotone, CreditsNat
<1> QED BY <1>2

\* Losing one member and Cost credits keeps it too.
LEMMA BoundDrops ==
  ASSUME NEW A \in SUBSET Tasks, NEW B \in SUBSET Tasks, NEW t, A \ {t} \subseteq B,
         NEW n \in Nat, n <= Cost * Cardinality(A)
  PROVE  Minus(n, Cost) <= Cost * Cardinality(B)
<1> DEFINE D == A \ {t}
<1>1. Cardinality(A) \in Nat /\ Cardinality(D) \in Nat /\ Cardinality(B) \in Nat
  BY CountedFinite
<1>2. Cardinality(A) <= Cardinality(D) + 1
  BY <1>1, CountedFinite, FS_RemoveElement
<1>3. Cost * Cardinality(A) <= Cost * Cardinality(D) + Cost
  <2>1. Cost * Cardinality(A) <= Cost * (Cardinality(D) + 1)
    BY <1>1, <1>2, TimesMonotone, CreditsNat
  <2>2. Cost * (Cardinality(D) + 1) = Cost * Cardinality(D) + Cost
    BY <1>1, CreditsNat
  <2> QED BY <2>1, <2>2
<1>4. Minus(n, Cost) <= Cost * Cardinality(D)
  <2>1. Cost * Cardinality(D) \in Nat /\ Cost * Cardinality(A) \in Nat /\ Cost \in Nat
    BY <1>1, CreditsNat
  <2> HIDE DEF D
  <2> QED BY <2>1, <1>3 DEF Minus
<1>5. Minus(n, Cost) \in Nat
  BY MinusNat, CreditsNat
<1> QED BY <1>4, <1>5, BoundGrows

\* Gaining one member makes room for Cost credits.
LEMMA BoundAdds ==
  ASSUME NEW A \in SUBSET Tasks, NEW B \in SUBSET Tasks, NEW t \in Tasks, t \notin A,
         A \cup {t} \subseteq B, NEW n \in Nat, n <= Cost * Cardinality(A)
  PROVE  n + Cost <= Cost * Cardinality(B)
<1> DEFINE D == A \cup {t}
<1>1. Cardinality(A) \in Nat /\ Cardinality(D) = Cardinality(A) + 1
  BY CountedFinite, FS_AddElement
<1>2. Cost * Cardinality(D) = Cost * Cardinality(A) + Cost
  BY <1>1, CreditsNat
<1>3. n + Cost <= Cost * Cardinality(D) /\ n + Cost \in Nat
  <2>1. Cost * Cardinality(A) \in Nat /\ Cost \in Nat
    BY <1>1, CreditsNat
  <2> QED BY <2>1, <1>2
<1> QED BY <1>3, BoundGrows

-----------------------------------------------------------------------------
(* Frames: whom a step may disturb.                                        *)

\* All that a step about the submitted task t may change.
Local(t) ==
  /\ sub[t] \notin Early /\ sub' = sub
  /\ \A u \in Tasks \ {t} :
       /\ status'[u] = status[u] /\ job'[u] = job[u] /\ resv'[u] = resv[u]
       /\ \A c \in Cancels : can'[<<u, c>>] = can[<<u, c>>]
       /\ \A k \in Attempts : att'[<<u, k>>] = att[<<u, k>>]

LEMMA LocalFresh ==
  ASSUME Fresh, Reserving, NEW t \in Tasks, Local(t)
  PROVE  Fresh' /\ Reserving'
<1>1. Fresh'
  BY DEF Fresh, Local
<1>2. Reserving'
  BY DEF Reserving, Local, Early
<1> QED BY <1>1, <1>2

LEMMA CancelLocal ==
  ASSUME TypeOK, Fresh, NEW t \in Tasks, NEW c \in Cancels, Cancel(t, c)
  PROVE  Local(t)
<1> USE DEF TypeOK, Fresh, Local, CancelAt, rows, plane, queue, letters
<1>1. CASE CancelStart(t, c)
  BY <1>1 DEF CancelStart
<1>2. CASE CancelMark(t, c)
  BY <1>2 DEF CancelMark
<1>3. CASE CancelFind(t, c)
  BY <1>3 DEF CancelFind
<1>4. CASE CancelRelease(t, c)
  BY <1>4 DEF CancelRelease
<1>5. CASE CancelDecrement(t, c)
  BY <1>5 DEF CancelDecrement
<1>6. CASE CancelRecord(t, c)
  BY <1>6 DEF CancelRecord
<1>7. CASE CancelDequeue(t, c)
  BY <1>7 DEF CancelDequeue
<1> QED BY <1>1, <1>2, <1>3, <1>4, <1>5, <1>6, <1>7 DEF Cancel

LEMMA BrokerLocal ==
  ASSUME TypeOK, Fresh, NEW t \in Tasks, Broker(t) \/ Timeout(t) \/ UpdateStatus(t)
  PROVE  Local(t)
<1> USE DEF TypeOK, Fresh, Local, rows, plane, queue, letters, procs
<1>1. CASE Deliver(t)
  BY <1>1 DEF Deliver
<1>2. CASE Retry(t)
  BY <1>2 DEF Retry
<1>3. CASE Stalled(t)
  BY <1>3 DEF Stalled
<1>4. CASE Timeout(t)
  BY <1>4 DEF Timeout, JobFails
<1>5. CASE UpdateStatus(t)
  BY <1>5 DEF UpdateStatus
<1> QED BY <1>1, <1>2, <1>3, <1>4, <1>5 DEF Broker

LEMMA WorkLocal ==
  ASSUME TypeOK, Fresh, NEW t \in Tasks, NEW k \in Attempts,
         Work(t, k) \/ Crash(t, k) \/ Fault(t, k)
  PROVE  Local(t)
<1>0. att[<<t, k>>].pc # "idle" => sub[t] \notin Early
  BY DEF Fresh
<1> USE <1>0 DEF TypeOK, Local, AttemptAt, rows, plane, queue, letters
<1>1. CASE Begin(t, k)
  BY <1>1 DEF Begin
<1>2. CASE CallOrchestrator(t, k)
  BY <1>2 DEF CallOrchestrator
<1>3. CASE Complete(t, k)
  BY <1>3 DEF Complete
<1>4. CASE ConsumeFind(t, k)
  BY <1>4 DEF ConsumeFind
<1>5. CASE ConsumeDeduct(t, k)
  BY <1>5 DEF ConsumeDeduct
<1>6. CASE ConsumeMark(t, k)
  BY <1>6 DEF ConsumeMark
<1>7. CASE ConsumeDirect(t, k)
  BY <1>7 DEF ConsumeDirect
<1>8. CASE ConsumeRecord(t, k)
  BY <1>8 DEF ConsumeRecord
<1>9. CASE CheckSession(t, k)
  BY <1>9 DEF CheckSession
<1>10. CASE CloseSession(t, k)
  BY <1>10 DEF CloseSession
<1>11. CASE Return(t, k)
  BY <1>11 DEF Return
<1>12. CASE Catch(t, k)
  BY <1>12 DEF Catch
<1>13. CASE ReleaseFind(t, k)
  BY <1>13 DEF ReleaseFind
<1>14. CASE ReleaseDecrement(t, k)
  BY <1>14 DEF ReleaseDecrement
<1>15. CASE ReleaseMark(t, k)
  BY <1>15 DEF ReleaseMark
<1>16. CASE ReleaseRecord(t, k)
  BY <1>16 DEF ReleaseRecord
<1>17. CASE Throw(t, k)
  BY <1>17 DEF Throw, JobFails
<1>18. CASE Crash(t, k)
  BY <1>18 DEF Crash, Ended
<1>19. CASE Fault(t, k)
  BY <1>19 DEF Fault, Ended
<1> QED BY <1>1, <1>2, <1>3, <1>4, <1>5, <1>6, <1>7, <1>8, <1>9, <1>10, <1>11,
           <1>12, <1>13, <1>14, <1>15, <1>16, <1>17, <1>18, <1>19 DEF Work

-----------------------------------------------------------------------------
(* What each step does to the counter and to the reservations it counts.   *)

Bounded == reserved <= Cost * Cardinality(Counted)

\* The counter is untouched and every counted reservation stays counted.
Keeps == reserved' = reserved /\ Counted \subseteq Counted'

\* One reservation is settled, and its credits leave the counter.
Drops(t) == reserved' = Minus(reserved, Cost) /\ Counted \ {t} \subseteq Counted'

\* One reservation enters the counter.
Raises(t) == reserved' = reserved + Cost /\ t \notin Counted /\ Counted \cup {t} \subseteq Counted'

LEMMA CountedSubset == Counted \in SUBSET Tasks /\ Counted' \in SUBSET Tasks
  BY DEF Counted, Held

LEMMA StepBounded ==
  ASSUME TypeOK, Bounded, NEW t \in Tasks, Keeps \/ Drops(t) \/ Raises(t)
  PROVE  Bounded'
<1>0. reserved \in Nat
  BY DEF TypeOK
<1>1. CASE Keeps
  BY <1>0, <1>1, CountedSubset, BoundGrows DEF Keeps, Bounded
<1>2. CASE Drops(t)
  BY <1>0, <1>2, CountedSubset, BoundDrops DEF Drops, Bounded
<1>3. CASE Raises(t)
  BY <1>0, <1>3, CountedSubset, BoundAdds DEF Raises, Bounded
<1> QED BY <1>1, <1>2, <1>3

\* A step that brings no attempt between its deduction and its mark, and
\* touches no reservation, keeps what is counted.
LEMMA KeepsIfSettled ==
  ASSUME \A u \in Tasks : Settling(u)' => Settling(u),
         UNCHANGED <<reserved, resv, sub, can>>
  PROVE  Keeps
  BY DEF Keeps, Counted, Held

LEMMA KeepsIfRaised ==
  ASSUME UNCHANGED <<reserved, can, att>>,
         \A u \in Tasks : resv[u] = "active" => resv'[u] = "active",
         \A u \in Tasks : sub[u] \in Raised => sub'[u] \in Raised
  PROVE  Keeps
  BY DEF Keeps, Counted, Held, Settling

LEMMA SubmitCounts ==
  ASSUME IInv, NEW t \in Tasks, Submit(t) \/ ReserveFault(t)
  PROVE  Fresh' /\ Reserving' /\ (Keeps \/ Raises(t))
<1> USE DEF IInv, TypeOK, SubmitAt, Early, Raised, rows, plane, queue, letters
<1>1. CASE SubmitStart(t) \/ CheckBalance(t)
  <2>1. Fresh' /\ Reserving'
    BY <1>1 DEF SubmitStart, CheckBalance, Fresh, Reserving
  <2>2. Keeps
    BY <1>1, KeepsIfRaised DEF SubmitStart, CheckBalance
  <2> QED BY <2>1, <2>2
<1>2. CASE InsertReservation(t)
  <2>1. Fresh' /\ Reserving'
    BY <1>2 DEF InsertReservation, Fresh, Reserving
  <2>2. Keeps
    BY <1>2, KeepsIfRaised DEF InsertReservation
  <2> QED BY <2>1, <2>2
<1>3. CASE IncrementReserved(t)
  <2>1. Fresh' /\ Reserving'
    BY <1>3 DEF IncrementReserved, Fresh, Reserving
  <2>2. t \in Held'
    BY <1>3 DEF IncrementReserved, Fresh, Reserving, Held, Settling
  <2>3. Raises(t)
    BY <1>3, <2>2 DEF IncrementReserved, Raises, Counted, Held, Settling
  <2> QED BY <2>1, <2>3
<1>4. CASE CreateTask(t)
  BY <1>4 DEF CreateTask, Fresh, Reserving, Keeps, Counted, Held, Settling
<1>5. CASE EnqueueJob(t)
  <2>1. Fresh' /\ Reserving'
    BY <1>5 DEF EnqueueJob, Fresh, Reserving
  <2>2. Keeps
    BY <1>5 DEF EnqueueJob, Keeps, Counted, Held, Settling
  <2> QED BY <2>1, <2>2
<1>6. CASE ReserveFault(t)
  <2>1. PICK pc \in {"check", "insert", "reserve"} : SubmitAt(t, pc, "createBare")
    BY <1>6 DEF ReserveFault
  <2>2. Fresh' /\ Reserving'
    BY <1>6, <2>1 DEF ReserveFault, Fresh, Reserving
  <2>3. Keeps
    BY <1>6, <2>1, KeepsIfRaised DEF ReserveFault
  <2> QED BY <2>2, <2>3
<1> QED BY <1>1, <1>2, <1>3, <1>4, <1>5, <1>6 DEF Submit

LEMMA CancelCounts ==
  ASSUME IInv, NEW t \in Tasks, NEW c \in Cancels, Cancel(t, c)
  PROVE  Keeps \/ Drops(t)
<1> USE DEF IInv, TypeOK, CancelAt, Counted, Held, Settling, rows, plane, queue, letters
<1>1. CASE CancelStart(t, c)
  BY <1>1 DEF CancelStart, Keeps
<1>2. CASE CancelMark(t, c)
  BY <1>2 DEF CancelMark, Keeps
<1>3. CASE CancelFind(t, c)
  BY <1>3 DEF CancelFind, Keeps
<1>4. CASE CancelRelease(t, c)
  <2>1. \A u \in Tasks : u \in Held => u \in Held'
    BY <1>4 DEF CancelRelease
  <2> QED BY <1>4, <2>1 DEF CancelRelease, Keeps
<1>5. CASE CancelDecrement(t, c)
  <2>1. \A u \in Tasks \ {t} : u \in Held => u \in Held'
    BY <1>5 DEF CancelDecrement
  <2> QED BY <1>5, <2>1 DEF CancelDecrement, Drops
<1>6. CASE CancelRecord(t, c)
  BY <1>6 DEF CancelRecord, Keeps
<1>7. CASE CancelDequeue(t, c)
  BY <1>7 DEF CancelDequeue, Keeps
<1> QED BY <1>1, <1>2, <1>3, <1>4, <1>5, <1>6, <1>7 DEF Cancel

LEMMA BrokerCounts ==
  ASSUME IInv, NEW t \in Tasks, Broker(t) \/ Timeout(t) \/ UpdateStatus(t)
  PROVE  Keeps
<1> USE DEF IInv, TypeOK, rows, plane, queue, letters, procs
<1>1. CASE Deliver(t)
  <2>1. \A u \in Tasks : Settling(u)' => Settling(u)
    <3>1. PICK k \in Unstarted(t) : att' = [att EXCEPT ![<<t, k>>].pc = "begin"]
      BY <1>1 DEF Deliver
    <3>2. k \in Attempts /\ <<t, k>> \in Runs
      BY DEF Unstarted, Runs
    <3> QED BY <3>1, <3>2 DEF Settling, Runs, AttemptRecords
  <2> QED BY <1>1, <2>1, KeepsIfSettled DEF Deliver
<1>2. CASE Retry(t) \/ Stalled(t) \/ Timeout(t) \/ UpdateStatus(t)
  BY <1>2 DEF Retry, Stalled, Timeout, UpdateStatus, Keeps, Counted, Held, Settling
<1> QED BY <1>1, <1>2 DEF Broker

LEMMA MovesAway ==
  ASSUME TypeOK, NEW t \in Tasks, NEW k \in Attempts, NEW r \in AttemptRecords,
         att' = [att EXCEPT ![<<t, k>>] = r], r.pc \notin {"mark", "relMark"}
  PROVE  \A u \in Tasks : Settling(u)' => Settling(u)
  BY DEF TypeOK, Settling, Runs

LEMMA WorkCounts ==
  ASSUME IInv, NEW t \in Tasks, NEW k \in Attempts,
         Work(t, k) \/ Crash(t, k) \/ Fault(t, k)
  PROVE  Keeps \/ Drops(t)
<1>0. <<t, k>> \in Runs /\ att \in [Runs -> AttemptRecords]
  BY DEF IInv, TypeOK, Runs
<1>a. att' \in [Runs -> AttemptRecords]
  BY TypeWork, TypeCrashFault DEF IInv, TypeOK
<1> USE <1>0, <1>a DEF AttemptAt, rows, plane, queue, letters
<1>1. CASE \/ Begin(t, k) \/ CallOrchestrator(t, k) \/ Complete(t, k) \/ ConsumeFind(t, k)
           \/ ConsumeDirect(t, k) \/ ConsumeRecord(t, k) \/ CheckSession(t, k)
           \/ CloseSession(t, k) \/ Return(t, k) \/ Catch(t, k) \/ ReleaseFind(t, k)
           \/ ReleaseRecord(t, k) \/ Throw(t, k) \/ Crash(t, k) \/ Fault(t, k)
  <2>1. att'[<<t, k>>].pc \notin {"mark", "relMark"}
    <3>1. CASE Begin(t, k) \/ Complete(t, k) \/ ConsumeDirect(t, k)
               \/ ConsumeRecord(t, k) \/ CloseSession(t, k) \/ Return(t, k)
      BY <3>1 DEF Begin, Complete, ConsumeDirect, ConsumeRecord, CloseSession, Return, AttemptRecords
    <3>4. CASE CallOrchestrator(t, k)
      BY <3>4 DEF CallOrchestrator, AttemptRecords
    <3>5. CASE CheckSession(t, k)
      BY <3>5 DEF CheckSession, AttemptRecords
    <3>2. CASE \/ ConsumeFind(t, k) \/ Catch(t, k) \/ ReleaseFind(t, k) \/ ReleaseRecord(t, k)
               \/ Throw(t, k) \/ Crash(t, k)
      BY <3>2 DEF ConsumeFind, Catch, ReleaseFind, ReleaseRecord, Throw, Crash, AttemptRecords
    <3>3. CASE Fault(t, k)
      <4>1. att[<<t, k>>].pc \in AttemptPC \ (Ended \cup {"throw"})
        BY <3>3 DEF Fault, AttemptRecords
      <4>2. PICK to \in AfterFault(att[<<t, k>>].pc) : att' = [att EXCEPT ![<<t, k>>].pc = to]
        BY <3>3 DEF Fault
      <4>3. to \notin {"mark", "relMark"}
        BY <4>1, <4>2 DEF AfterFault, AttemptPC, Ended
      <4> QED BY <4>2, <4>3 DEF AttemptRecords
    <3> QED BY <1>1, <3>1, <3>2, <3>3, <3>4, <3>5
  <2>2. att' = [att EXCEPT ![<<t, k>>] = att'[<<t, k>>]]
    BY <1>1 DEF Begin, CallOrchestrator, Complete, ConsumeFind, ConsumeDirect, ConsumeRecord,
       CheckSession, CloseSession, Return, Catch, ReleaseFind, ReleaseRecord, Throw, Crash, Fault
  <2>3. UNCHANGED <<reserved, resv, sub, can>>
    BY <1>1 DEF Begin, CallOrchestrator, Complete, ConsumeFind, ConsumeDirect, ConsumeRecord,
       CheckSession, CloseSession, Return, Catch, ReleaseFind, ReleaseRecord, Throw, Crash, Fault
  <2> QED BY <2>1, <2>2, <2>3, KeepsIfSettled, MovesAway DEF IInv
<1>2. CASE ConsumeDeduct(t, k) \/ ReleaseDecrement(t, k)
  BY <1>2 DEF ConsumeDeduct, ReleaseDecrement, Drops, Counted, Held, Settling, Runs
<1>3. CASE ConsumeMark(t, k) \/ ReleaseMark(t, k)
  <2>1. Settling(t) /\ resv'[t] # "active" /\ UNCHANGED <<reserved, can, sub>>
    BY <1>3 DEF ConsumeMark, ReleaseMark, Settling, IInv, TypeOK
  <2>2. \A u \in Tasks \ {t} : resv'[u] = resv[u]
    BY <1>3 DEF ConsumeMark, ReleaseMark, IInv, TypeOK
  <2>3. \A u \in Tasks \ {t}, j \in Attempts : att'[<<u, j>>] = att[<<u, j>>]
    BY <1>3 DEF ConsumeMark, ReleaseMark, Runs
  <2>4. \A u \in Tasks : u \in Held => u \in Held'
    BY <2>1, <2>2, <2>3 DEF Held, Settling
  <2>5. Counted \subseteq Counted'
    BY <2>1, <2>4 DEF Counted, Held
  <2> QED BY <2>1, <2>5 DEF Keeps
<1> QED BY <1>1, <1>2, <1>3 DEF Work

-----------------------------------------------------------------------------
LEMMA InvInit == Init => IInv
<1> SUFFICES ASSUME Init PROVE IInv
  OBVIOUS
<1>1. Fresh /\ Reserving
  BY DEF Init, Fresh, Reserving, NoJob, NoAttempt, Runs
<1>2. Bounded
  <2>1. Counted = {}
    BY DEF Init, Counted, Held, Settling, NoAttempt, Runs
  <2> QED BY <2>1, FS_EmptySet, CreditsNat DEF Init, Bounded
<1> QED BY <1>1, <1>2, TypeInit DEF IInv, Bounded

LEMMA InvStep == IInv /\ [Next]_vars => IInv'
<1> SUFFICES ASSUME IInv, [Next]_vars PROVE IInv'
  OBVIOUS
<1>0. TypeOK'
  BY TypeStep DEF IInv
<1>1. CASE UNCHANGED vars \/ Files
  <2>1. UNCHANGED <<reserved, resv, status, job, sub, can, att>>
    BY <1>1 DEF Files, vars, rows, plane, queue, procs
  <2> QED BY <1>0, <2>1 DEF IInv, Fresh, Reserving, Counted, Held, Settling
<1>2. ASSUME NEW t \in Tasks, Submit(t) \/ ReserveFault(t)
      PROVE  IInv'
  BY <1>0, <1>2, SubmitCounts, StepBounded DEF IInv, Bounded
<1>3. ASSUME NEW t \in Tasks, NEW c \in Cancels, Cancel(t, c)
      PROVE  IInv'
  BY <1>0, <1>3, CancelCounts, CancelLocal, LocalFresh, StepBounded DEF IInv, Bounded
<1>4. ASSUME NEW t \in Tasks, Broker(t) \/ Timeout(t) \/ UpdateStatus(t)
      PROVE  IInv'
  BY <1>0, <1>4, BrokerCounts, BrokerLocal, LocalFresh, StepBounded DEF IInv, Bounded
<1>5. ASSUME NEW t \in Tasks, NEW k \in Attempts, Work(t, k) \/ Crash(t, k) \/ Fault(t, k)
      PROVE  IInv'
  BY <1>0, <1>5, WorkCounts, WorkLocal, LocalFresh, StepBounded DEF IInv, Bounded
<1> QED BY <1>1, <1>2, <1>3, <1>4, <1>5, FileJobFiles DEF Next

LEMMA InvImplies == IInv => ReservedWithinHeld
<1> SUFFICES ASSUME IInv PROVE ReservedWithinHeld
  OBVIOUS
<1> QED BY CountedSubset, BoundGrows DEF IInv, TypeOK, Counted, Held, ReservedWithinHeld

\* The reserved counter never holds more than the reservations still open,
\* whatever submits, cancels, retries, late attempts, crashes and failing
\* calls interleave.
THEOREM ReservedBounded == Spec => []ReservedWithinHeld
<1> QED BY InvInit, InvStep, InvImplies, PTL DEF Spec

-----------------------------------------------------------------------------
(* The audit trail.  LedgerExplainsBalance is inductive with the types: a  *)
(* charge is deducted from the balance in the step that opens it, and      *)
(* recorded in the step that closes it.                                    *)

Open(r) == att[r].pc \in {"mark", "record"}

LEMMA RunsFinite ==
  /\ IsFiniteSet(Runs) /\ IsFiniteSet(Unrecorded) /\ IsFiniteSet(Unrecorded')
  /\ Unrecorded \subseteq Runs /\ Unrecorded' \subseteq Runs
<1>1. IsFiniteSet(Attempts)
  BY BoundsNat, FS_Interval DEF Attempts
<1>2. IsFiniteSet(Runs)
  BY <1>1, TasksFinite, FS_Product DEF Runs
<1>3. Unrecorded \in SUBSET Runs /\ Unrecorded' \in SUBSET Runs
  BY DEF Unrecorded
<1> QED BY <1>2, <1>3, FS_Subset

LEMMA Sums ==
  ASSUME TypeOK
  PROVE  /\ SumFunctionOnSet(spent, Tasks) \in Nat
         /\ SumFunctionOnSet(Charge, Unrecorded) \in Nat
         /\ \A r \in Runs : Charge[r] = att[r].charge /\ att[r].charge \in Nat
<1>1. \A r \in Runs : Charge[r] = att[r].charge /\ att[r].charge \in Nat
  BY DEF TypeOK, Charge, AttemptRecords
<1> QED BY <1>1, RunsFinite, TasksFinite, SumNat DEF TypeOK

LEMMA SumsNext ==
  ASSUME TypeOK'
  PROVE  /\ SumFunctionOnSet(spent', Tasks) \in Nat
         /\ SumFunctionOnSet(Charge', Unrecorded') \in Nat
<1>1. \A r \in Runs : Charge'[r] \in Nat
  BY DEF TypeOK, Charge, AttemptRecords
<1> QED BY <1>1, RunsFinite, TasksFinite, SumNat DEF TypeOK

\* Nothing happens to the balance, to the rows or to the open attempts.
LEMMA ExplainedSame ==
  ASSUME TypeOK, TypeOK', UNCHANGED <<balance, spent>>,
         \A r \in Runs : /\ Open(r)' <=> Open(r)
                         /\ Open(r) => att'[r].charge = att[r].charge
  PROVE  Explained' = Explained
<1>1. Unrecorded' = Unrecorded
  BY DEF Unrecorded, Open
<1>2. \A r \in Unrecorded : Charge'[r] = Charge[r]
  BY DEF Unrecorded, Open, Charge
<1>3. SumFunctionOnSet(Charge', Unrecorded) = SumFunctionOnSet(Charge, Unrecorded)
  BY <1>2, RunsFinite, SumAgree
<1> QED BY <1>1, <1>3 DEF Explained

\* An attempt deducts its charge and will record it.
LEMMA ExplainedOpens ==
  ASSUME TypeOK, TypeOK', NEW r \in Runs, ~ Open(r), Open(r)', spent' = spent,
         att'[r].charge = att[r].charge, \A q \in Runs \ {r} : att'[q] = att[q]
  PROVE  Explained' + balance = Explained + balance' + att[r].charge
<1>1. Unrecorded' = Unrecorded \cup {r} /\ r \notin Unrecorded
  BY DEF Unrecorded, Open
<1>2. \A q \in Runs : Charge'[q] = Charge[q] /\ Charge[q] \in Nat
  BY Sums DEF Charge
<1>3. SumFunctionOnSet(Charge', Unrecorded') = SumFunctionOnSet(Charge, Unrecorded')
  BY <1>2, RunsFinite, SumAgree
<1>4. SumFunctionOnSet(Charge, Unrecorded \cup {r}) = SumFunctionOnSet(Charge, Unrecorded) + Charge[r]
  BY <1>1, <1>2, RunsFinite, SumAdd
<1>5. /\ SumFunctionOnSet(spent, Tasks) \in Nat
      /\ SumFunctionOnSet(Charge, Unrecorded) \in Nat
      /\ Charge[r] = att[r].charge /\ att[r].charge \in Nat
      /\ balance \in Nat /\ balance' \in Nat
  BY Sums DEF TypeOK
<1> QED BY <1>1, <1>3, <1>4, <1>5 DEF Explained

\* An attempt records what it deducted.
LEMMA ExplainedCloses ==
  ASSUME TypeOK, TypeOK', NEW t \in Tasks, NEW r \in Runs, Open(r), ~ Open(r)',
         balance' = balance, spent' = [spent EXCEPT ![t] = @ + att[r].charge],
         att'[r].charge = att[r].charge, \A q \in Runs \ {r} : att'[q] = att[q]
  PROVE  Explained' = Explained
<1>1. Unrecorded' = Unrecorded \ {r} /\ r \in Unrecorded
  BY DEF Unrecorded, Open
<1>2. \A q \in Runs : Charge'[q] = Charge[q] /\ Charge[q] \in Nat
  BY Sums DEF Charge
<1>3. SumFunctionOnSet(Charge', Unrecorded') = SumFunctionOnSet(Charge, Unrecorded')
  BY <1>2, RunsFinite, SumAgree
<1>4. SumFunctionOnSet(Charge, Unrecorded) = Charge[r] + SumFunctionOnSet(Charge, Unrecorded \ {r})
  BY <1>1, <1>2, RunsFinite, SumSplit
<1>5. SumFunctionOnSet(spent', Tasks) + spent[t] = SumFunctionOnSet(spent, Tasks) + spent'[t]
  <2>1. /\ \A u \in Tasks : spent[u] \in Nat /\ spent'[u] \in Nat
        /\ \A u \in Tasks \ {t} : spent'[u] = spent[u]
    BY DEF TypeOK
  <2>2. \A g : (\A u \in Tasks : g[u] \in Nat) /\ (\A u \in Tasks \ {t} : g[u] = spent[u])
              => SumFunctionOnSet(g, Tasks) + spent[t] = SumFunctionOnSet(spent, Tasks) + g[t]
    BY <2>1, TasksFinite, SumChange
  <2> QED BY <2>1, <2>2
<1>6. spent'[t] = spent[t] + att[r].charge /\ spent[t] \in Nat
  BY DEF TypeOK
<1>7. SumFunctionOnSet(spent', Tasks) \in Nat /\ SumFunctionOnSet(Charge, Unrecorded \ {r}) \in Nat
  <2>1. IsFiniteSet(Unrecorded \ {r})
    BY RunsFinite, FS_RemoveElement
  <2> QED BY <1>2, <2>1, RunsFinite, TasksFinite, SumNat DEF TypeOK
<1>8. /\ SumFunctionOnSet(spent, Tasks) \in Nat
      /\ Charge[r] = att[r].charge /\ att[r].charge \in Nat /\ balance \in Nat
  BY Sums DEF TypeOK
<1>9. SumFunctionOnSet(spent', Tasks) = SumFunctionOnSet(spent, Tasks) + att[r].charge
  BY <1>5, <1>6, <1>7, <1>8
<1> QED BY <1>1, <1>3, <1>4, <1>7, <1>8, <1>9 DEF Explained

\* Only a crash or a failing call is counted as one.
LEMMA EnvKept ==
  ASSUME \/ \E t \in Tasks : Submit(t) \/ UpdateStatus(t) \/ Broker(t) \/ Timeout(t) \/ FileJob(t)
         \/ \E t \in Tasks, c \in Cancels : Cancel(t, c)
         \/ \E t \in Tasks, k \in Attempts : Work(t, k)
  PROVE  UNCHANGED env
<1>1. ASSUME NEW t \in Tasks,
             Submit(t) \/ UpdateStatus(t) \/ Broker(t) \/ Timeout(t) \/ FileJob(t)
      PROVE  UNCHANGED env
  BY <1>1 DEF Submit, SubmitStart, CheckBalance, InsertReservation, IncrementReserved, CreateTask,
     EnqueueJob, UpdateStatus, Broker, Deliver, Retry, Stalled, Timeout, FileJob
<1>2. ASSUME NEW t \in Tasks, NEW c \in Cancels, Cancel(t, c) PROVE UNCHANGED env
  BY <1>2 DEF Cancel, CancelStart, CancelMark, CancelFind, CancelRelease, CancelDecrement,
     CancelRecord, CancelDequeue
<1>3. ASSUME NEW t \in Tasks, NEW k \in Attempts, Work(t, k) PROVE UNCHANGED env
  BY <1>3 DEF Work, Begin, CallOrchestrator, Complete, ConsumeFind, ConsumeDeduct, ConsumeMark,
     ConsumeDirect, ConsumeRecord, CheckSession, CloseSession, Return, Catch, ReleaseFind,
     ReleaseDecrement, ReleaseMark, ReleaseRecord, Throw
<1> QED BY <1>1, <1>2, <1>3

LEMMA CalmBefore == ASSUME TypeOK, [Next]_vars, Calm' PROVE Calm /\ UNCHANGED env
<1>1. crashes \in Nat /\ faults \in Nat
  BY DEF TypeOK
<1>2. ASSUME UNCHANGED env PROVE Calm
  BY <1>2 DEF env, Calm
<1>3. ASSUME NEW t \in Tasks, ReserveFault(t) PROVE FALSE
  BY <1>1, <1>3 DEF ReserveFault, Calm
<1>4. ASSUME NEW t \in Tasks, NEW k \in Attempts, Crash(t, k) \/ Fault(t, k) PROVE FALSE
  BY <1>1, <1>4 DEF Crash, Fault, Calm
<1> QED BY <1>2, <1>3, <1>4, EnvKept DEF Next, vars

\* A step of an attempt from one place to another.
LEMMA Advances ==
  ASSUME TypeOK, NEW r \in Runs, NEW from, NEW to, AttemptAt(r, from, to)
  PROVE  /\ att'[r].charge = att[r].charge /\ att[r].pc = from /\ att'[r].pc = to
         /\ \A q \in Runs \ {r} : att'[q] = att[q]
BY DEF TypeOK, AttemptAt, AttemptRecords

LEMMA WorkExplained ==
  ASSUME TypeOK, TypeOK', LedgerExplainsBalance, Calm, NEW t \in Tasks, NEW k \in Attempts, Work(t, k)
  PROVE  LedgerExplainsBalance'
<1> DEFINE r == <<t, k>>
<1>1. r \in Runs
  BY DEF Runs
<1>2. ASSUME Explained' = Explained, balance' = balance PROVE LedgerExplainsBalance'
  BY <1>2 DEF LedgerExplainsBalance
<1>3. ASSUME UNCHANGED <<balance, spent>>, \A q \in Runs \ {r} : att'[q] = att[q],
             Open(r)' <=> Open(r), Open(r) => att'[r].charge = att[r].charge
      PROVE  LedgerExplainsBalance'
  BY <1>2, <1>3, ExplainedSame DEF Open
<1>4. ASSUME ~ Open(r), Open(r)', spent' = spent, balance' = Minus(balance, att[r].charge),
             att'[r].charge = att[r].charge, \A q \in Runs \ {r} : att'[q] = att[q]
      PROVE  LedgerExplainsBalance'
  <2>1. Explained' + balance = Explained + balance' + att[r].charge
    BY <1>1, <1>4, ExplainedOpens
  <2>2. /\ Explained \in Nat /\ Explained' \in Nat /\ balance \in Nat
        /\ att[r].charge \in Nat /\ InitialBalance \in Nat
    <3>1. Explained \in Nat
      BY Sums DEF Explained, TypeOK
    <3>2. Explained' \in Nat
      BY SumsNext DEF Explained, TypeOK
    <3> QED BY <1>1, <3>1, <3>2, Sums, CreditsNat DEF TypeOK
  <2>3. Explained >= InitialBalance /\ (balance > 0 => Explained = InitialBalance)
    BY DEF LedgerExplainsBalance
  <2> HIDE DEF r
  <2>4. Explained' >= InitialBalance /\ (balance' > 0 => Explained' = InitialBalance)
    BY <1>4, <2>1, <2>2, <2>3 DEF Minus
  <2> QED BY <2>4 DEF LedgerExplainsBalance
<1>5. CASE ConsumeDeduct(t, k) \/ ConsumeDirect(t, k)
  BY <1>1, <1>4, <1>5, Advances DEF ConsumeDeduct, ConsumeDirect, Open
<1>6. CASE ConsumeRecord(t, k)
  <2>1. AttemptAt(r, "record", "check") /\ balance' = balance
        /\ spent' = [spent EXCEPT ![t] = @ + att[r].charge]
    BY <1>6 DEF ConsumeRecord
  <2>2. /\ att'[r].charge = att[r].charge /\ Open(r) /\ ~ Open(r)'
        /\ \A q \in Runs \ {r} : att'[q] = att[q]
    BY <1>1, <2>1, Advances DEF Open
  <2> HIDE DEF r
  <2> QED BY <1>1, <1>2, <2>1, <2>2, ExplainedCloses
<1>7. CASE CallOrchestrator(t, k)
  <2>1. /\ att[r].pc = "call" /\ att'[r].pc = "complete" /\ UNCHANGED <<balance, spent>>
        /\ \A q \in Runs \ {r} : att'[q] = att[q]
    BY <1>1, <1>7 DEF CallOrchestrator, TypeOK, rows
  <2> QED BY <2>1, <1>3 DEF Open
<1>8. CASE CheckSession(t, k)
  <2>1. /\ att[r].pc = "check" /\ att'[r].pc \in {"close", "return"} /\ UNCHANGED <<balance, spent>>
        /\ \A q \in Runs \ {r} : att'[q] = att[q]
    <3> DEFINE pc == IF \A u \in Submitted : status[u] \in Terminal THEN "close" ELSE "return"
               any == \E u \in Submitted : status[u] = "failed"
    <3>1. /\ att[r].pc = "check" /\ UNCHANGED <<balance, spent>> /\ pc \in {"close", "return"}
          /\ att' = [att EXCEPT ![r] = [@ EXCEPT !.pc = pc, !.failed = any]]
      BY <1>8 DEF CheckSession, rows
    <3> HIDE DEF pc, any
    <3> QED BY <1>1, <3>1 DEF TypeOK, AttemptRecords
  <2> QED BY <2>1, <1>3 DEF Open
<1>9. CASE ConsumeMark(t, k)
  BY <1>1, <1>3, <1>9, Advances DEF ConsumeMark, Open
<1>10. CASE \/ Begin(t, k) \/ Complete(t, k) \/ ConsumeFind(t, k) \/ CloseSession(t, k) \/ Return(t, k)
  BY <1>1, <1>3, <1>10, Advances
     DEF Begin, Complete, ConsumeFind, CloseSession, Return, Open, rows
<1>11. CASE \/ Catch(t, k) \/ ReleaseFind(t, k) \/ ReleaseDecrement(t, k) \/ ReleaseMark(t, k)
            \/ ReleaseRecord(t, k) \/ Throw(t, k)
  BY <1>1, <1>3, <1>11, Advances
     DEF Catch, ReleaseFind, ReleaseDecrement, ReleaseMark, ReleaseRecord, Throw, Open, rows
<1> QED BY <1>5, <1>6, <1>7, <1>8, <1>9, <1>10, <1>11 DEF Work

LEMMA OthersExplained ==
  ASSUME TypeOK, TypeOK', LedgerExplainsBalance, Calm,
         \/ \E t \in Tasks : Submit(t) \/ UpdateStatus(t) \/ Broker(t) \/ Timeout(t)
         \/ \E t \in Tasks, c \in Cancels : Cancel(t, c)
         \/ UNCHANGED vars \/ Files
  PROVE  LedgerExplainsBalance'
<1>1. ASSUME UNCHANGED <<balance, spent, att>> PROVE LedgerExplainsBalance'
  BY <1>1, ExplainedSame DEF Open, LedgerExplainsBalance
<1>2. ASSUME NEW t \in Tasks, Deliver(t) PROVE LedgerExplainsBalance'
  <2>1. PICK k \in Unstarted(t) : att' = [att EXCEPT ![<<t, k>>].pc = "begin"]
    BY <1>2 DEF Deliver
  <2>2. UNCHANGED <<balance, spent>> /\ <<t, k>> \in Runs /\ att[<<t, k>>].pc = "idle"
    BY <1>2 DEF Deliver, rows, Unstarted, Runs
  <2>3. AttemptAt(<<t, k>>, "idle", "begin")
    BY <2>1, <2>2 DEF AttemptAt
  <2>4. \A q \in Runs : (Open(q)' <=> Open(q)) /\ (Open(q) => att'[q].charge = att[q].charge)
    BY <2>2, <2>3, Advances DEF Open
  <2> QED BY <2>2, <2>4, ExplainedSame DEF LedgerExplainsBalance
<1>3. ASSUME NEW t \in Tasks, Submit(t) \/ UpdateStatus(t) \/ Retry(t) \/ Stalled(t) \/ Timeout(t)
      PROVE  LedgerExplainsBalance'
  BY <1>1, <1>3 DEF Submit, SubmitStart, CheckBalance, InsertReservation, IncrementReserved,
     CreateTask, EnqueueJob, UpdateStatus, Retry, Stalled, Timeout, rows, procs
<1>4. ASSUME NEW t \in Tasks, NEW c \in Cancels, Cancel(t, c) PROVE LedgerExplainsBalance'
  BY <1>1, <1>4 DEF Cancel, CancelStart, CancelMark, CancelFind, CancelRelease, CancelDecrement,
     CancelRecord, CancelDequeue, rows
<1>5. CASE UNCHANGED vars \/ Files
  BY <1>1, <1>5 DEF Files, vars, rows, procs
<1> QED BY <1>2, <1>3, <1>4, <1>5 DEF Broker

\* As long as nothing fails and no worker dies, every credit gone from the
\* balance is in a consumption row or in one an attempt is about to write,
\* for any number of tasks, attempts and cancel requests.
THEOREM TrailComplete == Spec => []LedgerExplainsBalance
<1>1. ASSUME Init PROVE LedgerExplainsBalance
  <2>1. Unrecorded = {}
    BY <1>1 DEF Init, Unrecorded, NoAttempt
  <2>2. TypeOK
    BY <1>1, TypeInit
  <2>3. SumFunctionOnSet(spent, Tasks) = 0
    BY <1>1, TasksFinite, SumZero DEF Init
  <2>4. SumFunctionOnSet(Charge, Unrecorded) = 0
    BY <2>1, SumEmpty
  <2> QED BY <1>1, <2>3, <2>4, CreditsNat DEF Init, Explained, LedgerExplainsBalance
<1>2. ASSUME TypeOK, LedgerExplainsBalance, [Next]_vars PROVE LedgerExplainsBalance'
  <2>1. TypeOK'
    BY <1>2, TypeStep
  <2>2. CASE ~ Calm'
    BY <2>2 DEF LedgerExplainsBalance
  <2>3. CASE Calm'
    <3>1. Calm /\ UNCHANGED env
      BY <1>2, <2>3, CalmBefore
    <3>2. ASSUME NEW t \in Tasks, NEW k \in Attempts, Crash(t, k) \/ Fault(t, k) PROVE FALSE
      BY <1>2, <3>1, <3>2 DEF Crash, Fault, env, TypeOK
    <3>3. ASSUME NEW t \in Tasks, ReserveFault(t) PROVE FALSE
      BY <1>2, <3>1, <3>3 DEF ReserveFault, env, TypeOK
    <3> QED BY <1>2, <2>1, <3>1, <3>2, <3>3, WorkExplained, OthersExplained, FileJobFiles DEF Next
  <2> QED BY <2>2, <2>3
<1> QED BY <1>1, <1>2, TypeCorrect, PTL DEF Spec

-----------------------------------------------------------------------------
(* Attempts, stalls and crashes.  Each attempt handed out has been made,   *)
(* was lost with its worker, or holds the job; each stall has a dead       *)
(* attempt of its own, which no longer holds the job.                      *)

Started(t) == {k \in Attempts : att[<<t, k>>].pc # "idle"}
Dead(t) == {k \in Attempts : att[<<t, k>>].pc = "dead"}
Live(t, k) == att[<<t, k>>].pc \notin Ended

\* A job between two attempts, or before the first.
Between == {"none", "waiting", "delayed"}

Tally(t) ==
  /\ job[t].owner # 0 <=> job[t].state = "active"
  /\ job[t].owner # 0 => /\ job[t].owner \in Attempts
                         /\ att[<<t, job[t].owner>>].pc \notin {"idle", "done"}
  /\ Cardinality(Started(t)) <=
       job[t].made + job[t].stalls + (IF job[t].state \in Between THEN 0 ELSE 1)
  /\ job[t].made <= MaxAttempts
  /\ job[t].state \in Between \cup {"active"} => job[t].made < MaxAttempts
  /\ Filed(t) = IF job[t].made >= MaxAttempts THEN 1 ELSE 0
  /\ job[t].stalls <= Cardinality(Dead(t) \ {job[t].owner})
  /\ Cardinality(Dead(t)) <= crashes
  /\ ~ Timeouts => \A k \in Attempts : Live(t, k) => job[t].owner = k

Tallied == crashes <= MaxCrashes /\ \A t \in Tasks : Tally(t)

LEMMA AttemptsCounted ==
  /\ IsFiniteSet(Attempts) /\ Cardinality(Attempts) = MaxAttempts + MaxCrashes
  /\ \A k \in Attempts : k \in Nat /\ k # 0
  /\ \A S \in SUBSET Attempts : IsFiniteSet(S) /\ Cardinality(S) \in Nat
<1>1. IsFiniteSet(Attempts) /\ Cardinality(Attempts) = MaxAttempts + MaxCrashes
  BY BoundsNat, FS_Interval DEF Attempts
<1>2. \A k \in Attempts : k \in Nat /\ k # 0
  BY BoundsNat DEF Attempts
<1>3. \A S \in SUBSET Attempts : IsFiniteSet(S) /\ Cardinality(S) \in Nat
  BY <1>1, FS_Subset, FS_CardinalityType
<1> QED BY <1>1, <1>2, <1>3

LEMMA LettersKept == UNCHANGED letters => \A u \in Tasks : Filed(u)' = Filed(u)
BY DEF letters, Filed

LEMMA TallyTypes ==
  ASSUME TypeOK, NEW t \in Tasks
  PROVE  /\ job[t] \in JobRecords /\ job[t].made \in Nat /\ job[t].stalls \in Nat
         /\ job[t].owner \in Nat /\ Filed(t) \in Nat /\ crashes \in Nat
         /\ Cardinality(Started(t)) \in Nat /\ Cardinality(Dead(t)) \in Nat
         /\ Cardinality(Dead(t) \ {job[t].owner}) \in Nat
         /\ \A k \in Attempts : att[<<t, k>>] \in AttemptRecords
<1>1. Started(t) \in SUBSET Attempts /\ Dead(t) \in SUBSET Attempts
      /\ Dead(t) \ {job[t].owner} \in SUBSET Attempts
  BY DEF Started, Dead
<1> QED BY <1>1, AttemptsCounted DEF TypeOK, Filed, JobRecords, Runs

\* The job stays as it is and no attempt starts, ends or dies.
LEMMA TallySame ==
  ASSUME TypeOK, TypeOK', NEW t \in Tasks, Tally(t), job'[t] = job[t], Filed(t)' = Filed(t),
         crashes' >= crashes,
         \A k \in Attempts : \/ att'[<<t, k>>].pc = att[<<t, k>>].pc
                             \/ Live(t, k) /\ att'[<<t, k>>].pc \notin Ended
  PROVE  Tally(t)'
<1>1. Started(t)' = Started(t) /\ Dead(t)' = Dead(t)
  BY DEF Started, Dead, Live, Ended
<1>2. crashes \in Nat /\ crashes' \in Nat /\ Cardinality(Dead(t)) \in Nat
  BY TallyTypes DEF TypeOK
<1>3. \A k \in Attempts : Live(t, k)' => Live(t, k)
  BY DEF Live
<1>4. job[t].owner # 0 => att'[<<t, job[t].owner>>].pc \notin {"idle", "done"}
  BY DEF Tally, Ended
<1> QED BY <1>1, <1>2, <1>3, <1>4 DEF Tally

\* A step about another task.
LEMMA TallyApart ==
  ASSUME TypeOK, TypeOK', NEW t \in Tasks, Tally(t), job'[t] = job[t], Filed(t)' = Filed(t),
         crashes' >= crashes, \A k \in Attempts : att'[<<t, k>>] = att[<<t, k>>]
  PROVE  Tally(t)'
BY TallySame

\* The job alone changes, and not while an attempt holds it.
LEMMA TallyIdle ==
  ASSUME TypeOK, TypeOK', NEW t \in Tasks, Tally(t), NEW s \in JobStates \ {"active"},
         job[t].state # "active", s \in Between => job[t].state \in Between,
         job'[t].state = s, job'[t].owner = job[t].owner, job'[t].made = job[t].made,
         job'[t].stalls = job[t].stalls, UNCHANGED <<att, letters, crashes>>
  PROVE  Tally(t)'
<1>1. Started(t)' = Started(t) /\ Dead(t)' = Dead(t) /\ job[t].owner = 0
  BY DEF Started, Dead, Tally
<1>2. job[t].made \in Nat /\ job[t].stalls \in Nat /\ Cardinality(Started(t)) \in Nat
  BY TallyTypes
<1> QED BY LettersKept, <1>1, <1>2 DEF Tally, Live

LEMMA TallyDeliver ==
  ASSUME TypeOK, TypeOK', NEW t \in Tasks, Tally(t), Deliver(t)
  PROVE  Tally(t)'
<1>1. PICK k \in Unstarted(t) :
             /\ att' = [att EXCEPT ![<<t, k>>].pc = "begin"]
             /\ job' = [job EXCEPT ![t] = [@ EXCEPT !.state = "active", !.owner = k]]
  BY DEF Deliver
<1>2. k \in Attempts /\ <<t, k>> \in Runs /\ k \in Nat /\ k # 0 /\ att[<<t, k>>].pc = "idle"
  BY AttemptsCounted DEF Unstarted, Runs
<1>3. /\ job'[t].state = "active" /\ job'[t].owner = k /\ job'[t].made = job[t].made
      /\ job'[t].stalls = job[t].stalls /\ job[t].state = "waiting" /\ job[t].owner = 0
      /\ UNCHANGED <<letters, crashes>>
  <2>1. job[t].state = "waiting" /\ UNCHANGED <<letters, crashes>>
    BY DEF Deliver, env
  <2>2. job[t].owner = 0
    BY <2>1 DEF Tally
  <2>3. /\ job'[t].state = "active" /\ job'[t].owner = k /\ job'[t].made = job[t].made
        /\ job'[t].stalls = job[t].stalls
    BY <1>1 DEF TypeOK, JobRecords
  <2> QED BY <2>1, <2>2, <2>3
<1>4. /\ att'[<<t, k>>].pc = "begin"
      /\ \A j \in Attempts \ {k} : att'[<<t, j>>].pc = att[<<t, j>>].pc
  BY <1>1, <1>2 DEF TypeOK, AttemptRecords, Runs
<1>5. Started(t)' = Started(t) \cup {k} /\ k \notin Started(t)
  BY <1>2, <1>4 DEF Started
<1>6. Dead(t)' = Dead(t) /\ Dead(t) \ {k} = Dead(t) /\ Dead(t) \ {0} = Dead(t)
  BY <1>2, <1>4, AttemptsCounted DEF Dead
<1>7. Cardinality(Started(t)') = Cardinality(Started(t)) + 1
  <2>1. Started(t) \in SUBSET Attempts
    BY DEF Started
  <2> QED BY <1>5, <2>1, AttemptsCounted, FS_AddElement
<1>8. ~ Timeouts => \A j \in Attempts : Live(t, j)' => j = k
  <2>1. ~ Timeouts => \A j \in Attempts : ~ Live(t, j)
    BY <1>3, AttemptsCounted DEF Tally
  <2> QED BY <1>4, <2>1 DEF Live
<1>9. /\ job[t].made \in Nat /\ job[t].stalls \in Nat /\ Cardinality(Started(t)) \in Nat
      /\ "waiting" \in Between /\ "active" \notin Between
  BY TallyTypes DEF Between
<1>10. /\ Cardinality(Started(t)) <= job[t].made + job[t].stalls /\ job[t].made < MaxAttempts
       /\ job[t].stalls <= Cardinality(Dead(t)') /\ Cardinality(Dead(t)') <= crashes
       /\ job[t].made <= MaxAttempts /\ Filed(t) = IF job[t].made >= MaxAttempts THEN 1 ELSE 0
  <2>1. Filed(t) = IF job[t].made >= MaxAttempts THEN 1 ELSE 0
    BY DEF Tally
  <2>2. Cardinality(Started(t)) <= job[t].made + job[t].stalls
    BY <1>3, <1>9 DEF Tally
  <2>3. job[t].made < MaxAttempts /\ job[t].made <= MaxAttempts
    BY <1>3, <1>9 DEF Tally
  <2>4. job[t].stalls <= Cardinality(Dead(t)') /\ Cardinality(Dead(t)') <= crashes
    BY <1>3, <1>6 DEF Tally
  <2> QED BY <2>1, <2>2, <2>3, <2>4
<1>11. Cardinality(Started(t)') <=
         job'[t].made + job'[t].stalls + (IF job'[t].state \in Between THEN 0 ELSE 1)
  BY <1>3, <1>7, <1>9, <1>10
<1>12. job'[t].stalls <= Cardinality(Dead(t)' \ {job'[t].owner})
  BY <1>3, <1>6, <1>10
<1> QED BY LettersKept, <1>2, <1>3, <1>4, <1>8, <1>10, <1>11, <1>12 DEF Tally

LEMMA TallyStalled ==
  ASSUME TypeOK, TypeOK', NEW t \in Tasks, Tally(t), Stalled(t)
  PROVE  Tally(t)'
<1> DEFINE o == job[t].owner
<1>1. /\ job[t].state = "active" /\ att[<<t, o>>].pc = "dead" /\ o # 0 /\ o \in Attempts
      /\ UNCHANGED <<att, letters, crashes>>
  BY DEF Stalled, Tally, procs, env
<1>2. /\ job'[t].owner = 0 /\ job'[t].stalls = job[t].stalls + 1 /\ job'[t].made = job[t].made
      /\ job'[t].state \in {"waiting", "failed"}
  BY TallyTypes DEF Stalled, TypeOK, JobRecords
<1>3. Started(t)' = Started(t) /\ Dead(t)' = Dead(t)
  BY <1>1 DEF Started, Dead
<1>4. Cardinality(Dead(t)) = Cardinality(Dead(t) \ {o}) + 1 /\ Dead(t) \ {0} = Dead(t)
  <2>1. Dead(t) \in SUBSET Attempts /\ o \in Dead(t) /\ 0 \notin Dead(t)
    BY <1>1, AttemptsCounted DEF Dead
  <2>2. Cardinality(Dead(t) \ {o}) = Cardinality(Dead(t)) - 1
    BY <2>1, AttemptsCounted, FS_RemoveElement
  <2> QED BY <2>1, <2>2, AttemptsCounted
<1>5. ~ Timeouts => \A j \in Attempts : ~ Live(t, j)
  BY <1>1 DEF Tally, Live, Ended
<1>6. ~ Timeouts => \A j \in Attempts : ~ Live(t, j)'
  BY <1>1, <1>5 DEF Live
<1>7. /\ job[t].made \in Nat /\ job[t].stalls \in Nat /\ Cardinality(Started(t)) \in Nat
      /\ Cardinality(Dead(t) \ {o}) \in Nat /\ "active" \notin Between
  BY TallyTypes DEF Between
<1>8. /\ Cardinality(Started(t)) <= job[t].made + job[t].stalls + 1
      /\ job[t].stalls <= Cardinality(Dead(t) \ {o}) /\ job[t].made < MaxAttempts
  BY <1>1, <1>7 DEF Tally
<1> HIDE DEF o
<1>9. /\ Cardinality(Started(t)') <=
           job'[t].made + job'[t].stalls + (IF job'[t].state \in Between THEN 0 ELSE 1)
      /\ job'[t].stalls <= Cardinality(Dead(t)' \ {job'[t].owner})
  <2>1. Cardinality(Started(t)') <= job'[t].made + job'[t].stalls
    BY <1>2, <1>3, <1>7, <1>8
  <2>2. job'[t].stalls <= Cardinality(Dead(t))
    BY <1>2, <1>4, <1>7, <1>8
  <2>3. Dead(t)' \ {job'[t].owner} = Dead(t)
    BY <1>2, <1>3, <1>4
  <2>4. job'[t].made + job'[t].stalls \in Nat /\ Cardinality(Started(t)') \in Nat
    BY <1>2, <1>3, <1>7
  <2> QED BY <2>1, <2>2, <2>3, <2>4
<1> QED BY LettersKept, <1>1, <1>2, <1>3, <1>6, <1>8, <1>9 DEF Tally

\* A failure the broker notices: the attempt that held the job goes on, or is
\* over.
LEMMA TallyFails ==
  ASSUME TypeOK, TypeOK', NEW t \in Tasks, Tally(t), JobFails(t), crashes' = crashes,
         NEW o \in Attempts, o = job[t].owner,
         \A k \in Attempts \ {o} : att'[<<t, k>>].pc = att[<<t, k>>].pc,
         Live(t, o), \/ att'[<<t, o>>].pc = "done"
                     \/ Timeouts /\ att'[<<t, o>>].pc = att[<<t, o>>].pc
  PROVE  Tally(t)'
<1>1. job[t].state = "active" /\ o # 0 /\ job[t].made < MaxAttempts
  BY AttemptsCounted DEF Tally
<1>2. /\ job'[t].owner = 0 /\ job'[t].stalls = job[t].stalls /\ job'[t].made = job[t].made + 1
      /\ \/ job'[t].state = "delayed" /\ job[t].made + 1 < MaxAttempts /\ Filed(t)' = Filed(t)
         \/ job'[t].state = "failed" /\ job[t].made + 1 >= MaxAttempts /\ Filed(t)' = Filed(t) + 1
  <2> DEFINE made == job[t].made + 1
  <2>1. \/ /\ made < MaxAttempts /\ UNCHANGED letters
           /\ job' = [job EXCEPT ![t] = [@ EXCEPT !.state = "delayed", !.owner = 0, !.made = made]]
        \/ /\ made >= MaxAttempts /\ filing' = [filing EXCEPT ![t] = @ + 1] /\ UNCHANGED <<dlq, lost>>
           /\ job' = [job EXCEPT ![t] = [@ EXCEPT !.state = "failed", !.owner = 0, !.made = made]]
    BY DEF JobFails
  <2> HIDE DEF made
  <2>2. /\ job'[t].owner = 0 /\ job'[t].stalls = job[t].stalls /\ job'[t].made = made
        /\ \/ job'[t].state = "delayed" /\ made < MaxAttempts /\ Filed(t)' = Filed(t)
           \/ job'[t].state = "failed" /\ made >= MaxAttempts /\ Filed(t)' = Filed(t) + 1
    <3>1. job \in [Tasks -> JobRecords]
      BY DEF TypeOK
    <3>2. CASE /\ made < MaxAttempts /\ UNCHANGED letters
               /\ job' = [job EXCEPT ![t] = [@ EXCEPT !.state = "delayed", !.owner = 0, !.made = made]]
      <4>1. Filed(t)' = Filed(t)
        BY <3>2 DEF letters, Filed
      <4>2. /\ job'[t].owner = 0 /\ job'[t].stalls = job[t].stalls /\ job'[t].made = made
            /\ job'[t].state = "delayed"
        BY <3>1, <3>2 DEF JobRecords
      <4> QED BY <3>2, <4>1, <4>2
    <3>3. CASE /\ made >= MaxAttempts /\ filing' = [filing EXCEPT ![t] = @ + 1] /\ UNCHANGED <<dlq, lost>>
               /\ job' = [job EXCEPT ![t] = [@ EXCEPT !.state = "failed", !.owner = 0, !.made = made]]
      <4>1. Filed(t)' = Filed(t) + 1
        BY <3>3 DEF Filed, TypeOK
      <4>2. job'[t] = [job[t] EXCEPT !.state = "failed", !.owner = 0, !.made = made]
        BY <3>1, <3>3
      <4>3. /\ job'[t].owner = 0 /\ job'[t].stalls = job[t].stalls /\ job'[t].made = made
            /\ job'[t].state = "failed"
        BY <3>1, <4>2 DEF JobRecords
      <4> QED BY <3>3, <4>1, <4>3
    <3> QED BY <2>1, <3>2, <3>3
  <2> QED BY <2>2 DEF made
<1>3. Started(t)' = Started(t) /\ Dead(t)' = Dead(t) /\ Dead(t) \ {o} = Dead(t)
      /\ Dead(t) \ {0} = Dead(t)
  BY AttemptsCounted DEF Started, Dead, Live, Ended
<1>4. ~ Timeouts => \A j \in Attempts : ~ Live(t, j)'
  BY DEF Tally, Live, Ended
<1>5. /\ job[t].made \in Nat /\ job[t].stalls \in Nat /\ Cardinality(Started(t)) \in Nat
      /\ Filed(t) \in Nat /\ Cardinality(Dead(t)) \in Nat /\ MaxAttempts \in Nat
      /\ "active" \notin Between /\ "failed" \notin Between /\ "delayed" \in Between
  BY TallyTypes, BoundsNat DEF Between
<1>6. /\ Cardinality(Started(t)) <= job[t].made + job[t].stalls + 1
      /\ job[t].stalls <= Cardinality(Dead(t)) /\ Filed(t) = 0 /\ Cardinality(Dead(t)) <= crashes
  <2>1. Cardinality(Started(t)) <= job[t].made + job[t].stalls + 1
    BY <1>1, <1>5 DEF Tally
  <2>2. job[t].stalls <= Cardinality(Dead(t)) /\ Cardinality(Dead(t)) <= crashes
    BY <1>3 DEF Tally
  <2>3. Filed(t) = 0
    <3>1. Filed(t) = IF job[t].made >= MaxAttempts THEN 1 ELSE 0
      BY DEF Tally
    <3> QED BY <1>1, <1>5, <3>1
  <2> QED BY <2>1, <2>2, <2>3
<1>7. /\ Cardinality(Started(t)') <=
           job'[t].made + job'[t].stalls + (IF job'[t].state \in Between THEN 0 ELSE 1)
      /\ job'[t].made <= MaxAttempts
      /\ job'[t].state \in Between \cup {"active"} => job'[t].made < MaxAttempts
      /\ Filed(t)' = IF job'[t].made >= MaxAttempts THEN 1 ELSE 0
  BY <1>1, <1>2, <1>3, <1>5, <1>6
<1> QED BY <1>2, <1>3, <1>4, <1>6, <1>7 DEF Tally

\* An attempt is over: its answer completes the job, or comes too late.
LEMMA TallyReturn ==
  ASSUME TypeOK, TypeOK', NEW t \in Tasks, Tally(t), NEW k \in Attempts, UNCHANGED <<letters, crashes>>,
         Live(t, k), att'[<<t, k>>].pc = "done",
         \A j \in Attempts \ {k} : att'[<<t, j>>].pc = att[<<t, j>>].pc,
         \/ job[t].owner # k /\ job'[t] = job[t]
         \/ /\ job[t].owner = k /\ job'[t].state = "completed" /\ job'[t].owner = 0
            /\ job'[t].made = job[t].made /\ job'[t].stalls = job[t].stalls
  PROVE  Tally(t)'
<1>1. Started(t)' = Started(t) /\ Dead(t)' = Dead(t) /\ Dead(t) \ {k} = Dead(t)
      /\ Dead(t) \ {0} = Dead(t)
  BY AttemptsCounted DEF Started, Dead, Live, Ended
<1>2. \A j \in Attempts : Live(t, j)' => Live(t, j) /\ j # k
  BY DEF Live, Ended
<1>3. CASE job[t].owner # k /\ job'[t] = job[t]
  <2>1. job[t].owner # 0 => att'[<<t, job[t].owner>>].pc = att[<<t, job[t].owner>>].pc
    BY <1>3 DEF Tally
  <2> QED BY LettersKept, <1>1, <1>2, <1>3, <2>1 DEF Tally
<1>4. CASE /\ job[t].owner = k /\ job'[t].state = "completed" /\ job'[t].owner = 0
           /\ job'[t].made = job[t].made /\ job'[t].stalls = job[t].stalls
  <2>1. job[t].state = "active" /\ "active" \notin Between /\ "completed" \notin Between
    BY <1>4, AttemptsCounted DEF Tally, Between
  <2>2. ~ Timeouts => \A j \in Attempts : ~ Live(t, j)'
    BY <1>2, <1>4 DEF Tally
  <2> QED BY LettersKept, <1>1, <1>4, <2>1, <2>2 DEF Tally
<1> QED BY <1>3, <1>4

LEMMA TallyCrash ==
  ASSUME TypeOK, TypeOK', NEW t \in Tasks, Tally(t), NEW k \in Attempts, Crash(t, k)
  PROVE  Tally(t)'
<1>1. /\ <<t, k>> \in Runs /\ Live(t, k) /\ att'[<<t, k>>].pc = "dead"
      /\ \A j \in Attempts \ {k} : att'[<<t, j>>].pc = att[<<t, j>>].pc
      /\ job' = job /\ letters' = letters /\ crashes' = crashes + 1
  BY DEF Crash, Live, Runs, TypeOK, AttemptRecords, queue
<1>2. Started(t)' = Started(t) /\ Dead(t)' = Dead(t) \cup {k} /\ k \notin Dead(t)
  BY <1>1 DEF Started, Dead, Live, Ended
<1>3. Cardinality(Dead(t)') = Cardinality(Dead(t)) + 1
  <2>1. Dead(t) \in SUBSET Attempts
    BY DEF Dead
  <2> QED BY <1>2, <2>1, AttemptsCounted, FS_AddElement
<1>4. Cardinality(Dead(t) \ {job[t].owner}) <= Cardinality(Dead(t)' \ {job[t].owner})
  <2>1. /\ Dead(t) \ {job[t].owner} \in SUBSET Attempts
        /\ Dead(t)' \ {job[t].owner} \in SUBSET Attempts
        /\ Dead(t) \ {job[t].owner} \subseteq Dead(t)' \ {job[t].owner}
    BY <1>2 DEF Dead
  <2> QED BY <2>1, AttemptsCounted, FS_Subset
<1>5. \A j \in Attempts : Live(t, j)' => Live(t, j)
  BY <1>1 DEF Live, Ended
<1>6. /\ Cardinality(Dead(t) \ {job[t].owner}) \in Nat /\ job[t].stalls \in Nat
      /\ Cardinality(Dead(t)' \ {job[t].owner}) \in Nat /\ crashes \in Nat
      /\ Cardinality(Dead(t)) \in Nat
  <2>1. Dead(t)' \ {job[t].owner} \in SUBSET Attempts
    BY DEF Dead
  <2> QED BY <2>1, TallyTypes, AttemptsCounted
<1>7. /\ job[t].stalls <= Cardinality(Dead(t)' \ {job[t].owner})
      /\ Cardinality(Dead(t)') <= crashes + 1
  BY <1>3, <1>4, <1>6 DEF Tally
<1>8. job[t].owner # 0 => att'[<<t, job[t].owner>>].pc \notin {"idle", "done"}
  BY <1>1 DEF Tally
<1> QED BY LettersKept, <1>1, <1>2, <1>5, <1>7, <1>8 DEF Tally

\* Until it is put into the queue a job is nowhere.
Unqueued == \A t \in Tasks : sub[t] = "enqueue" => job[t].state = "none"

\* The queue and the attempts of the other tasks stay as they are.
Elsewhere(t) ==
  /\ crashes' >= crashes /\ crashes' <= MaxCrashes
  /\ \A u \in Tasks \ {t} : /\ job'[u] = job[u] /\ Filed(u)' = Filed(u)
                            /\ \A k \in Attempts : att'[<<u, k>>] = att[<<u, k>>]

LEMMA TallyStep ==
  ASSUME TypeOK, TypeOK', Tallied, NEW t \in Tasks, Elsewhere(t), Tally(t)'
  PROVE  Tallied'
<1>1. \A u \in Tasks \ {t} : Tally(u)'
  BY TallyApart DEF Tallied, Elsewhere
<1> QED BY <1>1 DEF Tallied, Elsewhere

LEMMA SubmitTallies ==
  ASSUME TypeOK, TypeOK', Fresh, Tallied, Unqueued, NEW t \in Tasks,
         Submit(t) \/ ReserveFault(t)
  PROVE  Tallied' /\ Unqueued'
<1>1. crashes' = crashes /\ crashes \in Nat
  BY DEF Submit, SubmitStart, CheckBalance, InsertReservation, IncrementReserved, CreateTask,
     EnqueueJob, ReserveFault, env, TypeOK
<1>2. CASE EnqueueJob(t)
  <2>1. /\ UNCHANGED <<att, letters>> /\ job' = [job EXCEPT ![t].state = "waiting"]
        /\ sub[t] = "enqueue" /\ sub' = [sub EXCEPT ![t] = "done"]
    BY <1>2 DEF EnqueueJob, SubmitAt
  <2>2. job[t].state = "none" /\ "waiting" \in JobStates \ {"active"}
    BY <2>1 DEF Unqueued, JobStates
  <2>3. /\ job'[t].state = "waiting" /\ job'[t].owner = job[t].owner /\ job'[t].made = job[t].made
        /\ job'[t].stalls = job[t].stalls
    BY <2>1 DEF TypeOK, JobRecords
  <2>4. Tally(t)'
    BY <1>1, <2>1, <2>2, <2>3, TallyIdle DEF Tallied, Between
  <2>5. Elsewhere(t)
    BY LettersKept, <1>1, <2>1 DEF Elsewhere, Tallied, TypeOK
  <2>6. Unqueued'
    BY <2>1 DEF Unqueued, TypeOK
  <2> QED BY <2>4, <2>5, <2>6, TallyStep
<1>3. CASE ~ EnqueueJob(t)
  <2>1. UNCHANGED <<job, letters, att>>
    BY <1>3 DEF Submit, SubmitStart, CheckBalance, InsertReservation, IncrementReserved,
       CreateTask, ReserveFault, queue
  <2>2. \A u \in Tasks : sub'[u] = "enqueue" => sub[u] \in Early \cup {"enqueue"}
    BY <1>3 DEF Submit, SubmitStart, CheckBalance, InsertReservation, IncrementReserved,
       CreateTask, ReserveFault, SubmitAt, TypeOK, Early
  <2>3. Tally(t)'
    BY LettersKept, <1>1, <2>1, TallyApart DEF Tallied
  <2>4. Elsewhere(t)
    BY LettersKept, <1>1, <2>1 DEF Elsewhere, Tallied
  <2>5. Unqueued'
    BY <2>1, <2>2 DEF Unqueued, Fresh
  <2> QED BY <2>3, <2>4, <2>5, TallyStep
<1> QED BY <1>2, <1>3

LEMMA CancelTallies ==
  ASSUME TypeOK, TypeOK', Tallied, Unqueued, NEW t \in Tasks, NEW c \in Cancels, Cancel(t, c)
  PROVE  Tallied' /\ Unqueued'
<1>1. UNCHANGED <<att, letters, sub, crashes>> /\ crashes \in Nat
  BY DEF Cancel, CancelStart, CancelMark, CancelFind, CancelRelease, CancelDecrement,
     CancelRecord, CancelDequeue, queue, env, TypeOK
<1>2. \/ job' = job
      \/ /\ job' = [job EXCEPT ![t].state = "removed"] /\ job[t].state \notin {"none", "active"}
  BY DEF Cancel, CancelStart, CancelMark, CancelFind, CancelRelease, CancelDecrement,
     CancelRecord, CancelDequeue, queue
<1>3. Tally(t)'
  <2>1. CASE job' = job
    BY LettersKept, <1>1, <2>1, TallyApart DEF Tallied
  <2>2. CASE job' = [job EXCEPT ![t].state = "removed"] /\ job[t].state \notin {"none", "active"}
    <3>1. /\ job'[t].state = "removed" /\ job'[t].owner = job[t].owner
          /\ job'[t].made = job[t].made /\ job'[t].stalls = job[t].stalls
      BY <2>2 DEF TypeOK, JobRecords
    <3>2. "removed" \in JobStates \ {"active"} /\ "removed" \notin Between
      BY DEF JobStates, Between
    <3> QED BY <1>1, <2>2, <3>1, <3>2, TallyIdle DEF Tallied
  <2> QED BY <1>2, <2>1, <2>2
<1>4. Elsewhere(t)
  BY LettersKept, <1>1, <1>2 DEF Elsewhere, Tallied, TypeOK
<1>5. Unqueued'
  BY <1>1, <1>2 DEF Unqueued, TypeOK
<1> QED BY <1>3, <1>4, <1>5, TallyStep

LEMMA FailsElsewhere ==
  ASSUME TypeOK, NEW t \in Tasks, JobFails(t)
  PROVE  \A u \in Tasks \ {t} : job'[u] = job[u] /\ Filed(u)' = Filed(u)
<1>1. \A u \in Tasks \ {t} : job'[u] = job[u]
  BY DEF TypeOK, JobFails
<1>2. ASSUME NEW u \in Tasks \ {t} PROVE Filed(u)' = Filed(u)
  BY LettersKept DEF TypeOK, JobFails, Filed
<1> QED BY <1>1, <1>2

LEMMA BrokerTallies ==
  ASSUME TypeOK, TypeOK', Tallied, Unqueued, NEW t \in Tasks,
         Broker(t) \/ Timeout(t) \/ UpdateStatus(t)
  PROVE  Tallied' /\ Unqueued'
<1>1. UNCHANGED <<sub, crashes>> /\ crashes \in Nat /\ Tally(t)
  BY DEF Broker, Deliver, Retry, Stalled, Timeout, UpdateStatus, procs, env, TypeOK, Tallied
<1>2. CASE Deliver(t)
  <2>1. Elsewhere(t)
    BY LettersKept, <1>1, <1>2 DEF Deliver, Elsewhere, Tallied, TypeOK, Runs
  <2>2. Unqueued'
    BY <1>1, <1>2 DEF Deliver, Unqueued, TypeOK
  <2> QED BY <1>1, <1>2, <2>1, <2>2, TallyDeliver, TallyStep
<1>3. CASE Retry(t)
  <2>1. /\ job[t].state = "delayed" /\ job' = [job EXCEPT ![t].state = "waiting"]
        /\ UNCHANGED <<att, letters>>
    BY <1>3 DEF Retry, procs
  <2>2. /\ job'[t].state = "waiting" /\ job'[t].owner = job[t].owner
        /\ job'[t].made = job[t].made /\ job'[t].stalls = job[t].stalls
    BY <2>1 DEF TypeOK, JobRecords
  <2>3. Tally(t)'
    BY <1>1, <2>1, <2>2, TallyIdle DEF JobStates, Between
  <2>4. Elsewhere(t) /\ Unqueued'
    BY LettersKept, <1>1, <2>1 DEF Elsewhere, Tallied, Unqueued, TypeOK
  <2> QED BY <2>3, <2>4, TallyStep
<1>4. CASE Stalled(t)
  <2>1. Elsewhere(t) /\ Unqueued'
    BY LettersKept, <1>1, <1>4 DEF Stalled, Elsewhere, Tallied, Unqueued, TypeOK, procs
  <2> QED BY <1>1, <1>4, <2>1, TallyStalled, TallyStep
<1>5. CASE Timeout(t)
  <2> DEFINE o == job[t].owner
  <2>1. /\ Timeouts /\ job[t].state = "active" /\ Live(t, o) /\ JobFails(t) /\ att' = att
        /\ o \in Attempts
    BY <1>1, <1>5 DEF Timeout, Live, procs, Tally
  <2>2. Tally(t)'
    BY <1>1, <2>1, TallyFails
  <2>3. Elsewhere(t)
    BY <1>1, <2>1, FailsElsewhere DEF Elsewhere, Tallied
  <2>4. Unqueued'
    BY <1>1, <2>1, FailsElsewhere DEF Unqueued
  <2> QED BY <2>2, <2>3, <2>4, TallyStep
<1>6. CASE UpdateStatus(t)
  <2>1. UNCHANGED <<job, letters, att>>
    BY <1>6 DEF UpdateStatus, queue, procs
  <2>2. Elsewhere(t) /\ Unqueued'
    BY LettersKept, <1>1, <2>1 DEF Elsewhere, Tallied, Unqueued
  <2> QED BY LettersKept, <1>1, <2>1, <2>2, TallyApart, TallyStep
<1> QED BY <1>2, <1>3, <1>4, <1>5, <1>6 DEF Broker

\* A step of an attempt that goes on, with nothing said to the queue.
Proceeds(t, k) ==
  /\ Live(t, k) /\ att'[<<t, k>>].pc \notin Ended
  /\ \A q \in Runs \ {<<t, k>>} : att'[q] = att[q]
  /\ UNCHANGED <<job, letters, crashes>>

LEMMA WorkProceeds ==
  ASSUME TypeOK, NEW t \in Tasks, NEW k \in Attempts, Work(t, k) \/ Fault(t, k),
         ~ Return(t, k), ~ Throw(t, k)
  PROVE  Proceeds(t, k)
<1>0. <<t, k>> \in Runs /\ att \in [Runs -> AttemptRecords]
  BY DEF TypeOK, Runs
<1> USE <1>0 DEF Proceeds, Live, Ended, queue, env
<1>1. ASSUME NEW from, NEW to, AttemptAt(<<t, k>>, from, to), from \notin Ended, to \notin Ended,
             UNCHANGED <<job, letters, crashes>>
      PROVE  Proceeds(t, k)
  BY <1>1, Advances
<1>2. CASE Begin(t, k) \/ Complete(t, k) \/ CloseSession(t, k) \/ Catch(t, k)
  BY <1>1, <1>2 DEF Begin, Complete, CloseSession, Catch
<1>3. CASE ConsumeFind(t, k) \/ ConsumeDeduct(t, k) \/ ConsumeMark(t, k)
  BY <1>1, <1>3 DEF ConsumeFind, ConsumeDeduct, ConsumeMark
<1>4. CASE ConsumeDirect(t, k) \/ ConsumeRecord(t, k) \/ ReleaseFind(t, k)
  BY <1>1, <1>4 DEF ConsumeDirect, ConsumeRecord, ReleaseFind
<1>5. CASE ReleaseDecrement(t, k) \/ ReleaseMark(t, k) \/ ReleaseRecord(t, k)
  BY <1>1, <1>5 DEF ReleaseDecrement, ReleaseMark, ReleaseRecord
<1>6. CASE CallOrchestrator(t, k)
  BY <1>6 DEF CallOrchestrator
<1>7. CASE CheckSession(t, k)
  <2> DEFINE pc == IF \A u \in Submitted : status[u] \in Terminal THEN "close" ELSE "return"
             any == \E u \in Submitted : status[u] = "failed"
  <2>1. /\ att[<<t, k>>].pc = "check" /\ pc \in {"close", "return"}
        /\ UNCHANGED <<job, letters, crashes>>
        /\ att' = [att EXCEPT ![<<t, k>>] = [@ EXCEPT !.pc = pc, !.failed = any]]
    BY <1>7 DEF CheckSession
  <2> HIDE DEF pc, any
  <2> QED BY <2>1 DEF AttemptRecords
<1>8. CASE Fault(t, k)
  <2>1. PICK to \in AfterFault(att[<<t, k>>].pc) : att' = [att EXCEPT ![<<t, k>>].pc = to]
    BY <1>8 DEF Fault
  <2>2. att[<<t, k>>].pc \in AttemptPC \ (Ended \cup {"throw"})
    BY <1>8 DEF Fault, AttemptRecords
  <2>3. to \notin Ended
    BY <2>1, <2>2 DEF AfterFault, AttemptPC
  <2> QED BY <1>8, <2>1, <2>2, <2>3 DEF Fault, AttemptRecords
<1> QED BY <1>2, <1>3, <1>4, <1>5, <1>6, <1>7, <1>8 DEF Work

LEMMA WorkTallies ==
  ASSUME TypeOK, TypeOK', Tallied, Unqueued, NEW t \in Tasks, NEW k \in Attempts,
         Work(t, k) \/ Fault(t, k) \/ Crash(t, k)
  PROVE  Tallied' /\ Unqueued'
<1>0. <<t, k>> \in Runs /\ k # 0 /\ Tally(t) /\ crashes \in Nat
  BY AttemptsCounted DEF Runs, Tallied, TypeOK
<1>a. sub' = sub
  BY DEF Work, Begin, CallOrchestrator, Complete, ConsumeFind, ConsumeDeduct, ConsumeMark,
     ConsumeDirect, ConsumeRecord, CheckSession, CloseSession, Return, Catch, ReleaseFind,
     ReleaseDecrement, ReleaseMark, ReleaseRecord, Throw, Fault, Crash
<1>1. CASE Proceeds(t, k)
  <2>1. Tally(t)'
    BY LettersKept, <1>0, <1>1, TallySame DEF Proceeds, Runs
  <2>2. Elsewhere(t) /\ Unqueued'
    BY LettersKept, <1>0, <1>a, <1>1 DEF Proceeds, Elsewhere, Tallied, Unqueued, Runs
  <2> QED BY <2>1, <2>2, TallyStep
<1>2. CASE Return(t, k) \/ Throw(t, k)
  <2>1. /\ Live(t, k) /\ att'[<<t, k>>].pc = "done" /\ crashes' = crashes
        /\ \A q \in Runs \ {<<t, k>>} : att'[q] = att[q]
    <3>1. PICK from \in {"return", "throw"} : AttemptAt(<<t, k>>, from, "done") /\ crashes' = crashes
      BY <1>2 DEF Return, Throw, env
    <3> QED BY <1>0, <3>1, Advances DEF Live, Ended
  <2>2. \A j \in Attempts \ {k} : att'[<<t, j>>].pc = att[<<t, j>>].pc
    BY <2>1 DEF Runs
  <2>3. CASE job[t].owner # k \/ Return(t, k)
    <3>1. /\ letters' = letters
          /\ \/ job[t].owner # k /\ job' = job
             \/ job[t].owner = k
                  /\ job' = [job EXCEPT ![t] = [@ EXCEPT !.state = "completed", !.owner = 0]]
      BY <1>2, <2>3 DEF Return, Throw, queue
    <3>2. \/ job[t].owner # k /\ job'[t] = job[t]
          \/ /\ job[t].owner = k /\ job'[t].state = "completed" /\ job'[t].owner = 0
             /\ job'[t].made = job[t].made /\ job'[t].stalls = job[t].stalls
      <4>1. job \in [Tasks -> JobRecords]
        BY DEF TypeOK
      <4>2. CASE job[t].owner # k /\ job' = job
        BY <4>2
      <4>3. CASE /\ job[t].owner = k
                 /\ job' = [job EXCEPT ![t] = [@ EXCEPT !.state = "completed", !.owner = 0]]
        BY <4>1, <4>3 DEF JobRecords
      <4> QED BY <3>1, <4>2, <4>3
    <3>3. Tally(t)'
      BY <1>0, <2>1, <2>2, <3>1, <3>2, TallyReturn
    <3>4. Elsewhere(t)
      BY LettersKept, <1>0, <2>1, <3>1 DEF Elsewhere, Tallied, TypeOK, Runs
    <3>5. Unqueued'
      <4>1. job[t].owner = k => job[t].state # "none"
        BY <1>0 DEF Tally
      <4> QED BY <1>a, <3>1, <4>1 DEF Unqueued, TypeOK
    <3> QED BY <3>3, <3>4, <3>5, TallyStep
  <2>4. CASE job[t].owner = k /\ Throw(t, k)
    <3>1. JobFails(t)
      BY <2>4 DEF Throw
    <3>2. Tally(t)'
      BY <1>0, <2>1, <2>2, <2>4, <3>1, TallyFails
    <3>3. Elsewhere(t)
      BY <1>0, <2>1, <3>1, FailsElsewhere DEF Elsewhere, Tallied, Runs
    <3>4. Unqueued'
      <4>1. job[t].state = "active"
        BY <1>0, <2>4 DEF Tally
      <4> QED BY <1>a, <3>1, <4>1, FailsElsewhere DEF Unqueued
    <3> QED BY <3>2, <3>3, <3>4, TallyStep
  <2> QED BY <1>2, <2>3, <2>4
<1>3. CASE Crash(t, k)
  <2>1. /\ crashes' = crashes + 1 /\ crashes < MaxCrashes /\ UNCHANGED <<job, letters>>
        /\ \A q \in Runs \ {<<t, k>>} : att'[q] = att[q]
    BY <1>3 DEF Crash, queue, TypeOK
  <2>2. Elsewhere(t) /\ Unqueued'
    BY LettersKept, <1>0, <1>a, <2>1, BoundsNat DEF Elsewhere, Unqueued, Runs
  <2> QED BY <1>0, <1>3, <2>2, TallyCrash, TallyStep
<1> QED BY <1>1, <1>2, <1>3, WorkProceeds

LEMMA TallyInit == Init => Tallied /\ Unqueued
<1> SUFFICES ASSUME Init PROVE Tallied /\ Unqueued
  OBVIOUS
<1>1. ASSUME NEW t \in Tasks PROVE Tally(t)
  <2>1. /\ \A k \in Attempts : att[<<t, k>>].pc = "idle"
        /\ job[t].state = "none" /\ job[t].owner = 0 /\ job[t].made = 0 /\ job[t].stalls = 0
        /\ Filed(t) = 0 /\ crashes = 0
    BY DEF Init, Filed, NoAttempt, NoJob, Runs
  <2>2. Started(t) = {} /\ Dead(t) = {} /\ Dead(t) \ {job[t].owner} = {}
    BY <2>1 DEF Started, Dead
  <2> QED BY <2>1, <2>2, FS_EmptySet, BoundsNat DEF Tally, Between, Live, Ended
<1> QED BY <1>1, BoundsNat DEF Init, Tallied, Unqueued, NoJob

\* Filing moves an entry on.
LEMMA FilingKept ==
  ASSUME TypeOK, NEW t \in Tasks, FileJob(t)
  PROVE  \A u \in Tasks : Filed(u)' = Filed(u)
<1>0. dlq \in [Tasks -> Nat] /\ filing \in [Tasks -> Nat] /\ lost \in [Tasks -> Nat]
  BY DEF TypeOK
<1>1. CASE dlq' = [dlq EXCEPT ![t] = @ + 1] /\ UNCHANGED lost
  BY <1>0, <1>1 DEF FileJob, Filed
<1>2. CASE lost' = [lost EXCEPT ![t] = @ + 1] /\ UNCHANGED dlq
  BY <1>0, <1>2 DEF FileJob, Filed
<1> QED BY <1>1, <1>2 DEF FileJob

LEMMA TallyNext == IInv /\ Tallied /\ Unqueued /\ [Next]_vars => Tallied' /\ Unqueued'
<1> SUFFICES ASSUME IInv, Tallied, Unqueued, [Next]_vars PROVE Tallied' /\ Unqueued'
  OBVIOUS
<1>0. TypeOK /\ TypeOK' /\ Fresh
  BY TypeStep DEF IInv
<1>1. CASE UNCHANGED vars
  <2>1. UNCHANGED <<job, letters, att, crashes, sub>>
    BY <1>1 DEF vars, queue, procs, env
  <2> QED BY LettersKept, <2>1 DEF Tallied, Unqueued, Tally, Started, Dead, Live
<1>2. ASSUME NEW t \in Tasks, FileJob(t) PROVE Tallied' /\ Unqueued'
  <2>1. UNCHANGED <<job, att, crashes, sub>> /\ \A u \in Tasks : Filed(u)' = Filed(u)
    BY <1>0, <1>2, FilingKept DEF FileJob, procs, env
  <2> QED BY <2>1 DEF Tallied, Unqueued, Tally, Started, Dead, Live
<1> QED BY <1>0, <1>1, <1>2, SubmitTallies, CancelTallies, BrokerTallies, WorkTallies DEF Next

LEMMA TalliedAlways == Spec => [](Tallied /\ Unqueued)
BY TallyInit, TallyNext, InvInit, InvStep, PTL DEF Spec

\* A job is filed in the dead letter queue once, when its attempts are used
\* up, whatever times out, answers late or dies.
THEOREM FiledExactlyOnce == Spec => []FiledOnce
<1>1. Tallied => FiledOnce
  BY DEF Tallied, Tally, FiledOnce
<1> QED BY <1>1, TalliedAlways, PTL

-----------------------------------------------------------------------------
(* Who settles a reservation, and who runs a task.                         *)

\* Beyond the attempt's settlement, on the way through which no call failed.
Past == {"direct", "record", "check", "close", "return", "done"}
Failing == {"catch", "relFind", "relDec", "relMark", "relRecord", "throw"}

\* While no call fails: a reservation is made once and for a task that costs
\* something, and who has passed its settlement has settled it.
Clear(t) ==
  /\ sub[t] # "createBare"
  /\ sub[t] \in {"idle", "check", "insert", "rejected"} => resv[t] = "none"
  /\ sub[t] \in {"enqueue", "done"} => creditsReserved[t] = Cost
  /\ \A c \in Cancels :
       can[<<t, c>>] \in {"decrement", "record", "dequeue", "done"} => resv[t] # "active"
  /\ \A k \in Attempts :
       /\ att[<<t, k>>].pc \notin Failing
       /\ att[<<t, k>>].pc = "complete" => att[<<t, k>>].charge > 0
       /\ att[<<t, k>>].pc \in Past => resv[t] # "active"

Costs == Cost > 0 /\ 0 \notin Charges
Cleared == faults = 0 /\ Costs => \A t \in Tasks : Clear(t)

\* A step about another task.
LEMMA ClearApart ==
  ASSUME NEW t \in Tasks, Clear(t), sub'[t] = sub[t], resv'[t] = resv[t],
         creditsReserved'[t] = creditsReserved[t],
         \A c \in Cancels : can'[<<t, c>>] = can[<<t, c>>],
         \A k \in Attempts : att'[<<t, k>>] = att[<<t, k>>]
  PROVE  Clear(t)'
BY DEF Clear

LEMMA SubmitClears ==
  ASSUME TypeOK, Fresh, NEW t \in Tasks, Submit(t), \A u \in Tasks : Clear(u)
  PROVE  \A u \in Tasks : Clear(u)'
<1> USE DEF TypeOK, SubmitAt, rows, plane
<1>1. /\ \A u \in Tasks \ {t} : /\ sub'[u] = sub[u] /\ resv'[u] = resv[u]
                                /\ creditsReserved'[u] = creditsReserved[u]
      /\ UNCHANGED <<can, att>>
  BY DEF Submit, SubmitStart, CheckBalance, InsertReservation, IncrementReserved, CreateTask,
     EnqueueJob
<1>2. \A u \in Tasks \ {t} : Clear(u)'
  BY <1>1, ClearApart
<1>3. Clear(t)'
  <2>1. CASE SubmitStart(t) \/ CheckBalance(t)
    BY <2>1 DEF SubmitStart, CheckBalance, Clear
  <2>2. CASE InsertReservation(t)
    <3>1. /\ \A c \in Cancels : can[<<t, c>>] = "idle"
          /\ \A k \in Attempts : att[<<t, k>>].pc = "idle"
      BY <2>2 DEF InsertReservation, Fresh, Early
    <3> QED BY <2>2, <3>1 DEF InsertReservation, Clear, Past, Failing
  <2>3. CASE IncrementReserved(t)
    BY <2>3 DEF IncrementReserved, Clear
  <2>4. CASE CreateTask(t)
    BY <2>4 DEF CreateTask, Clear
  <2>5. CASE EnqueueJob(t)
    BY <2>5 DEF EnqueueJob, Clear
  <2> QED BY <2>1, <2>2, <2>3, <2>4, <2>5 DEF Submit
<1> QED BY <1>2, <1>3

LEMMA CancelClears ==
  ASSUME TypeOK, Fresh, Costs, NEW t \in Tasks, NEW c \in Cancels, Cancel(t, c),
         \A u \in Tasks : Clear(u)
  PROVE  \A u \in Tasks : Clear(u)'
<1> USE DEF TypeOK, CancelAt, rows, plane
<1>1. /\ \A u \in Tasks \ {t} : /\ resv'[u] = resv[u]
                                /\ \A d \in Cancels : can'[<<u, d>>] = can[<<u, d>>]
      /\ \A d \in Cancels \ {c} : can'[<<t, d>>] = can[<<t, d>>]
      /\ resv'[t] = "active" => resv[t] = "active"
      /\ UNCHANGED <<sub, att, creditsReserved>>
  BY DEF Cancel, CancelStart, CancelMark, CancelFind, CancelRelease, CancelDecrement,
     CancelRecord, CancelDequeue
<1>2. \A u \in Tasks \ {t} : Clear(u)'
  BY <1>1, ClearApart
<1>3. can'[<<t, c>>] \in {"decrement", "record", "dequeue", "done"} => resv'[t] # "active"
  <2>1. CASE CancelStart(t, c)
    BY <2>1 DEF CancelStart
  <2>2. CASE CancelMark(t, c)
    <3>1. sub[t] \notin Early
      BY <2>2 DEF CancelMark, Fresh
    <3>2. sub[t] \in {"enqueue", "done"}
      BY <3>1 DEF Early, SubmitPC
    <3>3. creditsReserved[t] > 0
      BY <3>2 DEF Clear, Costs
    <3> QED BY <2>2, <3>3 DEF CancelMark
  <2>3. CASE CancelFind(t, c)
    BY <2>3 DEF CancelFind
  <2>4. CASE CancelRelease(t, c)
    BY <2>4 DEF CancelRelease
  <2>5. CASE CancelDecrement(t, c) \/ CancelRecord(t, c) \/ CancelDequeue(t, c)
    <3>1. can[<<t, c>>] \in {"decrement", "record", "dequeue"}
      BY <2>5 DEF CancelDecrement, CancelRecord, CancelDequeue
    <3> QED BY <1>1, <3>1 DEF Clear
  <2> QED BY <2>1, <2>2, <2>3, <2>4, <2>5 DEF Cancel
<1>4. sub[t] \in {"idle", "check", "insert", "rejected"} => resv'[t] = "none"
  <2>1. can[<<t, c>>] # "idle" \/ status[t] # "none"
    BY DEF Cancel, CancelStart, CancelMark, CancelFind, CancelRelease, CancelDecrement,
       CancelRecord, CancelDequeue
  <2>2. sub[t] \notin Early
    BY <2>1 DEF Fresh
  <2> QED BY <2>2 DEF Early
<1>5. Clear(t)'
  BY <1>1, <1>3, <1>4 DEF Clear
<1> QED BY <1>2, <1>5

LEMMA BrokerClears ==
  ASSUME TypeOK, NEW t \in Tasks, Broker(t) \/ Timeout(t) \/ UpdateStatus(t),
         \A u \in Tasks : Clear(u)
  PROVE  \A u \in Tasks : Clear(u)'
<1>1. UNCHANGED <<sub, resv, creditsReserved, can>>
  BY DEF Broker, Deliver, Retry, Stalled, Timeout, UpdateStatus, rows, plane, procs
<1>2. CASE Deliver(t)
  <2>1. PICK j \in Unstarted(t) : att' = [att EXCEPT ![<<t, j>>].pc = "begin"]
    BY <1>2 DEF Deliver
  <2>2. \A r \in Runs : att'[r] = att[r] \/ att'[r].pc = "begin"
    BY <2>1 DEF TypeOK, AttemptRecords
  <2>3. \A u \in Tasks, k \in Attempts :
          att'[<<u, k>>] = att[<<u, k>>] \/ att'[<<u, k>>].pc = "begin"
    BY <2>2 DEF Runs
  <2> QED BY <1>1, <2>3 DEF Clear, Past, Failing
<1>3. CASE ~ Deliver(t)
  <2>1. att' = att
    BY <1>3 DEF Broker, Retry, Stalled, Timeout, UpdateStatus, procs
  <2> QED BY <1>1, <2>1 DEF Clear
<1> QED BY <1>2, <1>3

\* An attempt reaches the far side of its settlement only with the
\* reservation settled.
LEMMA WorkPasses ==
  ASSUME TypeOK, Costs, NEW t \in Tasks, NEW k \in Attempts, Clear(t),
         Work(t, k) \/ Crash(t, k)
  PROVE  /\ att'[<<t, k>>].pc \notin Failing
         /\ att'[<<t, k>>].pc = "complete" => att'[<<t, k>>].charge > 0
         /\ att'[<<t, k>>].pc \in Past => resv'[t] # "active"
         /\ resv'[t] = resv[t] \/ resv'[t] # "active"
         /\ \A u \in Tasks \ {t} : resv'[u] = resv[u]
         /\ \A q \in Runs \ {<<t, k>>} : att'[q] = att[q]
         /\ UNCHANGED <<sub, can, creditsReserved>>
<1> DEFINE r == <<t, k>>
<1>0. r \in Runs /\ att \in [Runs -> AttemptRecords] /\ att[r].charge \in Nat
      /\ resv \in [Tasks -> {"none", "active", "committed", "released"}]
  BY DEF TypeOK, Runs, AttemptRecords
<1>1. /\ att[r].pc \notin Failing /\ (att[r].pc = "complete" => att[r].charge > 0)
      /\ (att[r].pc \in Past => resv[t] # "active")
  BY DEF Clear
<1> USE <1>0, <1>1 DEF Past, Failing, rows, plane
<1>2. ASSUME NEW from, NEW to, AttemptAt(r, from, to)
      PROVE  /\ att[r].pc = from /\ att'[r].pc = to
             /\ \A q \in Runs \ {r} : att'[q] = att[q]
  BY <1>2, Advances
<1> HIDE DEF r
<1>3. CASE Begin(t, k) \/ CloseSession(t, k) \/ Return(t, k)
  BY <1>2, <1>3 DEF Begin, CloseSession, Return, r
<1>4. CASE CallOrchestrator(t, k)
  <2>1. PICK n \in Charges \cup {FallbackCharge(t)} :
               att' = [att EXCEPT ![r] = [@ EXCEPT !.pc = "complete", !.charge = n]]
    BY <1>4 DEF CallOrchestrator, r
  <2>2. n > 0
    BY <2>1, CreditsNat DEF FallbackCharge, Costs
  <2>3. /\ att'[r].pc = "complete" /\ att'[r].charge = n
        /\ \A q \in Runs \ {r} : att'[q] = att[q]
    BY <2>1 DEF AttemptRecords
  <2> QED BY <1>4, <2>2, <2>3 DEF CallOrchestrator, r
<1>5. CASE Complete(t, k)
  <2>1. att[r].pc = "complete" /\ AttemptAt(r, "complete", IF att[r].charge > 0 THEN "find" ELSE "check")
    BY <1>5 DEF Complete, r, AttemptAt
  <2>2. AttemptAt(r, "complete", "find")
    BY <2>1
  <2> QED BY <1>2, <1>5, <2>2 DEF Complete, r
<1>6. CASE ConsumeFind(t, k)
  <2>1. AttemptAt(r, "find", IF resv[t] = "active" THEN "deduct" ELSE "direct")
    BY <1>6 DEF ConsumeFind, r
  <2> QED BY <1>2, <1>6, <2>1 DEF ConsumeFind, r
<1>7. CASE ConsumeDeduct(t, k) \/ ConsumeDirect(t, k) \/ ConsumeRecord(t, k)
  BY <1>2, <1>7 DEF ConsumeDeduct, ConsumeDirect, ConsumeRecord, r
<1>8. CASE ConsumeMark(t, k)
  BY <1>2, <1>8 DEF ConsumeMark, r
<1>9. CASE CheckSession(t, k)
  <2> DEFINE pc == IF \A u \in Submitted : status[u] \in Terminal THEN "close" ELSE "return"
             any == \E u \in Submitted : status[u] = "failed"
  <2>1. /\ att[r].pc = "check" /\ pc \in {"close", "return"}
        /\ UNCHANGED <<resv, sub, can, creditsReserved>>
        /\ att' = [att EXCEPT ![r] = [@ EXCEPT !.pc = pc, !.failed = any]]
    BY <1>9 DEF CheckSession, r
  <2> HIDE DEF pc, any
  <2>2. att'[r].pc = pc /\ \A q \in Runs \ {r} : att'[q] = att[q]
    BY <2>1 DEF AttemptRecords
  <2> QED BY <2>1, <2>2 DEF r
<1>10. CASE Crash(t, k)
  <2>1. att'[r].pc = "dead" /\ \A q \in Runs \ {r} : att'[q] = att[q]
    BY <1>10 DEF Crash, r, AttemptRecords
  <2> QED BY <1>10, <2>1 DEF Crash, r
<1>11. ~(\/ Catch(t, k) \/ ReleaseFind(t, k) \/ ReleaseDecrement(t, k) \/ ReleaseMark(t, k)
         \/ ReleaseRecord(t, k) \/ Throw(t, k))
  BY DEF Catch, ReleaseFind, ReleaseDecrement, ReleaseMark, ReleaseRecord, Throw, AttemptAt, r
<1> QED BY <1>3, <1>4, <1>5, <1>6, <1>7, <1>8, <1>9, <1>10, <1>11 DEF Work, r

LEMMA WorkClears ==
  ASSUME TypeOK, Fresh, Costs, NEW t \in Tasks, NEW k \in Attempts, Work(t, k) \/ Crash(t, k),
         \A u \in Tasks : Clear(u)
  PROVE  \A u \in Tasks : Clear(u)'
<1>1. /\ att'[<<t, k>>].pc \notin Failing
      /\ att'[<<t, k>>].pc = "complete" => att'[<<t, k>>].charge > 0
      /\ att'[<<t, k>>].pc \in Past => resv'[t] # "active"
      /\ resv'[t] = resv[t] \/ resv'[t] # "active"
      /\ \A u \in Tasks \ {t} : resv'[u] = resv[u]
      /\ \A q \in Runs \ {<<t, k>>} : att'[q] = att[q]
      /\ UNCHANGED <<sub, can, creditsReserved>>
  BY WorkPasses
<1>2. \A u \in Tasks \ {t} : Clear(u)'
  BY <1>1, ClearApart DEF Runs
<1>3. Clear(t)'
  <2>1. sub[t] \notin Early
    BY WorkLocal DEF Local
  <2>2. \A j \in Attempts \ {k} : att'[<<t, j>>] = att[<<t, j>>]
    BY <1>1 DEF Runs
  <2> QED BY <1>1, <2>1, <2>2 DEF Clear, Early
<1> QED BY <1>2, <1>3

\* What has failed or died is never forgotten.
LEMMA EnvGrows ==
  ASSUME TypeOK, [Next]_vars
  PROVE  /\ faults \in Nat /\ crashes \in Nat /\ faults' >= faults /\ crashes' >= crashes
         /\ \A t \in Tasks : ReserveFault(t) => faults' # 0
         /\ \A t \in Tasks, k \in Attempts : Fault(t, k) => faults' # 0
<1>1. faults \in Nat /\ crashes \in Nat
  BY DEF TypeOK
<1>2. ASSUME NEW t \in Tasks, ReserveFault(t) PROVE faults' = faults + 1 /\ crashes' = crashes
  BY <1>2 DEF ReserveFault
<1>3. ASSUME NEW t \in Tasks, NEW k \in Attempts, Fault(t, k)
      PROVE  faults' = faults + 1 /\ crashes' = crashes
  BY <1>3 DEF Fault
<1>4. ASSUME NEW t \in Tasks, NEW k \in Attempts, Crash(t, k)
      PROVE  crashes' = crashes + 1 /\ faults' = faults
  BY <1>4 DEF Crash
<1>5. \/ \E t \in Tasks : ReserveFault(t)
      \/ \E t \in Tasks, k \in Attempts : Fault(t, k) \/ Crash(t, k)
      \/ UNCHANGED env
  BY EnvKept DEF Next, vars
<1>6. faults' >= faults /\ crashes' >= crashes
  BY <1>1, <1>2, <1>3, <1>4, <1>5 DEF env
<1> QED BY <1>1, <1>2, <1>3, <1>6

LEMMA ClearedNext ==
  ASSUME TypeOK, Fresh, Cleared, [Next]_vars
  PROVE  Cleared'
<1> SUFFICES ASSUME faults' = 0, Costs PROVE \A t \in Tasks : Clear(t)'
  BY DEF Cleared, Costs
<1>1. faults = 0 /\ \A t \in Tasks : Clear(t)
  BY EnvGrows DEF Cleared
<1>2. CASE UNCHANGED vars \/ Files
  BY <1>1, <1>2, ClearApart DEF Files, vars, rows, plane, procs
<1>3. \A t \in Tasks : ~ ReserveFault(t) /\ \A k \in Attempts : ~ Fault(t, k)
  BY EnvGrows
<1> QED BY <1>1, <1>2, <1>3, SubmitClears, CancelClears, BrokerClears, WorkClears, FileJobFiles DEF Next

LEMMA UnhamperedBefore ==
  ASSUME TypeOK, [Next]_vars, Unhampered'
  PROVE  /\ Unhampered /\ Costs /\ faults = 0 /\ faults' = 0
         /\ \A t \in Tasks : ~ ReserveFault(t) /\ \A k \in Attempts : ~ Fault(t, k)
<1>1. /\ faults \in Nat /\ crashes \in Nat /\ faults' >= faults /\ crashes' >= crashes
      /\ crashes' \in Nat /\ faults' = 0
  BY EnvGrows, TypeStep DEF TypeOK, Unhampered
<1>2. faults = 0
  BY <1>1
<1>3. crashes = 0 \/ (~ Timeouts /\ crashes <= MaxStalls)
  BY <1>1, BoundsNat DEF Unhampered
<1> QED BY <1>1, <1>2, <1>3, EnvGrows DEF Unhampered, Costs

Unsettled == {"begin", "call", "complete", "find", "deduct", "mark"}
Settler(t) ==
  \/ sub[t] \in {"reserve", "create", "enqueue"} \/ InQueue(t) \/ AtWork(t, Unsettled)

\* Nothing about the task changes.
LEMMA SettlerApart ==
  ASSUME NEW t \in Tasks, Settler(t), sub'[t] = sub[t], job'[t] = job[t], Tally(t),
         \A k \in Attempts : att'[<<t, k>>] = att[<<t, k>>]
  PROVE  Settler(t)'
BY DEF Settler, InQueue, AtWork, Tally

\* A task whose job a live attempt holds is not in the queue.
LEMMA HeldByLive ==
  ASSUME NEW t \in Tasks, Tally(t), job[t].owner # 0, Live(t, job[t].owner)
  PROVE  ~ InQueue(t)
BY DEF Tally, InQueue, Live, Ended

\* Before the step and after it the reservation is active.
LEMMA SubmitSettles ==
  ASSUME TypeOK, NEW t \in Tasks, Tally(t), Clear(t), Submit(t), resv'[t] = "active",
         resv[t] = "active" => Settler(t)
  PROVE  Settler(t)'
<1> USE DEF TypeOK, SubmitAt, rows, queue
<1>1. CASE SubmitStart(t) \/ CheckBalance(t)
  BY <1>1 DEF SubmitStart, CheckBalance, Clear
<1>2. CASE InsertReservation(t) \/ IncrementReserved(t) \/ CreateTask(t)
  <2>1. sub'[t] \in {"reserve", "create", "enqueue"}
    BY <1>2 DEF InsertReservation, IncrementReserved, CreateTask, Clear
  <2> QED BY <2>1 DEF Settler
<1>3. CASE EnqueueJob(t)
  <2>1. job'[t].state = "waiting"
    BY <1>3 DEF EnqueueJob, JobRecords
  <2> QED BY <2>1 DEF Settler, InQueue
<1> QED BY <1>1, <1>2, <1>3 DEF Submit

LEMMA BrokerSettles ==
  ASSUME TypeOK, NEW t \in Tasks, Tally(t), Unhampered,
         Broker(t) \/ Timeout(t) \/ UpdateStatus(t), Settler(t)
  PROVE  Settler(t)'
<1>1. CASE Deliver(t)
  <2>1. PICK k \in Unstarted(t) : att' = [att EXCEPT ![<<t, k>>].pc = "begin"]
    BY <1>1 DEF Deliver
  <2>2. k \in Attempts /\ att'[<<t, k>>].pc = "begin"
    BY <2>1 DEF Unstarted, TypeOK, AttemptRecords, Runs
  <2> QED BY <2>2 DEF Settler, AtWork, Unsettled
<1>2. CASE Retry(t)
  <2>1. job'[t].state = "waiting"
    BY <1>2 DEF Retry, TypeOK, JobRecords
  <2> QED BY <2>1 DEF Settler, InQueue
<1>3. CASE Stalled(t)
  <2> DEFINE o == job[t].owner
  <2>1. job[t].state = "active" /\ att[<<t, o>>].pc = "dead" /\ o \in Attempts
    BY <1>3 DEF Stalled, Tally
  <2>2. Dead(t) \in SUBSET Attempts /\ o \in Dead(t)
    BY <2>1 DEF Dead
  <2>3. Cardinality(Dead(t) \ {o}) = Cardinality(Dead(t)) - 1
    BY <2>2, AttemptsCounted, FS_RemoveElement
  <2>4. /\ job[t].stalls <= Cardinality(Dead(t) \ {o}) /\ Cardinality(Dead(t)) <= crashes
        /\ job[t].stalls \in Nat /\ Cardinality(Dead(t)) \in Nat /\ crashes \in Nat
    BY TallyTypes DEF Tally
  <2>5. crashes <= MaxStalls \/ crashes = 0
    BY DEF Unhampered
  <2> HIDE DEF o
  <2>6. job[t].stalls < MaxStalls
    BY <2>3, <2>4, <2>5, BoundsNat
  <2>7. job'[t].state = "waiting"
    BY <1>3, <2>6 DEF Stalled, TypeOK, JobRecords
  <2> QED BY <2>7 DEF Settler, InQueue
<1>4. CASE Timeout(t)
  <2>1. ~ InQueue(t) /\ UNCHANGED <<sub, att>>
    BY <1>4, HeldByLive DEF Timeout, procs, Tally, Live
  <2> QED BY <2>1 DEF Settler, AtWork
<1>5. CASE UpdateStatus(t)
  BY <1>5, SettlerApart DEF UpdateStatus, queue, procs
<1> QED BY <1>1, <1>2, <1>3, <1>4, <1>5 DEF Broker

LEMMA WorkSettles ==
  ASSUME TypeOK, NEW t \in Tasks, NEW k \in Attempts, Tally(t), Clear(t), Costs,
         Work(t, k) \/ Crash(t, k), Unhampered', resv'[t] = "active", Settler(t)
  PROVE  Settler(t)'
<1>0. <<t, k>> \in Runs /\ k # 0 /\ att[<<t, k>>].pc \in AttemptPC
  BY AttemptsCounted DEF Runs, TypeOK, AttemptRecords
<1>1. /\ att'[<<t, k>>].pc \notin Failing /\ att'[<<t, k>>].pc \notin Past
      /\ \A j \in Attempts \ {k} : att'[<<t, j>>] = att[<<t, j>>]
      /\ sub' = sub /\ resv[t] = "active"
  BY WorkPasses DEF Runs
<1>2. CASE Proceeds(t, k)
  <2>1. att'[<<t, k>>].pc \in AttemptPC \ Ended
    <3>1. att'[<<t, k>>].pc \in AttemptPC
      BY <1>0, TypeWork, TypeCrashFault DEF TypeOK, AttemptRecords
    <3> QED BY <1>2, <3>1 DEF Proceeds
  <2>2. att'[<<t, k>>].pc \in Unsettled
    BY <1>1, <2>1 DEF AttemptPC, Ended, Past, Failing, Unsettled
  <2> QED BY <2>2 DEF Settler, AtWork
<1>3. CASE Return(t, k) \/ Throw(t, k)
  <2>1. att[<<t, k>>].pc \in {"return", "throw"}
    BY <1>3 DEF Return, Throw, AttemptAt
  <2> QED BY <1>1, <2>1 DEF Clear, Past, Failing
<1>4. CASE Crash(t, k)
  <2>1. crashes' # 0
    BY <1>4 DEF Crash, TypeOK
  <2>2. ~ Timeouts
    BY <2>1 DEF Unhampered
  <2>3. job[t].owner = k /\ job[t].state = "active"
    BY <1>0, <1>4, <2>2 DEF Crash, Tally, Live
  <2>4. job' = job /\ att'[<<t, k>>].pc = "dead"
    BY <1>0, <1>4 DEF Crash, queue, TypeOK, AttemptRecords
  <2> QED BY <2>3, <2>4 DEF Settler, InQueue
<1> QED BY <1>2, <1>3, <1>4, WorkProceeds

LEMMA SettlersNext ==
  ASSUME IInv, Tallied, Cleared, [Next]_vars, SettlerRemains
  PROVE  SettlerRemains'
<1>0. TypeOK /\ Fresh
  BY DEF IInv
<1>1. SUFFICES ASSUME Unhampered', NEW u \in Tasks, resv'[u] = "active"
               PROVE  Settler(u)'
  BY DEF SettlerRemains, Settler, Unsettled
<1>2. /\ Unhampered /\ Costs /\ faults = 0
      /\ \A t \in Tasks : ~ ReserveFault(t) /\ \A k \in Attempts : ~ Fault(t, k)
  BY <1>0, <1>1, UnhamperedBefore
<1>3. /\ Tally(u) /\ Clear(u) /\ (resv[u] = "active" => Settler(u))
  BY <1>2 DEF Tallied, Cleared, SettlerRemains, Settler, Unsettled
<1>4. ASSUME NEW t \in Tasks \ {u}, Local(t) PROVE Settler(u)'
  BY <1>1, <1>3, <1>4, SettlerApart DEF Local
<1>5. ASSUME NEW t \in Tasks, Submit(t) PROVE Settler(u)'
  <2>1. CASE t = u
    BY <1>0, <1>1, <1>3, <1>5, <2>1, SubmitSettles
  <2>2. CASE t # u
    <3>1. /\ sub'[u] = sub[u] /\ resv'[u] = resv[u] /\ job'[u] = job[u] /\ att' = att
      BY <1>0, <1>5, <2>2 DEF Submit, SubmitStart, CheckBalance, InsertReservation,
         IncrementReserved, CreateTask, EnqueueJob, SubmitAt, TypeOK, rows, queue
    <3> QED BY <1>1, <1>3, <3>1, SettlerApart
  <2> QED BY <2>1, <2>2
<1>6. ASSUME NEW t \in Tasks, NEW c \in Cancels, Cancel(t, c) PROVE Settler(u)'
  <2>1. CASE t = u
    <3>1. UNCHANGED <<sub, att>> /\ (resv'[u] = "active" => resv[u] = "active")
      BY <1>0, <1>6, <2>1 DEF Cancel, CancelStart, CancelMark, CancelFind, CancelRelease,
         CancelDecrement, CancelRecord, CancelDequeue, TypeOK, rows
    <3>2. job' = job \/ can[<<u, c>>] = "dequeue"
      BY <1>6, <2>1 DEF Cancel, CancelStart, CancelMark, CancelFind, CancelRelease,
         CancelDecrement, CancelRecord, CancelDequeue, CancelAt, queue
    <3>3. job' = job
      BY <1>1, <1>3, <3>1, <3>2 DEF Clear
    <3> QED BY <1>1, <1>3, <3>1, <3>3, SettlerApart
  <2> QED BY <1>0, <1>4, <1>6, <2>1, CancelLocal
<1>7. ASSUME NEW t \in Tasks, Broker(t) \/ Timeout(t) \/ UpdateStatus(t) PROVE Settler(u)'
  <2>1. CASE t = u
    <3>1. resv' = resv
      BY <1>7 DEF Broker, Deliver, Retry, Stalled, Timeout, UpdateStatus, rows
    <3> QED BY <1>0, <1>1, <1>2, <1>3, <1>7, <2>1, <3>1, BrokerSettles
  <2> QED BY <1>0, <1>4, <1>7, <2>1, BrokerLocal
<1>8. ASSUME NEW t \in Tasks, NEW k \in Attempts, Work(t, k) \/ Crash(t, k) PROVE Settler(u)'
  <2>1. CASE t = u
    <3>1. resv[u] = "active"
      BY <1>0, <1>1, <1>2, <1>3, <1>8, <2>1, WorkPasses
    <3> QED BY <1>0, <1>1, <1>2, <1>3, <1>8, <2>1, <3>1, WorkSettles
  <2> QED BY <1>0, <1>4, <1>8, <2>1, WorkLocal
<1>9. CASE UNCHANGED vars \/ Files
  BY <1>1, <1>3, <1>9, SettlerApart DEF Files, vars, rows, queue, procs
<1> QED BY <1>2, <1>5, <1>6, <1>7, <1>8, <1>9, FileJobFiles DEF Next

\* As long as no call fails, and no more workers die than a job may stall
\* (or none, when a job can outlive its time limit), an active reservation
\* is always owed by somebody: the safety half of ReservationSettles, for any
\* number of tasks, cancel requests, attempts and crashes.
THEOREM AlwaysOwed == Spec => []SettlerRemains
<1>1. Init => Cleared /\ SettlerRemains
  <2> SUFFICES ASSUME Init PROVE Cleared /\ SettlerRemains
    OBVIOUS
  <2>1. Cleared
    BY DEF Init, Cleared, Clear, NoAttempt, Runs, Failing, Past
  <2>2. SettlerRemains
    BY DEF Init, SettlerRemains
  <2> QED BY <2>1, <2>2
<1>2. /\ IInv /\ Tallied /\ Cleared /\ SettlerRemains /\ [Next]_vars
      => Cleared' /\ SettlerRemains'
  BY ClearedNext, SettlersNext DEF IInv
<1>3. Spec => []IInv
  BY InvInit, InvStep, PTL DEF Spec
<1> QED BY <1>1, <1>2, <1>3, TalliedAlways, PTL DEF Spec

-----------------------------------------------------------------------------
(* Who runs a task.                                                        *)

Runner(t) == sub[t] = "enqueue" \/ InQueue(t) \/ AtWork(t, {"begin", "call", "complete"})

\* Whoever may still remove the job, once a cancel request has marked the
\* task, finds it running again only because an attempt already has it.
Removing(t) == \E c \in Cancels : can[<<t, c>>] \notin {"idle", "cancel"}
Carried(t) == status[t] \in {"queued", "running"} =>
  Runner(t) /\ (Removing(t) => AtWork(t, {"call", "complete"}))

Quiet == faults = 0 /\ crashes = 0
AllCarried == Quiet => \A t \in Tasks : Carried(t)

\* A step about another task.
LEMMA CarriedApart ==
  ASSUME NEW t \in Tasks, Carried(t), Tally(t), status'[t] = status[t], sub'[t] = sub[t],
         job'[t] = job[t], \A c \in Cancels : can'[<<t, c>>] = can[<<t, c>>],
         \A k \in Attempts : att'[<<t, k>>] = att[<<t, k>>]
  PROVE  Carried(t)'
BY DEF Carried, Runner, Removing, InQueue, AtWork, Tally

LEMMA SubmitCarries ==
  ASSUME TypeOK, Fresh, NEW t \in Tasks, Tally(t), Submit(t), Carried(t)
  PROVE  Carried(t)'
<1> USE DEF TypeOK, SubmitAt, rows, plane, queue, letters
<1>1. CASE SubmitStart(t) \/ CheckBalance(t) \/ InsertReservation(t) \/ IncrementReserved(t)
  <2>1. sub[t] \in Early /\ status' = status
    BY <1>1 DEF SubmitStart, CheckBalance, InsertReservation, IncrementReserved, Early
  <2> QED BY <2>1 DEF Fresh, Carried
<1>2. CASE CreateTask(t)
  <2>1. sub[t] \in Early /\ sub'[t] = "enqueue" /\ can' = can
    BY <1>2 DEF CreateTask, Early
  <2> QED BY <2>1 DEF Fresh, Carried, Runner, Removing
<1>3. CASE EnqueueJob(t)
  <2>1. job'[t].state = "waiting" /\ UNCHANGED <<status, can, att>>
    BY <1>3 DEF EnqueueJob, JobRecords
  <2> QED BY <2>1 DEF Carried, Runner, InQueue, Removing, AtWork
<1> QED BY <1>1, <1>2, <1>3 DEF Submit

LEMMA CancelCarries ==
  ASSUME TypeOK, NEW t \in Tasks, NEW c \in Cancels, Tally(t), Cancel(t, c), Carried(t)
  PROVE  Carried(t)'
<1> USE DEF TypeOK, CancelAt, rows, plane, queue, letters
<1>1. UNCHANGED <<sub, att>> /\ \A d \in Cancels \ {c} : can'[<<t, d>>] = can[<<t, d>>]
  BY DEF Cancel, CancelStart, CancelMark, CancelFind, CancelRelease, CancelDecrement,
     CancelRecord, CancelDequeue
<1>2. CASE CancelMark(t, c)
  <2>1. status'[t] = "cancelled"
    BY <1>2 DEF CancelMark
  <2> QED BY <2>1 DEF Carried
<1>3. CASE CancelStart(t, c)
  <2>1. UNCHANGED <<status, job>> /\ can'[<<t, c>>] = "cancel"
    BY <1>3 DEF CancelStart
  <2>2. Removing(t)' => Removing(t)
    BY <1>1, <2>1 DEF Removing
  <2> QED BY <1>1, <2>1, <2>2 DEF Carried, Runner, InQueue, AtWork, Tally
<1>4. CASE \/ CancelFind(t, c) \/ CancelRelease(t, c) \/ CancelDecrement(t, c)
           \/ CancelRecord(t, c)
  <2>1. UNCHANGED <<status, job>> /\ can[<<t, c>>] \notin {"idle", "cancel"}
    BY <1>4 DEF CancelFind, CancelRelease, CancelDecrement, CancelRecord
  <2>2. Removing(t)
    BY <2>1 DEF Removing
  <2> QED BY <1>1, <2>1, <2>2 DEF Carried, Runner, InQueue, AtWork, Tally
<1>5. CASE CancelDequeue(t, c)
  <2>1. status' = status /\ can[<<t, c>>] = "dequeue"
    BY <1>5 DEF CancelDequeue
  <2>2. Removing(t)
    BY <2>1 DEF Removing
  <2> QED BY <1>1, <2>1, <2>2 DEF Carried, Runner, AtWork
<1> QED BY <1>2, <1>3, <1>4, <1>5 DEF Cancel

LEMMA BrokerCarries ==
  ASSUME TypeOK, NEW t \in Tasks, Tally(t), crashes = 0, Carried(t), Broker(t) \/ Timeout(t)
  PROVE  Carried(t)'
<1>1. UNCHANGED <<status, sub, can>>
  BY DEF Broker, Deliver, Retry, Stalled, Timeout, plane, procs
<1>2. CASE Deliver(t)
  <2>1. PICK k \in Unstarted(t) : att' = [att EXCEPT ![<<t, k>>].pc = "begin"]
    BY <1>2 DEF Deliver
  <2>2. /\ k \in Attempts /\ att[<<t, k>>].pc = "idle" /\ att'[<<t, k>>].pc = "begin"
        /\ \A j \in Attempts \ {k} : att'[<<t, j>>] = att[<<t, j>>]
    BY <2>1 DEF Unstarted, TypeOK, AttemptRecords, Runs
  <2> QED BY <1>1, <2>2 DEF Carried, Runner, Removing, AtWork
<1>3. CASE Retry(t)
  <2>1. job'[t].state = "waiting" /\ att' = att
    BY <1>3 DEF Retry, TypeOK, JobRecords, procs
  <2> QED BY <1>1, <2>1 DEF Carried, Runner, InQueue, Removing, AtWork
<1>4. ~ Stalled(t)
  <2> SUFFICES ASSUME Stalled(t) PROVE FALSE
    OBVIOUS
  <2>1. job[t].owner \in Dead(t)
    BY DEF Stalled, Tally, Dead
  <2>2. Dead(t) \in SUBSET Attempts /\ Cardinality(Dead(t)) <= 0
    BY DEF Dead, Tally
  <2>3. Cardinality(Dead(t)) \in Nat /\ IsFiniteSet(Dead(t))
    BY <2>2, AttemptsCounted
  <2>4. Cardinality(Dead(t)) = 0
    BY <2>2, <2>3
  <2> QED BY <2>1, <2>3, <2>4, FS_EmptySet
<1>5. CASE Timeout(t)
  <2>1. ~ InQueue(t) /\ att' = att
    BY <1>5, HeldByLive DEF Timeout, procs, Tally, Live
  <2> QED BY <1>1, <2>1 DEF Carried, Runner, Removing, AtWork
<1> QED BY <1>2, <1>3, <1>4, <1>5 DEF Broker

\* The task has not moved on, and the attempt either runs it on or was not
\* the one that runs it.
LEMMA WorkRuns ==
  ASSUME TypeOK, NEW t \in Tasks, NEW k \in Attempts, Work(t, k),
         status'[t] \in {"queued", "running"}
  PROVE  /\ UNCHANGED <<sub, can>>
         /\ \A j \in Attempts \ {k} : att'[<<t, j>>] = att[<<t, j>>]
         /\ \/ att'[<<t, k>>].pc \in {"call", "complete"}
            \/ /\ att[<<t, k>>].pc \notin {"begin", "call", "complete"}
               /\ status'[t] = status[t]
<1>0. <<t, k>> \in Runs /\ att \in [Runs -> AttemptRecords] /\ status \in [Tasks -> Statuses \cup {"none"}]
  BY DEF TypeOK, Runs
<1>1. UNCHANGED <<sub, can>>
  BY DEF Work, Begin, CallOrchestrator, Complete, ConsumeFind, ConsumeDeduct, ConsumeMark,
     ConsumeDirect, ConsumeRecord, CheckSession, CloseSession, Return, Catch, ReleaseFind,
     ReleaseDecrement, ReleaseMark, ReleaseRecord, Throw
<1>2. \A q \in Runs \ {<<t, k>>} : att'[q] = att[q]
  <2>1. CASE Return(t, k) \/ Throw(t, k)
    BY <1>0, <2>1 DEF Return, Throw, AttemptAt
  <2> QED BY <2>1, WorkProceeds DEF Proceeds
<1>3. \A j \in Attempts \ {k} : att'[<<t, j>>] = att[<<t, j>>]
  BY <1>2 DEF Runs
<1>4. CASE Begin(t, k)
  BY <1>0, <1>1, <1>3, <1>4 DEF Begin, AttemptAt, AttemptRecords
<1>5. CASE CallOrchestrator(t, k)
  BY <1>0, <1>1, <1>3, <1>5 DEF CallOrchestrator, AttemptRecords
<1>6. ~ Complete(t, k) /\ ~ Catch(t, k)
  BY <1>0 DEF Complete, Catch
<1>7. CASE ~ Begin(t, k) /\ ~ CallOrchestrator(t, k)
  <2>1. /\ att[<<t, k>>].pc \notin {"begin", "call", "complete"} /\ status' = status
    BY <1>6, <1>7 DEF Work, ConsumeFind, ConsumeDeduct, ConsumeMark,
       ConsumeDirect, ConsumeRecord, CheckSession, CloseSession, Return, ReleaseFind,
       ReleaseDecrement, ReleaseMark, ReleaseRecord, Throw, AttemptAt, plane
  <2> QED BY <1>1, <1>3, <2>1
<1> QED BY <1>4, <1>5, <1>7

LEMMA WorkCarries ==
  ASSUME TypeOK, NEW t \in Tasks, NEW k \in Attempts, Tally(t), Work(t, k), Carried(t)
  PROVE  Carried(t)'
<1> SUFFICES ASSUME status'[t] \in {"queued", "running"}
             PROVE  Runner(t)' /\ (Removing(t)' => AtWork(t, {"call", "complete"})')
  BY DEF Carried
<1>1. /\ UNCHANGED <<sub, can>>
      /\ \A j \in Attempts \ {k} : att'[<<t, j>>] = att[<<t, j>>]
      /\ \/ att'[<<t, k>>].pc \in {"call", "complete"}
         \/ /\ att[<<t, k>>].pc \notin {"begin", "call", "complete"}
            /\ status'[t] = status[t]
  BY WorkRuns
<1>2. CASE att'[<<t, k>>].pc \in {"call", "complete"}
  BY <1>2 DEF Runner, AtWork
<1>3. CASE /\ att[<<t, k>>].pc \notin {"begin", "call", "complete"}
           /\ status'[t] = status[t]
  <2>1. Runner(t) /\ (Removing(t) => AtWork(t, {"call", "complete"}))
    BY <1>3 DEF Carried
  <2>2. /\ AtWork(t, {"call", "complete"}) => AtWork(t, {"call", "complete"})'
        /\ AtWork(t, {"begin", "call", "complete"}) => AtWork(t, {"begin", "call", "complete"})'
        /\ Removing(t)' = Removing(t)
    BY <1>1, <1>3 DEF AtWork, Removing
  <2>3. InQueue(t) => InQueue(t)'
    <3>1. CASE Return(t, k) \/ Throw(t, k)
      <4>1. Live(t, k)
        BY <3>1 DEF Return, Throw, AttemptAt, Live, Ended
      <4>2. CASE job[t].owner = k
        BY <4>1, <4>2, AttemptsCounted, HeldByLive
      <4>3. CASE job[t].owner # k
        <5>1. job' = job
          BY <3>1, <4>3 DEF Return, Throw, queue
        <5> QED BY <1>1, <4>3, <5>1 DEF InQueue, Tally
      <4> QED BY <4>2, <4>3
    <3>2. CASE Proceeds(t, k)
      <4>1. job' = job /\ Live(t, k)
        BY <3>2 DEF Proceeds
      <4> QED BY <1>1, <4>1 DEF InQueue, Tally, Live, Ended
    <3> QED BY <3>1, <3>2, WorkProceeds
  <2> QED BY <1>1, <2>1, <2>2, <2>3 DEF Runner
<1> QED BY <1>1, <1>2, <1>3

LEMMA CarriedNext ==
  ASSUME IInv, Tallied, AllCarried, [Next]_vars, UserStatuses \cap {"queued", "running"} = {}
  PROVE  AllCarried'
<1>0. TypeOK /\ Fresh
  BY DEF IInv
<1>1. SUFFICES ASSUME Quiet', NEW u \in Tasks PROVE Carried(u)'
  BY DEF AllCarried
<1>2. /\ Quiet /\ crashes = 0
      /\ \A t \in Tasks : ~ ReserveFault(t) /\ \A k \in Attempts : ~ Fault(t, k) /\ ~ Crash(t, k)
  <2>1. faults = 0 /\ crashes = 0
    BY <1>0, <1>1, EnvGrows DEF Quiet
  <2>2. \A t \in Tasks, k \in Attempts : ~ Crash(t, k)
    BY <1>1, <2>1 DEF Crash, Quiet
  <2>3. \A t \in Tasks : ~ ReserveFault(t) /\ \A k \in Attempts : ~ Fault(t, k)
    BY <1>0, <1>1, EnvGrows DEF Quiet
  <2> QED BY <2>1, <2>2, <2>3 DEF Quiet
<1>3. Carried(u) /\ Tally(u)
  BY <1>2 DEF AllCarried, Tallied
<1>4. ASSUME NEW t \in Tasks \ {u}, Local(t) PROVE Carried(u)'
  BY <1>3, <1>4, CarriedApart DEF Local
<1>5. ASSUME NEW t \in Tasks, Submit(t) PROVE Carried(u)'
  <2>1. CASE t = u
    BY <1>0, <1>3, <1>5, <2>1, SubmitCarries
  <2>2. CASE t # u
    <3>1. /\ sub'[u] = sub[u] /\ status'[u] = status[u] /\ job'[u] = job[u]
          /\ UNCHANGED <<can, att>>
      BY <1>0, <1>5, <2>2 DEF Submit, SubmitStart, CheckBalance, InsertReservation,
         IncrementReserved, CreateTask, EnqueueJob, SubmitAt, TypeOK, plane, queue, letters
    <3> QED BY <1>3, <3>1, CarriedApart
  <2> QED BY <2>1, <2>2
<1>6. ASSUME NEW t \in Tasks, NEW c \in Cancels, Cancel(t, c) PROVE Carried(u)'
  <2>1. CASE t = u
    BY <1>0, <1>3, <1>6, <2>1, CancelCarries
  <2> QED BY <1>0, <1>4, <1>6, <2>1, CancelLocal
<1>7. ASSUME NEW t \in Tasks, Broker(t) \/ Timeout(t) \/ UpdateStatus(t) PROVE Carried(u)'
  <2>1. CASE t = u
    <3>1. CASE UpdateStatus(t)
      <4>1. status'[t] \notin {"queued", "running"}
        BY <1>0, <3>1 DEF UpdateStatus, TypeOK
      <4> QED BY <2>1, <4>1 DEF Carried
    <3> QED BY <1>0, <1>2, <1>3, <1>7, <2>1, <3>1, BrokerCarries
  <2> QED BY <1>0, <1>4, <1>7, <2>1, BrokerLocal
<1>8. ASSUME NEW t \in Tasks, NEW k \in Attempts, Work(t, k) PROVE Carried(u)'
  <2>1. CASE t = u
    BY <1>0, <1>3, <1>8, <2>1, WorkCarries
  <2> QED BY <1>0, <1>4, <1>8, <2>1, WorkLocal
<1>9. CASE UNCHANGED vars \/ Files
  BY <1>3, <1>9, CarriedApart DEF Files, vars, plane, queue, letters, procs
<1> QED BY <1>2, <1>5, <1>6, <1>7, <1>8, <1>9, FileJobFiles DEF Next

\* As long as no call fails, no worker dies and no user writes "queued" or
\* "running" by hand, a task shown as queued or running always has somebody
\* left to run it: the safety half of TaskEnds, for any number of tasks,
\* cancel requests and attempts, with or without the job time limit.
THEOREM AlwaysRun ==
  ASSUME UserStatuses \cap {"queued", "running"} = {}
  PROVE  Spec => []RunnerRemains
<1>1. Init => AllCarried
  BY DEF Init, AllCarried, Carried
<1>2. IInv /\ Tallied /\ AllCarried /\ [Next]_vars => AllCarried'
  BY CarriedNext
<1>3. AllCarried => RunnerRemains
  BY DEF AllCarried, Quiet, Carried, Runner, RunnerRemains
<1>4. Spec => []IInv
  BY InvInit, InvStep, PTL DEF Spec
<1> QED BY <1>1, <1>2, <1>3, <1>4, TalliedAlways, PTL DEF Spec

-----------------------------------------------------------------------------
(* What a task is charged.  ChargedOnce does not hold: an attempt that     *)
(* timed out, lost its worker or failed after it had charged the task is   *)
(* followed by another that charges it again.  It is never worse than      *)
(* that, and without these three it does hold.                             *)

Unpaid == {"idle", "begin", "call", "complete", "find", "deduct", "mark", "direct", "record"}
Paid(t) == {k \in Attempts : att[<<t, k>>].pc \notin Unpaid}
Dearest(m) == \A n \in Charges \cup {2} : n <= m
Within(m) == /\ \A r \in Runs : att[r].charge <= m
             /\ \A t \in Tasks : spent[t] <= m * Cardinality(Paid(t))

\* An attempt never comes back before its consumption row, and writes one.
LEMMA WorkPays ==
  ASSUME TypeOK, NEW t \in Tasks, NEW k \in Attempts, Work(t, k) \/ Crash(t, k) \/ Fault(t, k),
         NEW m \in Nat, Dearest(m), att[<<t, k>>].charge <= m
  PROVE  /\ \A q \in Runs \ {<<t, k>>} : att'[q] = att[q]
         /\ att'[<<t, k>>].charge <= m
         /\ att[<<t, k>>].pc \notin Unpaid => att'[<<t, k>>].pc \notin Unpaid
         /\ \/ spent' = spent
            \/ /\ att[<<t, k>>].pc = "record" /\ att'[<<t, k>>].pc = "check"
               /\ spent' = [spent EXCEPT ![t] = @ + att[<<t, k>>].charge]
<1> DEFINE r == <<t, k>>
<1>0. r \in Runs /\ att \in [Runs -> AttemptRecords] /\ att[r].charge <= m
  BY DEF TypeOK, Runs
<1>1. ASSUME NEW from, NEW to, AttemptAt(r, from, to)
      PROVE  /\ att[r].pc = from /\ att'[r].pc = to /\ att'[r].charge <= m
             /\ \A q \in Runs \ {r} : att'[q] = att[q]
  BY <1>0, <1>1, Advances
<1> USE <1>0 DEF Unpaid, rows
<1> HIDE DEF r
<1>2. CASE Begin(t, k) \/ CloseSession(t, k) \/ Return(t, k)
  BY <1>1, <1>2 DEF Begin, CloseSession, Return, r
<1>3. CASE CallOrchestrator(t, k)
  <2>1. PICK n \in Charges \cup {FallbackCharge(t)} :
               att' = [att EXCEPT ![r] = [@ EXCEPT !.pc = "complete", !.charge = n]]
    BY <1>3 DEF CallOrchestrator, r
  <2>2. n <= m
    <3>1. creditsReserved[t] \in Nat /\ 2 <= m /\ m \in Nat
      BY CreditsNat DEF TypeOK, Dearest
    <3>2. FallbackCharge(t) <= 2
      BY <3>1 DEF FallbackCharge
    <3>3. FallbackCharge(t) \in Nat
      BY <3>1 DEF FallbackCharge
    <3> QED BY <2>1, <3>1, <3>2, <3>3 DEF Dearest
  <2>3. /\ att'[r].pc = "complete" /\ att'[r].charge = n
        /\ \A q \in Runs \ {r} : att'[q] = att[q]
    BY <2>1 DEF AttemptRecords
  <2>4. att[r].pc = "call" /\ spent' = spent
    BY <1>3 DEF CallOrchestrator, r
  <2> QED BY <2>2, <2>3, <2>4 DEF r
<1>4. CASE Complete(t, k)
  <2>1. PICK to : AttemptAt(r, "complete", to) /\ spent' = spent
    BY <1>4 DEF Complete, r
  <2> QED BY <1>1, <2>1 DEF r
<1>5. CASE ConsumeFind(t, k)
  <2>1. PICK to : AttemptAt(r, "find", to) /\ spent' = spent
    BY <1>5 DEF ConsumeFind, r
  <2> QED BY <1>1, <2>1 DEF r
<1>6. CASE ConsumeDeduct(t, k) \/ ConsumeMark(t, k) \/ ConsumeDirect(t, k)
  BY <1>1, <1>6 DEF ConsumeDeduct, ConsumeMark, ConsumeDirect, r
<1>7. CASE ConsumeRecord(t, k)
  BY <1>1, <1>7 DEF ConsumeRecord, r
<1>8. CASE CheckSession(t, k)
  <2> DEFINE pc == IF \A u \in Submitted : status[u] \in Terminal THEN "close" ELSE "return"
             any == \E u \in Submitted : status[u] = "failed"
  <2>1. /\ att[r].pc = "check" /\ pc \in {"close", "return"} /\ spent' = spent
        /\ att' = [att EXCEPT ![r] = [@ EXCEPT !.pc = pc, !.failed = any]]
    BY <1>8 DEF CheckSession, r
  <2> HIDE DEF pc, any
  <2>2. att'[r].pc = pc /\ att'[r].charge = att[r].charge /\ \A q \in Runs \ {r} : att'[q] = att[q]
    BY <2>1 DEF AttemptRecords
  <2> QED BY <2>1, <2>2 DEF r
<1>9. CASE ReleaseFind(t, k)
  <2>1. AttemptAt(r, "relFind", IF resv[t] = "active" THEN "relDec" ELSE "throw")
    BY <1>9 DEF ReleaseFind, r
  <2> QED BY <1>1, <1>9, <2>1 DEF ReleaseFind, r
<1>10. CASE \/ Catch(t, k) \/ ReleaseDecrement(t, k) \/ ReleaseMark(t, k)
            \/ ReleaseRecord(t, k) \/ Throw(t, k)
  BY <1>1, <1>10 DEF Catch, ReleaseDecrement, ReleaseMark, ReleaseRecord, Throw, r
<1>11. CASE Crash(t, k)
  <2>1. /\ att'[r].pc = "dead" /\ att'[r].charge = att[r].charge
        /\ \A q \in Runs \ {r} : att'[q] = att[q]
    BY <1>11 DEF Crash, r, AttemptRecords
  <2> QED BY <1>11, <2>1 DEF Crash, r
<1>12. CASE Fault(t, k)
  <2>0. PICK to \in AfterFault(att[r].pc) : att' = [att EXCEPT ![r].pc = to]
    BY <1>12 DEF Fault, r
  <2>1. /\ att'[r].pc = to /\ att'[r].charge = att[r].charge
        /\ \A q \in Runs \ {r} : att'[q] = att[q]
    BY <2>0 DEF r, AttemptRecords
  <2>2. att[r].pc \in AttemptPC \ (Ended \cup {"throw"}) /\ spent' = spent
    BY <1>12 DEF Fault, r, AttemptRecords, rows
  <2>3. to \notin Unpaid
    BY <2>0, <2>2 DEF AfterFault, AttemptPC, Ended, Unpaid
  <2> QED BY <2>1, <2>2, <2>3 DEF r
<1> QED BY <1>2, <1>3, <1>4, <1>5, <1>6, <1>7, <1>8, <1>9, <1>10, <1>11, <1>12 DEF Work, r

LEMMA PaidCounted ==
  ASSUME NEW t \in Tasks
  PROVE  /\ IsFiniteSet(Paid(t)) /\ Cardinality(Paid(t)) \in Nat
         /\ IsFiniteSet(Paid(t)') /\ Cardinality(Paid(t)') \in Nat
<1>1. Paid(t) \in SUBSET Attempts /\ Paid(t)' \in SUBSET Attempts
  BY DEF Paid
<1> QED BY <1>1, AttemptsCounted

\* Steps that charge nobody.
LEMMA WithinSame ==
  ASSUME TypeOK, NEW m \in Nat, Within(m), spent' = spent,
         \A r \in Runs : att'[r].charge <= m /\ (att[r].pc \notin Unpaid => att'[r].pc \notin Unpaid)
  PROVE  Within(m)'
<1>1. ASSUME NEW t \in Tasks PROVE spent'[t] <= m * Cardinality(Paid(t)')
  <2>1. Paid(t) \subseteq Paid(t)'
    BY DEF Paid, Runs
  <2>2. Cardinality(Paid(t)) <= Cardinality(Paid(t)')
    BY <2>1, PaidCounted, FS_Subset
  <2>3. m * Cardinality(Paid(t)) <= m * Cardinality(Paid(t)')
    BY <2>2, PaidCounted, TimesMonotone
  <2>4. /\ spent[t] \in Nat /\ spent'[t] = spent[t] /\ spent[t] <= m * Cardinality(Paid(t))
        /\ m * Cardinality(Paid(t)) \in Nat /\ m * Cardinality(Paid(t)') \in Nat
    BY PaidCounted DEF TypeOK, Within
  <2> HIDE DEF Paid
  <2> QED BY <2>3, <2>4
<1> QED BY <1>1 DEF Within

LEMMA WorkWithin ==
  ASSUME TypeOK, NEW m \in Nat, Dearest(m), Within(m), NEW t \in Tasks, NEW k \in Attempts,
         Work(t, k) \/ Crash(t, k) \/ Fault(t, k)
  PROVE  Within(m)'
<1> DEFINE r == <<t, k>>
<1>1. r \in Runs /\ att[r].charge \in Nat /\ att[r].charge <= m
  BY DEF Runs, TypeOK, AttemptRecords, Within
<1>2. /\ \A q \in Runs \ {r} : att'[q] = att[q]
      /\ att'[r].charge <= m
      /\ att[r].pc \notin Unpaid => att'[r].pc \notin Unpaid
      /\ \/ spent' = spent
         \/ /\ att[r].pc = "record" /\ att'[r].pc = "check"
            /\ spent' = [spent EXCEPT ![t] = @ + att[r].charge]
  BY <1>1, WorkPays
<1>3. \A q \in Runs : att'[q].charge <= m /\ (att[q].pc \notin Unpaid => att'[q].pc \notin Unpaid)
  BY <1>2 DEF Within
<1>4. CASE spent' = spent
  BY <1>3, <1>4, WithinSame
<1>5. CASE /\ att[r].pc = "record" /\ att'[r].pc = "check"
           /\ spent' = [spent EXCEPT ![t] = @ + att[r].charge]
  <2>1. ASSUME NEW u \in Tasks \ {t} PROVE spent'[u] <= m * Cardinality(Paid(u)')
    <3>1. Paid(u)' = Paid(u)
      BY <1>2 DEF Paid, Runs
    <3> QED BY <1>5, <3>1 DEF Within, TypeOK
  <2>2. spent'[t] <= m * Cardinality(Paid(t)')
    <3>1. Paid(t)' = Paid(t) \cup {k} /\ k \notin Paid(t)
      BY <1>2, <1>5 DEF Paid, Runs, Unpaid
    <3>2. Cardinality(Paid(t)') = Cardinality(Paid(t)) + 1
      BY <3>1, PaidCounted, FS_AddElement
    <3>3. /\ spent'[t] = spent[t] + att[r].charge /\ spent[t] \in Nat
          /\ spent[t] <= m * Cardinality(Paid(t)) /\ Cardinality(Paid(t)) \in Nat
      BY <1>5, PaidCounted DEF TypeOK, Within
    <3>4. m * (Cardinality(Paid(t)) + 1) = m * Cardinality(Paid(t)) + m
          /\ m * Cardinality(Paid(t)) \in Nat
      BY <3>3
    <3> HIDE DEF r
    <3> QED BY <1>1, <3>2, <3>3, <3>4
  <2> QED BY <1>3, <2>1, <2>2 DEF Within
<1> QED BY <1>2, <1>4, <1>5

LEMMA WithinNext == \A m \in Nat : TypeOK /\ Dearest(m) /\ Within(m) /\ [Next]_vars => Within(m)'
<1> SUFFICES ASSUME NEW m \in Nat, TypeOK, Dearest(m), Within(m), [Next]_vars PROVE Within(m)'
  OBVIOUS
<1>1. ASSUME UNCHANGED <<spent, att>> PROVE Within(m)'
  BY <1>1, WithinSame DEF Within
<1>2. ASSUME NEW t \in Tasks, Deliver(t) PROVE Within(m)'
  <2>1. PICK k \in Unstarted(t) : att' = [att EXCEPT ![<<t, k>>].pc = "begin"]
    BY <1>2 DEF Deliver
  <2>2. <<t, k>> \in Runs /\ att[<<t, k>>].pc = "idle" /\ spent' = spent
    BY <1>2 DEF Unstarted, Runs, Deliver, rows
  <2>3. \A r \in Runs : att'[r].charge = att[r].charge
                        /\ (att[r].pc \notin Unpaid => att'[r].pc \notin Unpaid)
    BY <2>1, <2>2 DEF TypeOK, AttemptRecords, Unpaid
  <2> QED BY <2>2, <2>3, WithinSame DEF Within
<1>3. ASSUME NEW t \in Tasks, \/ Submit(t) \/ ReserveFault(t) \/ UpdateStatus(t) \/ Retry(t)
                              \/ Stalled(t) \/ Timeout(t)
      PROVE  Within(m)'
  BY <1>1, <1>3 DEF Submit, SubmitStart, CheckBalance, InsertReservation, IncrementReserved,
     CreateTask, EnqueueJob, ReserveFault, UpdateStatus, Retry, Stalled, Timeout, rows, procs
<1>4. ASSUME NEW t \in Tasks, NEW c \in Cancels, Cancel(t, c) PROVE Within(m)'
  BY <1>1, <1>4 DEF Cancel, CancelStart, CancelMark, CancelFind, CancelRelease, CancelDecrement,
     CancelRecord, CancelDequeue, rows
<1>5. CASE UNCHANGED vars \/ Files
  BY <1>1, <1>5 DEF Files, vars, rows, procs
<1> QED BY <1>2, <1>3, <1>4, <1>5, WorkWithin, FileJobFiles DEF Next, Broker

LEMMA WithinInit == \A m \in Nat : Init => Within(m)
<1> SUFFICES ASSUME NEW m \in Nat, Init PROVE Within(m)
  OBVIOUS
<1>1. \A t \in Tasks : m * Cardinality(Paid(t)) \in Nat
  BY PaidCounted
<1> QED BY <1>1 DEF Init, Within, NoAttempt

\* However a task is retried, times out or loses its workers, it pays at most
\* once for each attempt that was handed out.
THEOREM PaysPerAttempt ==
  ASSUME NEW m \in Nat, Dearest(m)
  PROVE  Spec => [](\A t \in Tasks : spent[t] <= m * Cardinality(Started(t)))
<1>1. ASSUME TypeOK, Within(m), NEW t \in Tasks PROVE spent[t] <= m * Cardinality(Started(t))
  <2>1. Paid(t) \subseteq Started(t) /\ Started(t) \in SUBSET Attempts
    BY DEF Paid, Started, Unpaid
  <2>2. Cardinality(Paid(t)) <= Cardinality(Started(t)) /\ Cardinality(Started(t)) \in Nat
    BY <2>1, AttemptsCounted, FS_Subset
  <2>3. m * Cardinality(Paid(t)) <= m * Cardinality(Started(t))
    BY <2>2, PaidCounted, TimesMonotone
  <2>4. /\ spent[t] \in Nat /\ spent[t] <= m * Cardinality(Paid(t))
        /\ m * Cardinality(Paid(t)) \in Nat /\ m * Cardinality(Started(t)) \in Nat
    BY <1>1, <2>2, PaidCounted DEF TypeOK, Within
  <2> HIDE DEF Paid, Started
  <2> QED BY <2>3, <2>4
<1>2. TypeOK /\ Within(m) => \A t \in Tasks : spent[t] <= m * Cardinality(Started(t))
  BY <1>1
<1>3. (Init => Within(m)) /\ (TypeOK /\ Within(m) /\ [Next]_vars => Within(m)')
  BY WithinInit, WithinNext
<1> QED BY <1>2, <1>3, TypeCorrect, PTL DEF Spec

\* No attempt fails, and no job is given up, unless a call failed.
Unfailed == faults = 0 => \A r \in Runs : att[r].pc \notin Failing
NoneMade == faults = 0 /\ ~ Timeouts => \A t \in Tasks : job[t].made = 0

LEMMA WorkFailsNot ==
  ASSUME TypeOK, NEW t \in Tasks, NEW k \in Attempts, Work(t, k) \/ Crash(t, k),
         att[<<t, k>>].pc \notin Failing
  PROVE  /\ \A q \in Runs \ {<<t, k>>} : att'[q] = att[q]
         /\ att'[<<t, k>>].pc \notin Failing
         /\ ~ Throw(t, k)
<1> DEFINE r == <<t, k>>
<1>0. r \in Runs /\ att \in [Runs -> AttemptRecords]
  BY DEF TypeOK, Runs
<1> USE <1>0 DEF Failing
<1>1. ASSUME NEW from, NEW to, AttemptAt(r, from, to)
      PROVE  att'[r].pc = to /\ \A q \in Runs \ {r} : att'[q] = att[q]
  BY <1>1, Advances
<1>2. ~(\/ Catch(t, k) \/ ReleaseFind(t, k) \/ ReleaseDecrement(t, k) \/ ReleaseMark(t, k)
        \/ ReleaseRecord(t, k) \/ Throw(t, k))
  BY DEF Catch, ReleaseFind, ReleaseDecrement, ReleaseMark, ReleaseRecord, Throw, AttemptAt
<1> HIDE DEF r
<1>3. CASE Begin(t, k) \/ CloseSession(t, k) \/ Return(t, k)
  BY <1>1, <1>2, <1>3 DEF Begin, CloseSession, Return, r
<1>4. CASE CallOrchestrator(t, k)
  BY <1>2, <1>4 DEF CallOrchestrator, AttemptRecords, r
<1>5. CASE Complete(t, k)
  <2>1. PICK to \in {"find", "check"} : AttemptAt(r, "complete", to)
    BY <1>5 DEF Complete, r
  <2> QED BY <1>1, <1>2, <2>1 DEF r
<1>6. CASE ConsumeFind(t, k)
  <2>1. PICK to \in {"deduct", "direct"} : AttemptAt(r, "find", to)
    BY <1>6 DEF ConsumeFind, r
  <2> QED BY <1>1, <1>2, <2>1 DEF r
<1>7. CASE ConsumeDeduct(t, k) \/ ConsumeMark(t, k) \/ ConsumeDirect(t, k) \/ ConsumeRecord(t, k)
  BY <1>1, <1>2, <1>7 DEF ConsumeDeduct, ConsumeMark, ConsumeDirect, ConsumeRecord, r
<1>8. CASE CheckSession(t, k)
  <2> DEFINE pc == IF \A u \in Submitted : status[u] \in Terminal THEN "close" ELSE "return"
             any == \E u \in Submitted : status[u] = "failed"
  <2>1. /\ pc \in {"close", "return"}
        /\ att' = [att EXCEPT ![r] = [@ EXCEPT !.pc = pc, !.failed = any]]
    BY <1>8 DEF CheckSession, r
  <2> HIDE DEF pc, any
  <2>2. att'[r].pc = pc /\ \A q \in Runs \ {r} : att'[q] = att[q]
    BY <2>1 DEF AttemptRecords
  <2> QED BY <1>2, <2>1, <2>2 DEF r
<1>9. CASE Crash(t, k)
  BY <1>2, <1>9 DEF Crash, AttemptRecords, r
<1> QED BY <1>2, <1>3, <1>4, <1>5, <1>6, <1>7, <1>8, <1>9 DEF Work, r

LEMMA UnfailedNext == TypeOK /\ Unfailed /\ NoneMade /\ [Next]_vars => Unfailed' /\ NoneMade'
<1> SUFFICES ASSUME TypeOK, Unfailed, NoneMade, [Next]_vars, faults' = 0
             PROVE  /\ \A r \in Runs : att'[r].pc \notin Failing
                    /\ ~ Timeouts => \A t \in Tasks : job'[t].made = 0
  BY DEF Unfailed, NoneMade
<1>0. /\ \A r \in Runs : att[r].pc \notin Failing
      /\ ~ Timeouts => \A t \in Tasks : job[t].made = 0
      /\ \A t \in Tasks : ~ ReserveFault(t) /\ \A k \in Attempts : ~ Fault(t, k)
  BY EnvGrows DEF Unfailed, NoneMade
<1> USE DEF TypeOK, JobRecords, queue
<1>1. ASSUME NEW t \in Tasks, Submit(t) \/ UpdateStatus(t)
      PROVE  att' = att /\ \A u \in Tasks : job'[u].made = job[u].made
  BY <1>1 DEF Submit, SubmitStart, CheckBalance, InsertReservation, IncrementReserved,
     CreateTask, EnqueueJob, UpdateStatus, procs
<1>2. ASSUME NEW t \in Tasks, NEW c \in Cancels, Cancel(t, c)
      PROVE  att' = att /\ \A u \in Tasks : job'[u].made = job[u].made
  BY <1>2 DEF Cancel, CancelStart, CancelMark, CancelFind, CancelRelease, CancelDecrement,
     CancelRecord, CancelDequeue
<1>3. ASSUME NEW t \in Tasks, Deliver(t)
      PROVE  /\ \A r \in Runs : att'[r].pc \notin Failing
             /\ \A u \in Tasks : job'[u].made = job[u].made
  <2>1. PICK k \in Unstarted(t) :
          /\ att' = [att EXCEPT ![<<t, k>>].pc = "begin"]
          /\ job' = [job EXCEPT ![t] = [@ EXCEPT !.state = "active", !.owner = k]]
    BY <1>3 DEF Deliver
  <2>2. \A r \in Runs : att'[r] = att[r] \/ att'[r].pc = "begin"
    BY <2>1 DEF AttemptRecords
  <2>3. \A u \in Tasks : job'[u].made = job[u].made
    BY <2>1
  <2> QED BY <1>0, <2>2, <2>3 DEF Failing
<1>4. ASSUME NEW t \in Tasks, Retry(t) \/ Stalled(t)
      PROVE  att' = att /\ \A u \in Tasks : job'[u].made = job[u].made
  <2>1. CASE Retry(t)
    BY <2>1 DEF Retry, procs
  <2>2. CASE Stalled(t)
    <3> DEFINE st == IF job[t].stalls < MaxStalls THEN "waiting" ELSE "failed"
               n == job[t].stalls + 1
    <3>1. /\ att' = att /\ job' = [job EXCEPT ![t] =
               [@ EXCEPT !.owner = 0, !.stalls = n, !.state = st]]
      BY <2>2 DEF Stalled, procs
    <3> HIDE DEF st, n
    <3> QED BY <3>1
  <2> QED BY <1>4, <2>1, <2>2
<1>5. ASSUME NEW t \in Tasks, Timeout(t) PROVE att' = att /\ Timeouts
  BY <1>5 DEF Timeout, procs
<1>6. ASSUME NEW t \in Tasks, NEW k \in Attempts, Work(t, k) \/ Crash(t, k)
      PROVE  /\ \A r \in Runs : att'[r].pc \notin Failing
             /\ \A u \in Tasks : job'[u].made = job[u].made
  <2>1. <<t, k>> \in Runs
    BY DEF Runs
  <2>2. /\ \A q \in Runs \ {<<t, k>>} : att'[q] = att[q]
        /\ att'[<<t, k>>].pc \notin Failing /\ ~ Throw(t, k)
    BY <1>0, <1>6, <2>1, WorkFailsNot
  <2>3. CASE Return(t, k)
    BY <1>0, <2>2, <2>3 DEF Return
  <2>4. CASE ~ Return(t, k)
    <3>1. job' = job
      BY <1>6, <2>2, <2>4, WorkProceeds DEF Proceeds, Crash
    <3> QED BY <1>0, <2>2, <3>1
  <2> QED BY <2>3, <2>4
<1>7. CASE UNCHANGED vars \/ Files
  BY <1>0, <1>7 DEF Files, vars, procs
<1> QED BY <1>0, <1>1, <1>2, <1>3, <1>4, <1>5, <1>6, <1>7, FileJobFiles DEF Next, Broker

\* What is left of "a task is paid for once": it holds of every task for
\* which no call failed, no worker died and no time limit passed, whatever
\* was cancelled or submitted meanwhile.
Serene == faults = 0 /\ crashes = 0 /\ ~ Timeouts

THEOREM PaysOnceWhenSerene ==
  ASSUME \E n \in Charges \cup {2} : Dearest(n)
  PROVE  Spec => [](Serene => ChargedOnce)
<1> DEFINE m == MaxCharge
<1>1. m \in Nat /\ Dearest(m)
  <2>1. \E n \in Charges \cup {2} : \A k \in Charges \cup {2} : k <= n
    BY DEF Dearest
  <2>2. m \in Charges \cup {2} /\ \A k \in Charges \cup {2} : k <= m
    BY <2>1, Zenon DEF MaxCharge
  <2> QED BY <2>2, CreditsNat DEF Dearest
<1> HIDE DEF m
<1>2. ASSUME Init PROVE Unfailed /\ NoneMade
  BY <1>2 DEF Init, Unfailed, NoneMade, NoAttempt, NoJob, Failing
<1>3. ASSUME TypeOK, Tallied, NoneMade, Serene, Within(m), NEW t \in Tasks PROVE spent[t] <= m
  <2>1. job[t].made = 0 /\ Tally(t) /\ crashes = 0
    BY <1>3 DEF NoneMade, Serene, Tallied
  <2>2. /\ Dead(t) \in SUBSET Attempts /\ Dead(t) \ {job[t].owner} \in SUBSET Dead(t)
        /\ Paid(t) \subseteq Started(t) /\ Started(t) \in SUBSET Attempts
    BY DEF Dead, Paid, Started, Unpaid
  <2>3. /\ Cardinality(Dead(t) \ {job[t].owner}) <= Cardinality(Dead(t))
        /\ Cardinality(Paid(t)) <= Cardinality(Started(t))
    BY <2>2, AttemptsCounted, FS_Subset
  <2>4. /\ job[t].stalls \in Nat /\ Cardinality(Dead(t)) \in Nat /\ Cardinality(Started(t)) \in Nat
        /\ Cardinality(Dead(t) \ {job[t].owner}) \in Nat /\ Cardinality(Paid(t)) \in Nat
    BY <1>3, TallyTypes, PaidCounted
  <2>5. job[t].stalls <= Cardinality(Dead(t) \ {job[t].owner}) /\ Cardinality(Dead(t)) <= crashes
    BY <2>1 DEF Tally
  <2>6. job[t].stalls = 0
    BY <2>1, <2>3, <2>4, <2>5
  <2>7. Cardinality(Started(t)) <= 1
    <3>1. Cardinality(Started(t)) <= 0 + 0 + (IF job[t].state \in Between THEN 0 ELSE 1)
      BY <2>1, <2>6 DEF Tally
    <3> QED BY <2>4, <3>1
  <2>8. m * Cardinality(Paid(t)) <= m * 1
    BY <1>1, <2>3, <2>4, <2>7, TimesMonotone
  <2>9. spent[t] \in Nat /\ spent[t] <= m * Cardinality(Paid(t)) /\ m * Cardinality(Paid(t)) \in Nat
    BY <1>1, <1>3, <2>4 DEF TypeOK, Within
  <2> QED BY <1>1, <2>8, <2>9
<1>4. TypeOK /\ Tallied /\ NoneMade /\ Within(m) => (Serene => ChargedOnce)
  BY <1>3 DEF ChargedOnce, m
<1>5. Init => Within(m)
  BY <1>1, WithinInit
<1>6. TypeOK /\ Within(m) /\ [Next]_vars => Within(m)'
  BY <1>1, WithinNext
<1> QED BY <1>2, <1>4, <1>5, <1>6, UnfailedNext, TypeCorrect, TalliedAlways, PTL DEF Spec

-----------------------------------------------------------------------------
(* The counter exactly.  While nothing fails, whoever found a reservation  *)
(* active is alone at settling it unless somebody else claimed it too; so  *)
(* each decrement takes what its own reservation holds.                    *)

Opens(t, c) == can[<<t, c>>] \in {"release", "decrement"}
Takes(t, k) == att[<<t, k>>].pc \in {"deduct", "mark", "relDec", "relMark"}

Sole(t) ==
  /\ claims[t] \in Nat /\ sub[t] # "createBare"
  /\ sub[t] \in Early => claims[t] = 0
  /\ resv[t] = "active" => sub[t] \in Raised \cup {"reserve"}
  /\ \A c \in Cancels : Opens(t, c) =>
       /\ claims[t] = 1 /\ (can[<<t, c>>] = "release" <=> resv[t] = "active")
       /\ \A d \in Cancels \ {c} : ~ Opens(t, d)
       /\ \A k \in Attempts : ~ Takes(t, k)
  /\ \A k \in Attempts : Takes(t, k) =>
       /\ claims[t] = 1 /\ resv[t] = "active"
       /\ \A j \in Attempts \ {k} : ~ Takes(t, j)
  /\ resv[t] = "active" /\ claims[t] # 0 =>
       (\E c \in Cancels : Opens(t, c)) \/ (\E k \in Attempts : Takes(t, k))

OneClaim == \A t \in Tasks : claims[t] <= 1
Exactly == reserved = Cost * Cardinality(Counted)
Exact == Calm /\ OneClaim => Exactly /\ \A t \in Tasks : Sole(t)

\* What a step may do to task t and to the counter: nothing, or one task
\* leaves or enters it with its own credits.
Balanced(t) ==
  /\ Sole(t)'
  /\ \/ reserved' = reserved /\ (t \in Counted' <=> t \in Counted)
     \/ reserved' = Minus(reserved, Cost) /\ t \in Counted /\ t \notin Counted'
     \/ reserved' = reserved + Cost /\ t \notin Counted /\ t \in Counted'

\* Nobody begins or ends settling the reservation of t.
Resting(t) ==
  /\ claims'[t] = claims[t] /\ resv'[t] = resv[t] /\ sub'[t] = sub[t]
  /\ \A c \in Cancels : \/ can'[<<t, c>>] = can[<<t, c>>]
                        \/ ~ Opens(t, c) /\ ~ Opens(t, c)'
  /\ \A k \in Attempts : \/ att'[<<t, k>>].pc = att[<<t, k>>].pc
                         \/ ~ Takes(t, k) /\ ~ Takes(t, k)'

LEMMA RestingKeeps ==
  ASSUME NEW t \in Tasks, Sole(t), Resting(t)
  PROVE  Sole(t)' /\ (t \in Counted' <=> t \in Counted)
<1>1. /\ \A c \in Cancels : /\ Opens(t, c)' <=> Opens(t, c)
                            /\ Opens(t, c) => can'[<<t, c>>] = can[<<t, c>>]
      /\ \A k \in Attempts : /\ Takes(t, k)' <=> Takes(t, k)
                             /\ Takes(t, k) => att'[<<t, k>>].pc = att[<<t, k>>].pc
  BY DEF Resting, Opens, Takes
<1>2. Sole(t)'
  BY <1>1 DEF Sole, Resting
<1>3. Settling(t)' <=> Settling(t)
  BY <1>1 DEF Settling, Takes
<1>4. t \in Held' <=> t \in Held
  BY <1>1, <1>3 DEF Held, Opens, Resting
<1> QED BY <1>2, <1>4 DEF Counted, Held, Resting

\* No step about another task rouses t.
LEMMA ApartRests ==
  ASSUME NEW t \in Tasks, claims'[t] = Claimed(t), resv'[t] = resv[t], sub'[t] = sub[t],
         \A c \in Cancels : can'[<<t, c>>] = can[<<t, c>>],
         \A k \in Attempts : att'[<<t, k>>] = att[<<t, k>>]
  PROVE  Resting(t)
<1>1. ~ FindsOf(t)
  BY DEF FindsOf
<1> QED BY <1>1 DEF Resting, Claimed

LEMMA ExactlyStep ==
  ASSUME TypeOK, Exactly, NEW t \in Tasks, Balanced(t),
         \A u \in Tasks \ {t} : u \in Counted' <=> u \in Counted
  PROVE  Exactly'
<1>0. /\ Counted \in SUBSET Tasks /\ Counted' \in SUBSET Tasks /\ Cost \in Nat /\ reserved \in Nat
      /\ IsFiniteSet(Counted) /\ Cardinality(Counted) \in Nat /\ Cardinality(Counted') \in Nat
  BY CountedSubset, CountedFinite, CreditsNat DEF TypeOK
<1>1. CASE reserved' = reserved /\ (t \in Counted' <=> t \in Counted)
  <2>1. Counted' = Counted
    BY <1>0, <1>1
  <2> QED BY <1>1, <2>1 DEF Exactly
<1>2. CASE reserved' = Minus(reserved, Cost) /\ t \in Counted /\ t \notin Counted'
  <2>1. Counted' = Counted \ {t}
    BY <1>0, <1>2
  <2>2. Cardinality(Counted') = Cardinality(Counted) - 1
    BY <1>0, <1>2, <2>1, FS_RemoveElement
  <2>3. /\ Cost * Cardinality(Counted) = Cost * Cardinality(Counted') + Cost
        /\ Cost * Cardinality(Counted') \in Nat
    <3>1. Cardinality(Counted) = Cardinality(Counted') + 1
      BY <1>0, <2>2
    <3> QED BY <1>0, <3>1
  <2>4. reserved = Cost * Cardinality(Counted)
    BY DEF Exactly
  <2> HIDE DEF Counted
  <2>5. reserved' = Cost * Cardinality(Counted')
    BY <1>0, <1>2, <2>3, <2>4 DEF Minus
  <2> QED BY <2>5 DEF Exactly
<1>3. CASE reserved' = reserved + Cost /\ t \notin Counted /\ t \in Counted'
  <2>1. Counted' = Counted \cup {t}
    BY <1>0, <1>3
  <2>2. Cardinality(Counted') = Cardinality(Counted) + 1
    BY <1>0, <1>3, <2>1, FS_AddElement
  <2>3. Cost * Cardinality(Counted') = Cost * Cardinality(Counted) + Cost
    BY <1>0, <2>2
  <2>4. reserved' = Cost * Cardinality(Counted')
    BY <1>3, <2>3 DEF Exactly
  <2> QED BY <2>4 DEF Exactly
<1> QED BY <1>1, <1>2, <1>3 DEF Balanced

\* A settler claims the reservation: until then nobody else had.
LEMMA CancelBalances ==
  ASSUME TypeOK, Fresh, NEW t \in Tasks, Sole(t), claims'[t] = Claimed(t), claims'[t] <= 1,
         NEW c \in Cancels, Cancel(t, c)
  PROVE  Balanced(t)
<1>0. /\ <<t, c>> \in Tasks \X Cancels /\ can \in [Tasks \X Cancels -> CancelPC]
      /\ sub' = sub /\ att' = att /\ sub[t] \notin Early
      /\ \A d \in Cancels \ {c} : can'[<<t, d>>] = can[<<t, d>>]
  <2>1. Local(t) /\ att' = att
    BY CancelLocal DEF Cancel, CancelStart, CancelMark, CancelFind, CancelRelease,
       CancelDecrement, CancelRecord, CancelDequeue
  <2>2. \A d \in Cancels \ {c} : can'[<<t, d>>] = can[<<t, d>>]
    BY DEF Cancel, CancelStart, CancelMark, CancelFind, CancelRelease,
       CancelDecrement, CancelRecord, CancelDequeue, CancelAt, TypeOK
  <2> QED BY <2>1, <2>2 DEF TypeOK, Local
<1>s. sub[t] \in Raised
  BY <1>0 DEF TypeOK, SubmitPC, Early, Raised
<1>1. ASSUME NEW from, NEW to, CancelAt(<<t, c>>, from, to)
      PROVE  can[<<t, c>>] = from /\ can'[<<t, c>>] = to
  BY <1>0, <1>1 DEF CancelAt
<1>2. CASE CancelStart(t, c) \/ CancelMark(t, c) \/ CancelRecord(t, c) \/ CancelDequeue(t, c)
  <2>1. PICK from \in {"idle", "cancel", "record", "dequeue"},
             to \in {"cancel", "find", "dequeue", "done"} : CancelAt(<<t, c>>, from, to)
    BY <1>2 DEF CancelStart, CancelMark, CancelRecord, CancelDequeue
  <2>2. resv' = resv /\ reserved' = reserved
    BY <1>2 DEF CancelStart, CancelMark, CancelRecord, CancelDequeue, rows
  <2>3. ~ FindsOf(t)
    BY <1>0, <1>1, <2>1 DEF FindsOf
  <2>4. Resting(t)
    BY <1>0, <1>1, <2>1, <2>2, <2>3 DEF Resting, Opens, Claimed
  <2> QED BY <2>2, <2>4, RestingKeeps DEF Balanced
<1>3. CASE CancelFind(t, c)
  <2>1. resv' = resv /\ reserved' = reserved /\ can[<<t, c>>] = "find"
    BY <1>3, <1>1 DEF CancelFind, rows
  <2>2. CASE resv[t] = "active"
    <3>1. can'[<<t, c>>] = "release"
      BY <1>1, <1>3, <2>2 DEF CancelFind
    <3>2. claims'[t] = claims[t] + 1 /\ claims[t] = 0
      BY <2>1, <2>2, <3>1 DEF Claimed, FindsOf, Sole
    <3>3. /\ \A d \in Cancels : ~ Opens(t, d)
          /\ \A k \in Attempts : ~ Takes(t, k)
      BY <3>2 DEF Sole
    <3>4. /\ \A d \in Cancels \ {c} : ~ Opens(t, d)'
          /\ \A k \in Attempts : ~ Takes(t, k)'
      BY <1>0, <3>3 DEF Opens, Takes
    <3>5. Sole(t)'
      BY <1>0, <1>s, <2>1, <2>2, <3>1, <3>2, <3>4 DEF Sole, Opens
    <3>6. t \in Held /\ t \in Held'
      BY <1>0, <2>1, <2>2, <3>3 DEF Held, Settling, Takes
    <3> QED BY <1>0, <1>s, <2>1, <3>5, <3>6 DEF Balanced, Counted
  <2>3. CASE resv[t] # "active"
    <3>1. can'[<<t, c>>] = "dequeue"
      BY <1>1, <1>3, <2>3 DEF CancelFind
    <3>2. Resting(t)
      BY <1>0, <2>1, <2>3, <3>1 DEF Resting, Opens, Claimed
    <3> QED BY <2>1, <3>2, RestingKeeps DEF Balanced
  <2> QED BY <2>2, <2>3
<1>4. CASE CancelRelease(t, c)
  <2>1. /\ can[<<t, c>>] = "release" /\ can'[<<t, c>>] = "decrement" /\ reserved' = reserved
        /\ resv'[t] = "released"
    BY <1>4, <1>1 DEF CancelRelease, TypeOK
  <2>2. claims'[t] = claims[t]
    BY <1>0, <2>1 DEF Claimed, FindsOf
  <2>3. /\ resv[t] = "active" /\ claims[t] = 1 /\ (\A d \in Cancels \ {c} : ~ Opens(t, d))
        /\ \A k \in Attempts : ~ Takes(t, k)
    BY <2>1 DEF Sole, Opens
  <2>4. /\ \A d \in Cancels \ {c} : ~ Opens(t, d)'
        /\ \A k \in Attempts : ~ Takes(t, k)'
    BY <1>0, <2>3 DEF Opens, Takes
  <2>5. Sole(t)'
    BY <1>0, <1>s, <2>1, <2>2, <2>3, <2>4 DEF Sole, Opens
  <2>6. t \in Held /\ t \in Held'
    BY <2>1, <2>3 DEF Held, Settling, Takes
  <2> QED BY <1>0, <1>s, <2>1, <2>5, <2>6 DEF Balanced, Counted
<1>5. CASE CancelDecrement(t, c)
  <2>1. /\ can[<<t, c>>] = "decrement" /\ can'[<<t, c>>] = "record"
        /\ reserved' = Minus(reserved, Cost) /\ resv' = resv
    BY <1>5, <1>1 DEF CancelDecrement
  <2>2. claims'[t] = claims[t]
    BY <1>0, <2>1 DEF Claimed, FindsOf
  <2>3. /\ resv[t] # "active" /\ (\A d \in Cancels \ {c} : ~ Opens(t, d))
        /\ \A k \in Attempts : ~ Takes(t, k)
    BY <2>1 DEF Sole, Opens
  <2>4. /\ \A d \in Cancels : ~ Opens(t, d)'
        /\ \A k \in Attempts : ~ Takes(t, k)'
    BY <1>0, <2>1, <2>3 DEF Opens, Takes
  <2>5. Sole(t)'
    BY <1>0, <1>s, <2>1, <2>2, <2>3, <2>4 DEF Sole
  <2>6. t \in Held /\ t \notin Held'
    BY <2>1, <2>3, <2>4 DEF Held, Opens
  <2> QED BY <1>0, <1>s, <2>1, <2>5, <2>6 DEF Balanced, Counted
<1> QED BY <1>2, <1>3, <1>4, <1>5 DEF Cancel


\* Nobody else knows of a task before its row is created.
LEMMA SubmitBalances ==
  ASSUME TypeOK, Fresh, Reserving, NEW t \in Tasks, Sole(t), claims'[t] = Claimed(t), Submit(t)
  PROVE  Balanced(t)
<1>0. /\ can' = can /\ att' = att /\ sub \in [Tasks -> SubmitPC] /\ resv \in [Tasks -> {"none", "active", "committed", "released"}]
      /\ claims'[t] = claims[t]
  <2>1. can' = can /\ att' = att
    BY DEF Submit, SubmitStart, CheckBalance, InsertReservation, IncrementReserved, CreateTask, EnqueueJob
  <2>2. ~ FindsOf(t)
    BY <2>1 DEF FindsOf
  <2> QED BY <2>1, <2>2 DEF TypeOK, Claimed
<1>1. sub[t] \in Early => /\ \A c \in Cancels : ~ Opens(t, c) /\ ~ Opens(t, c)'
                          /\ \A k \in Attempts : ~ Takes(t, k) /\ ~ Takes(t, k)'
                          /\ \A c \in Cancels : can[<<t, c>>] # "decrement" /\ can'[<<t, c>>] # "decrement"
                          /\ ~ Settling(t) /\ ~ Settling(t)'
  BY <1>0 DEF Fresh, Opens, Takes, Settling
<1>2. ASSUME NEW from, NEW to, SubmitAt(t, from, to) PROVE sub[t] = from /\ sub'[t] = to
  BY <1>0, <1>2 DEF SubmitAt
<1>3. CASE SubmitStart(t) \/ CheckBalance(t)
  <2>1. PICK from \in {"idle", "check"}, to \in {"check", "insert", "rejected"} : SubmitAt(t, from, to)
    BY <1>3 DEF SubmitStart, CheckBalance
  <2>2. sub[t] = from /\ sub'[t] = to /\ resv' = resv /\ reserved' = reserved
    BY <1>2, <1>3, <2>1 DEF SubmitStart, CheckBalance, rows
  <2>3. sub[t] \in Early /\ sub'[t] \in Early /\ sub[t] \notin Raised \cup {"reserve"} /\ sub'[t] \notin Raised \cup {"reserve", "createBare"}
    BY <2>1, <2>2 DEF Early, Raised
  <2>4. claims[t] = 0 /\ resv[t] # "active"
    BY <2>3 DEF Sole
  <2>5. Sole(t)'
    BY <1>0, <1>1, <2>2, <2>3, <2>4 DEF Sole
  <2> QED BY <2>2, <2>3, <2>5 DEF Balanced, Counted
<1>4. CASE InsertReservation(t)
  <2>1. sub[t] = "insert" /\ sub'[t] = "reserve" /\ resv'[t] = "active" /\ reserved' = reserved
    BY <1>0, <1>2, <1>4 DEF InsertReservation
  <2>2. sub[t] \in Early /\ sub'[t] \in Early /\ sub[t] \notin Raised /\ sub'[t] \notin Raised
    BY <2>1 DEF Early, Raised
  <2>3. claims[t] = 0
    BY <2>2 DEF Sole
  <2>4. Sole(t)'
    BY <1>0, <1>1, <2>1, <2>2, <2>3 DEF Sole
  <2> QED BY <2>1, <2>2, <2>4 DEF Balanced, Counted
<1>5. CASE IncrementReserved(t)
  <2>1. sub[t] = "reserve" /\ sub'[t] = "create" /\ resv' = resv /\ reserved' = reserved + Cost
    BY <1>2, <1>5 DEF IncrementReserved
  <2>2. /\ sub[t] \in Early /\ sub'[t] \in Early /\ sub[t] \notin Raised /\ sub'[t] \in Raised
        /\ resv[t] = "active"
    BY <2>1 DEF Early, Raised, Reserving
  <2>3. claims[t] = 0
    BY <2>2 DEF Sole
  <2>4. Sole(t)'
    BY <1>0, <1>1, <2>1, <2>2, <2>3 DEF Sole
  <2>5. t \in Held'
    BY <1>1, <2>1, <2>2 DEF Held
  <2> QED BY <2>1, <2>2, <2>4, <2>5 DEF Balanced, Counted
<1>6. CASE CreateTask(t) \/ EnqueueJob(t)
  <2>1. /\ sub[t] \in {"create", "createBare", "enqueue"} /\ sub'[t] \in {"enqueue", "done"}
        /\ resv' = resv /\ reserved' = reserved
    BY <1>2, <1>6 DEF CreateTask, EnqueueJob, rows
  <2>2. sub[t] \in Raised /\ sub'[t] \in Raised /\ sub'[t] \notin Early
    BY <2>1 DEF Early, Raised
  <2>3. /\ \A c \in Cancels : Opens(t, c)' <=> Opens(t, c)
        /\ \A k \in Attempts : Takes(t, k)' <=> Takes(t, k)
        /\ t \in Held' <=> t \in Held
    BY <1>0, <2>1 DEF Opens, Takes, Held, Settling
  <2>4. Sole(t)'
    BY <1>0, <2>1, <2>2, <2>3 DEF Sole
  <2> QED BY <2>1, <2>2, <2>3, <2>4 DEF Balanced, Counted
<1> QED BY <1>3, <1>4, <1>5, <1>6 DEF Submit

LEMMA BrokerBalances ==
  ASSUME TypeOK, NEW t \in Tasks, Sole(t), claims'[t] = Claimed(t),
         Broker(t) \/ Timeout(t) \/ UpdateStatus(t)
  PROVE  Balanced(t)
<1>1. CASE Deliver(t)
  <2>1. PICK k \in Unstarted(t) : att' = [att EXCEPT ![<<t, k>>].pc = "begin"]
    BY <1>1 DEF Deliver
  <2>2. k \in Attempts /\ <<t, k>> \in Runs /\ att[<<t, k>>].pc = "idle"
    BY DEF Unstarted, Runs
  <2>3. AttemptAt(<<t, k>>, "idle", "begin")
    BY <2>1, <2>2 DEF AttemptAt
  <2>4. /\ att'[<<t, k>>].pc = "begin"
        /\ \A j \in Attempts \ {k} : att'[<<t, j>>] = att[<<t, j>>]
    BY <2>2, <2>3, Advances DEF Runs
  <2>5. resv' = resv /\ reserved' = reserved /\ sub' = sub /\ can' = can
    BY <1>1 DEF Deliver, rows
  <2>6. ~ FindsOf(t)
    BY <2>2, <2>4, <2>5 DEF FindsOf
  <2>7. Resting(t)
    BY <2>2, <2>4, <2>5, <2>6 DEF Resting, Takes, Claimed
  <2> QED BY <2>5, <2>7, RestingKeeps DEF Balanced
<1>2. CASE Retry(t) \/ Stalled(t) \/ Timeout(t) \/ UpdateStatus(t)
  <2>1. UNCHANGED <<resv, reserved, sub, can, att>>
    BY <1>2 DEF Retry, Stalled, Timeout, UpdateStatus, rows, procs
  <2>2. Resting(t)
    BY <2>1, ApartRests
  <2> QED BY <2>1, <2>2, RestingKeeps DEF Balanced
<1> QED BY <1>1, <1>2 DEF Broker


\* Another attempt, and every cancel request, is where it was.
Stays(t, k) ==
  /\ can' = can /\ sub' = sub
  /\ \A j \in Attempts \ {k} : att'[<<t, j>>] = att[<<t, j>>]

LEMMA WorkStays ==
  ASSUME TypeOK, NEW t \in Tasks, NEW k \in Attempts, Work(t, k)
  PROVE  Stays(t, k)
<1>1. can' = can /\ sub' = sub
  BY DEF Work, Begin, CallOrchestrator, Complete, ConsumeFind, ConsumeDeduct, ConsumeMark,
     ConsumeDirect, ConsumeRecord, CheckSession, CloseSession, Return, Catch, ReleaseFind,
     ReleaseDecrement, ReleaseMark, ReleaseRecord, Throw
<1>2. \E r : att' = [att EXCEPT ![<<t, k>>] = r]
  BY DEF Work, Begin, CallOrchestrator, Complete, ConsumeFind, ConsumeDeduct, ConsumeMark,
     ConsumeDirect, ConsumeRecord, CheckSession, CloseSession, Return, Catch, ReleaseFind,
     ReleaseDecrement, ReleaseMark, ReleaseRecord, Throw, AttemptAt
<1> QED BY <1>1, <1>2 DEF Stays, TypeOK, Runs

\* An attempt claims the reservation, deducts or decrements, and marks it.
LEMMA WorkBalances ==
  ASSUME TypeOK, Fresh, NEW t \in Tasks, Sole(t), claims'[t] = Claimed(t), claims'[t] <= 1,
         NEW k \in Attempts, Work(t, k)
  PROVE  Balanced(t)
<1>0. /\ <<t, k>> \in Runs /\ Stays(t, k) /\ sub[t] \notin Early /\ sub[t] \in Raised /\ sub' = sub
      /\ resv \in [Tasks -> {"none", "active", "committed", "released"}]
      /\ att[<<t, k>>].pc \in AttemptPC
  <2>1. Local(t)
    BY WorkLocal
  <2>2. sub[t] \in Raised
    BY <2>1 DEF Local, TypeOK, SubmitPC, Early, Raised
  <2> QED BY <2>1, <2>2, WorkStays DEF Local, Runs, TypeOK, AttemptRecords
<1>1. ASSUME NEW from, NEW to, AttemptAt(<<t, k>>, from, to)
      PROVE  att[<<t, k>>].pc = from /\ att'[<<t, k>>].pc = to
  BY <1>0, <1>1, Advances
<1>2. ASSUME att[<<t, k>>].pc \notin {"deduct", "mark", "relDec", "relMark"},
             att'[<<t, k>>].pc \notin {"deduct", "mark", "relDec", "relMark"},
             resv'[t] = resv[t], reserved' = reserved
      PROVE  Balanced(t)
  <2>1. ~ FindsOf(t)
    BY <1>0, <1>2 DEF FindsOf, Stays
  <2>2. Resting(t)
    BY <1>0, <1>2, <2>1 DEF Resting, Stays, Takes, Claimed
  <2> QED BY <1>2, <2>2, RestingKeeps DEF Balanced
<1>3. CASE \/ Begin(t, k) \/ Complete(t, k) \/ ConsumeDirect(t, k) \/ ConsumeRecord(t, k)
           \/ CloseSession(t, k) \/ Return(t, k) \/ Catch(t, k) \/ ReleaseRecord(t, k) \/ Throw(t, k)
  <2>1. PICK from \in {"begin", "complete", "direct", "record", "close", "return", "catch",
                       "relRecord", "throw"},
             to \in {"call", "find", "check", "record", "return", "done", "relFind", "throw"} :
               AttemptAt(<<t, k>>, from, to)
    BY <1>3 DEF Begin, Complete, ConsumeDirect, ConsumeRecord, CloseSession, Return, Catch,
       ReleaseRecord, Throw
  <2>2. resv' = resv /\ reserved' = reserved
    BY <1>3 DEF Begin, Complete, ConsumeDirect, ConsumeRecord, CloseSession, Return, Catch,
       ReleaseRecord, Throw, rows
  <2> QED BY <1>1, <1>2, <2>1, <2>2
<1>4. CASE CallOrchestrator(t, k) \/ CheckSession(t, k)
  <2>1. /\ att[<<t, k>>].pc \in {"call", "check"} /\ att'[<<t, k>>].pc \in {"complete", "close", "return"}
        /\ resv' = resv /\ reserved' = reserved
    <3>1. att \in [Runs -> AttemptRecords]
      BY DEF TypeOK
    <3>2. CASE CallOrchestrator(t, k)
      BY <1>0, <3>1, <3>2 DEF CallOrchestrator, rows, AttemptRecords
    <3>3. CASE CheckSession(t, k)
      BY <1>0, <3>1, <3>3 DEF CheckSession, rows, AttemptRecords
    <3> QED BY <1>4, <3>2, <3>3
  <2> QED BY <1>2, <2>1
<1>5. CASE ConsumeFind(t, k) \/ ReleaseFind(t, k)
  <2>1. PICK from \in {"find", "relFind"}, to \in {"deduct", "relDec", "direct", "throw"} :
          /\ AttemptAt(<<t, k>>, from, to)
          /\ to \in {"deduct", "relDec"} <=> resv[t] = "active"
    BY <1>5 DEF ConsumeFind, ReleaseFind
  <2>2. resv' = resv /\ reserved' = reserved
    BY <1>5 DEF ConsumeFind, ReleaseFind, rows
  <2>3. att[<<t, k>>].pc = from /\ att'[<<t, k>>].pc = to
    BY <1>1, <2>1
  <2>4. CASE resv[t] = "active"
    <3>1. claims'[t] = claims[t] + 1 /\ claims[t] = 0
      BY <2>1, <2>3, <2>4 DEF Claimed, FindsOf, Sole
    <3>2. /\ \A c \in Cancels : ~ Opens(t, c)
          /\ \A j \in Attempts : ~ Takes(t, j)
      BY <3>1 DEF Sole
    <3>3. /\ \A c \in Cancels : ~ Opens(t, c)'
          /\ \A j \in Attempts \ {k} : ~ Takes(t, j)'
      BY <1>0, <3>2 DEF Opens, Takes, Stays
    <3>4. Takes(t, k)'
      BY <2>1, <2>3, <2>4 DEF Takes
    <3>5. Sole(t)'
      BY <1>0, <2>2, <2>4, <3>1, <3>3, <3>4 DEF Sole
    <3>6. ~ Settling(t) /\ ~ Settling(t)'
      <4>1. ~ Settling(t)
        BY <3>2 DEF Settling, Takes
      <4>2. att'[<<t, k>>].pc \notin {"mark", "relMark"}
        BY <2>3
      <4> QED BY <1>0, <4>1, <4>2 DEF Settling, Stays
    <3> QED BY <1>0, <2>2, <2>4, <3>5, <3>6 DEF Balanced, Counted, Held
  <2>5. CASE resv[t] # "active"
    BY <1>2, <2>1, <2>2, <2>3, <2>5
  <2> QED BY <2>4, <2>5
<1>6. CASE ConsumeDeduct(t, k) \/ ReleaseDecrement(t, k)
  <2>1. PICK from \in {"deduct", "relDec"}, to \in {"mark", "relMark"} : AttemptAt(<<t, k>>, from, to)
    BY <1>6 DEF ConsumeDeduct, ReleaseDecrement
  <2>2. resv' = resv /\ reserved' = Minus(reserved, Cost)
    BY <1>6 DEF ConsumeDeduct, ReleaseDecrement
  <2>3. att[<<t, k>>].pc = from /\ att'[<<t, k>>].pc = to
    BY <1>1, <2>1
  <2>4. Takes(t, k) /\ Takes(t, k)' /\ Settling(t)'
    BY <2>1, <2>3 DEF Takes, Settling
  <2>5. /\ claims[t] = 1 /\ resv[t] = "active" /\ (\A j \in Attempts \ {k} : ~ Takes(t, j))
        /\ \A c \in Cancels : ~ Opens(t, c)
    BY <2>4 DEF Sole
  <2>6. /\ \A c \in Cancels : ~ Opens(t, c)'
        /\ \A j \in Attempts \ {k} : ~ Takes(t, j)'
    BY <1>0, <2>5 DEF Opens, Takes, Stays
  <2>7. claims'[t] = claims[t]
    BY <1>0, <2>1, <2>3 DEF Claimed, FindsOf, Stays
  <2>8. Sole(t)'
    BY <1>0, <2>2, <2>4, <2>5, <2>6, <2>7 DEF Sole
  <2>9. ~ Settling(t)
    BY <2>1, <2>3, <2>5 DEF Settling, Takes
  <2>10. t \in Held /\ t \notin Held'
    BY <2>4, <2>5, <2>6, <2>9 DEF Held, Opens
  <2> QED BY <1>0, <2>2, <2>8, <2>10 DEF Balanced, Counted
<1>7. CASE ConsumeMark(t, k) \/ ReleaseMark(t, k)
  <2>1. PICK from \in {"mark", "relMark"}, to \in {"record", "relRecord"} : AttemptAt(<<t, k>>, from, to)
    BY <1>7 DEF ConsumeMark, ReleaseMark
  <2>2. resv'[t] # "active" /\ reserved' = reserved
    BY <1>0, <1>7 DEF ConsumeMark, ReleaseMark
  <2>3. att[<<t, k>>].pc = from /\ att'[<<t, k>>].pc = to
    BY <1>1, <2>1
  <2>4. Takes(t, k) /\ ~ Takes(t, k)' /\ Settling(t)
    BY <2>1, <2>3 DEF Takes, Settling
  <2>5. /\ claims[t] = 1 /\ (\A j \in Attempts \ {k} : ~ Takes(t, j))
        /\ \A c \in Cancels : ~ Opens(t, c)
    BY <2>4 DEF Sole
  <2>6. /\ \A c \in Cancels : ~ Opens(t, c)'
        /\ \A j \in Attempts : ~ Takes(t, j)'
    BY <1>0, <2>4, <2>5 DEF Opens, Takes, Stays
  <2>7. claims'[t] = claims[t]
    BY <1>0, <2>1, <2>3 DEF Claimed, FindsOf, Stays
  <2>8. Sole(t)'
    BY <1>0, <2>2, <2>5, <2>6, <2>7 DEF Sole
  <2>10. t \notin Held /\ t \notin Held'
    BY <2>2, <2>4, <2>5, <2>6 DEF Held, Opens
  <2> QED BY <2>2, <2>8, <2>10 DEF Balanced, Counted
<1> QED BY <1>3, <1>4, <1>5, <1>6, <1>7 DEF Work

\* The other tasks rest, and stay in the counter or out of it.
LEMMA OthersRest ==
  ASSUME Exact, Calm, OneClaim, claims' = [u \in Tasks |-> Claimed(u)],
         NEW t \in Tasks,
         \A u \in Tasks \ {t} : /\ resv'[u] = resv[u] /\ sub'[u] = sub[u]
                                /\ \A c \in Cancels : can'[<<u, c>>] = can[<<u, c>>]
                                /\ \A k \in Attempts : att'[<<u, k>>] = att[<<u, k>>]
  PROVE  \A u \in Tasks \ {t} : Sole(u)' /\ (u \in Counted' <=> u \in Counted)
<1> SUFFICES ASSUME NEW u \in Tasks \ {t} PROVE Sole(u)' /\ (u \in Counted' <=> u \in Counted)
  OBVIOUS
<1>1. claims'[u] = Claimed(u)
  OBVIOUS
<1>2. Resting(u)
  BY <1>1, ApartRests
<1> QED BY <1>2, RestingKeeps DEF Exact

LEMMA ExactNext ==
  ASSUME IInv, claims \in [Tasks -> Nat], Exact, [MCNext]_<<vars, claims>>
  PROVE  Exact' /\ claims' \in [Tasks -> Nat]
<1>0. claims' \in [Tasks -> Nat]
  BY DEF MCNext, Claimed
<1> SUFFICES ASSUME Calm', OneClaim' PROVE Exactly' /\ \A t \in Tasks : Sole(t)'
  BY <1>0 DEF Exact
<1>1. CASE UNCHANGED <<vars, claims>>
  <2>1. UNCHANGED <<reserved, resv, sub, can, att, crashes, faults, claims>>
    BY <1>1 DEF vars, rows, procs, env
  <2> QED BY <2>1 DEF Exact, Exactly, Counted, Held, Settling, Sole, Opens, Takes, Calm, OneClaim
<1>2. CASE MCNext
  <2>1. /\ Next /\ TypeOK /\ Fresh /\ Reserving /\ claims' = [t \in Tasks |-> Claimed(t)]
    BY <1>2 DEF MCNext, IInv
  <2>2. Calm /\ UNCHANGED env
    BY <2>1, CalmBefore
  <2>3. OneClaim
    <3>1. \A t \in Tasks : claims[t] \in Nat /\ claims'[t] <= 1 /\ claims'[t] = Claimed(t)
      BY <2>1 DEF OneClaim
    <3> QED BY <3>1 DEF OneClaim, Claimed
  <2>4. Exactly /\ (\A t \in Tasks : Sole(t) /\ claims'[t] = Claimed(t) /\ claims'[t] <= 1)
    BY <2>1, <2>2, <2>3 DEF Exact, OneClaim
  <2>5. ASSUME NEW t \in Tasks, Balanced(t),
               \A u \in Tasks \ {t} : /\ resv'[u] = resv[u] /\ sub'[u] = sub[u]
                                      /\ \A c \in Cancels : can'[<<u, c>>] = can[<<u, c>>]
                                      /\ \A k \in Attempts : att'[<<u, k>>] = att[<<u, k>>]
        PROVE  Exactly' /\ \A u \in Tasks : Sole(u)'
    <3>1. \A u \in Tasks \ {t} : Sole(u)' /\ (u \in Counted' <=> u \in Counted)
      BY <2>1, <2>2, <2>3, <2>5, OthersRest
    <3>2. Exactly'
      BY <2>1, <2>4, <2>5, <3>1, ExactlyStep
    <3> QED BY <2>5, <3>1, <3>2 DEF Balanced
  <2>6. ASSUME NEW t \in Tasks, Submit(t) PROVE Exactly' /\ \A u \in Tasks : Sole(u)'
    <3>1. Balanced(t)
      BY <2>1, <2>4, <2>6, SubmitBalances
    <3>2. \A u \in Tasks \ {t} : /\ resv'[u] = resv[u] /\ sub'[u] = sub[u]
                                 /\ \A c \in Cancels : can'[<<u, c>>] = can[<<u, c>>]
                                 /\ \A k \in Attempts : att'[<<u, k>>] = att[<<u, k>>]
      BY <2>1, <2>6 DEF Submit, SubmitStart, CheckBalance, InsertReservation, IncrementReserved,
         CreateTask, EnqueueJob, SubmitAt, TypeOK, rows
    <3> QED BY <2>5, <3>1, <3>2
  <2>7. ASSUME NEW t \in Tasks, Local(t), Balanced(t) PROVE Exactly' /\ \A u \in Tasks : Sole(u)'
    BY <2>5, <2>7 DEF Local
  <2>8. ASSUME NEW t \in Tasks, NEW c \in Cancels, Cancel(t, c)
        PROVE  Exactly' /\ \A u \in Tasks : Sole(u)'
    BY <2>1, <2>4, <2>7, <2>8, CancelLocal, CancelBalances
  <2>9. ASSUME NEW t \in Tasks, Broker(t) \/ Timeout(t) \/ UpdateStatus(t)
        PROVE  Exactly' /\ \A u \in Tasks : Sole(u)'
    BY <2>1, <2>4, <2>7, <2>9, BrokerLocal, BrokerBalances
  <2>10. ASSUME NEW t \in Tasks, NEW k \in Attempts, Work(t, k)
         PROVE  Exactly' /\ \A u \in Tasks : Sole(u)'
    BY <2>1, <2>4, <2>7, <2>10, WorkLocal, WorkBalances
  <2>11. CASE Files
    <3>1. UNCHANGED <<reserved, resv, sub, can, att>>
      BY <2>11 DEF Files, rows, procs
    <3>2. \A t \in Tasks : Sole(t)' /\ (t \in Counted' <=> t \in Counted)
      BY <2>4, <3>1, ApartRests, RestingKeeps
    <3>3. Counted' = Counted
      BY <3>2, CountedSubset
    <3> QED BY <2>4, <3>1, <3>2, <3>3 DEF Exactly
  <2>12. ASSUME NEW t \in Tasks, ReserveFault(t) PROVE FALSE
    BY <2>1, <2>2, <2>12 DEF ReserveFault, env, TypeOK
  <2>13. ASSUME NEW t \in Tasks, NEW k \in Attempts, Crash(t, k) \/ Fault(t, k) PROVE FALSE
    BY <2>1, <2>2, <2>13 DEF Crash, Fault, env, TypeOK
  <2> QED BY <2>1, <2>6, <2>8, <2>9, <2>10, <2>11, <2>12, <2>13, FileJobFiles DEF Next
<1> QED BY <1>1, <1>2

\* No task pays for another, for any number of tasks, cancel requests,
\* attempts and retries: as long as nothing fails and no reservation is
\* claimed by two settlers, credit_balances.reserved is exactly what the
\* reservations still held add up to (processor.ts consumeCredits and
\* releaseCredits, tasks.ts releaseCredits).
THEOREM OwnCreditsOnly == MCSpec => []EachPaysItsOwn
<1> DEFINE Inv == IInv /\ claims \in [Tasks -> Nat] /\ Exact
<1>1. ASSUME MCInit PROVE Inv
  <2>1. IInv
    BY <1>1, InvInit DEF MCInit
  <2>2. Exactly /\ \A t \in Tasks : Sole(t)
    <3>1. Counted = {}
      BY <1>1 DEF MCInit, Init, Counted, Held, Settling, NoAttempt, Runs
    <3>2. Exactly
      BY <1>1, <3>1, FS_EmptySet, CreditsNat DEF MCInit, Init, Exactly
    <3>3. \A t \in Tasks : Sole(t)
      BY <1>1 DEF MCInit, Init, Sole, Opens, Takes, NoAttempt, Runs
    <3> QED BY <3>2, <3>3
  <2> QED BY <1>1, <2>1, <2>2 DEF MCInit, Exact
<1>2. ASSUME Inv, [MCNext]_<<vars, claims>> PROVE Inv'
  <2>1. [Next]_vars
    BY <1>2 DEF MCNext
  <2> QED BY <1>2, <2>1, InvStep, ExactNext
<1>3. ASSUME Inv PROVE EachPaysItsOwn
  <2> SUFFICES ASSUME Calm, OneClaim
               PROVE  reserved = Cost * Cardinality({t \in Held : sub[t] # "reserve"})
    BY DEF EachPaysItsOwn, OneClaim
  <2>1. Exactly /\ \A t \in Tasks : Sole(t)
    BY <1>3 DEF Exact
  <2>2. ASSUME NEW t \in Held, sub[t] # "reserve" PROVE sub[t] \in Raised
    <3>1. CASE resv[t] = "active"
      BY <2>1, <2>2, <3>1 DEF Sole, Held
    <3>2. CASE \E c \in Cancels : can[<<t, c>>] = "decrement"
      <4>1. t \in Tasks /\ sub[t] \notin Early /\ sub[t] \in SubmitPC
        BY <1>3, <3>2 DEF IInv, Fresh, Held, TypeOK
      <4> QED BY <4>1 DEF SubmitPC, Early, Raised
    <3> QED BY <3>1, <3>2 DEF Held
  <2>3. {t \in Held : sub[t] # "reserve"} = Counted
    BY <2>2 DEF Counted, Raised
  <2> QED BY <2>1, <2>3 DEF Exactly
<1> QED BY <1>1, <1>2, <1>3, PTL DEF MCSpec
=============================================================================
