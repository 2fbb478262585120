--------------------------- MODULE CircuitBreaker ---------------------------
(***************************************************************************)
(* The circuit breaker of packages/utils: callers run asynchronous calls   *)
(* through execute(), and each call reports its outcome later, when the    *)
(* breaker may have changed state.                                         *)
(*                                                                         *)
(* Time is kept as ages: how long ago the last failure and each failure of *)
(* the sliding window happened.  An age that no comparison of the code     *)
(* tells from an older one is capped, which keeps the model finite without *)
(* bounding the run.  The counters that only feed getMetrics, the history  *)
(* and the onStateChange callback are left out.                            *)
(***************************************************************************)
EXTENDS Integers, Sequences, FiniteSets

CONSTANTS
  Callers,           \* concurrent users of the breaker
  FailureThreshold,  \* failures within the window that trip it
  FailureWindow,     \* failureWindowMs, in ticks
  RecoveryWindow,    \* recoveryWindowMs, in ticks
  SuccessThreshold   \* successes in half-open that close it

ASSUME ThresholdsPositive ==
  /\ FailureThreshold \in Nat \ {0} /\ SuccessThreshold \in Nat \ {0}
  /\ FailureWindow \in Nat /\ RecoveryWindow \in Nat

VARIABLES
  state,                 \* "closed", "open" or "half-open"
  consecutiveSuccesses,  \* capped at SuccessThreshold
  lastFailure,           \* age of lastFailureTime, or Never
  failures,              \* ages of failureTimestamps, oldest first
  call,                  \* what each caller's call will end in
  up                     \* whether the service behind the breaker is up

breaker == <<state, consecutiveSuccesses, lastFailure, failures>>
vars    == <<breaker, call, up>>

Never == -1

Capped(n, max) == IF n > max THEN max ELSE n

Init ==
  /\ state = "closed" /\ consecutiveSuccesses = 0
  /\ lastFailure = Never /\ failures = <<>>
  /\ call = [c \in Callers |-> "idle"]
  /\ up = TRUE

CanExecute ==
  \/ state \in {"closed", "half-open"}
  \/ lastFailure = Never \/ lastFailure >= RecoveryWindow

ExecuteAgain(c) ==  \* mutant: every probe starts the count of successes again
  /\ call[c] = "idle" /\ CanExecute
  /\ state' = IF state = "open" THEN "half-open" ELSE state
  /\ consecutiveSuccesses' = IF state = "closed" THEN consecutiveSuccesses ELSE 0
  /\ \E end \in IF up THEN {"success"} ELSE {"success", "failure"} :
       call' = [call EXCEPT ![c] = end]
  /\ UNCHANGED <<lastFailure, failures, up>>

\* execute() up to the await.  A service that is down may still answer.
Execute(c) ==
  /\ call[c] = "idle" /\ CanExecute
  /\ state' = IF state = "open" THEN "half-open" ELSE state
  /\ \E end \in IF up THEN {"success"} ELSE {"success", "failure"} :
       call' = [call EXCEPT ![c] = end]
  /\ UNCHANGED <<consecutiveSuccesses, lastFailure, failures, up>>

OnSuccessExact(c) ==  \* mutant: the threshold is met only when hit exactly
  /\ call[c] = "success" /\ call' = [call EXCEPT ![c] = "idle"]
  /\ IF state = "half-open" /\ consecutiveSuccesses + 1 = SuccessThreshold
     THEN state' = "closed" /\ consecutiveSuccesses' = 0
     ELSE /\ consecutiveSuccesses' = Capped(consecutiveSuccesses + 1, SuccessThreshold)
          /\ UNCHANGED state
  /\ UNCHANGED <<lastFailure, failures, up>>

OnSuccess(c) ==
  /\ call[c] = "success" /\ call' = [call EXCEPT ![c] = "idle"]
  /\ IF state = "half-open" /\ consecutiveSuccesses + 1 >= SuccessThreshold
     THEN state' = "closed" /\ consecutiveSuccesses' = 0
     ELSE /\ consecutiveSuccesses' = Capped(consecutiveSuccesses + 1, SuccessThreshold)
          /\ UNCHANGED state
  /\ UNCHANGED <<lastFailure, failures, up>>

PruneEdge(s) ==  \* mutant: a failure at the edge of the window is shifted out
  LET fresh == {i \in 1 .. Len(s) : s[i] < FailureWindow}
  IN  SubSeq(s, CHOOSE i \in fresh : \A j \in fresh : i <= j, Len(s))

\* Failures older than the window are shifted out from the front.
Prune(s) ==
  LET fresh == {i \in 1 .. Len(s) : s[i] <= FailureWindow}
  IN  SubSeq(s, CHOOSE i \in fresh : \A j \in fresh : i <= j, Len(s))

OnFailureStaleClock(c) ==  \* mutant: the time of the failure before is pushed
  /\ call[c] = "failure" /\ call' = [call EXCEPT ![c] = "idle"]
  /\ consecutiveSuccesses' = 0 /\ lastFailure' = 0
  /\ failures' = Append(failures, lastFailure)
  /\ state' = IF state = "half-open" \/ Len(failures') >= FailureThreshold THEN "open" ELSE state
  /\ UNCHANGED up

OnFailureUntimed(c) ==  \* mutant: lastFailureTime is set by probes only
  /\ call[c] = "failure" /\ call' = [call EXCEPT ![c] = "idle"]
  /\ consecutiveSuccesses' = 0
  /\ lastFailure' = IF state = "half-open" THEN 0 ELSE lastFailure
  /\ failures' = Prune(Append(failures, 0))
  /\ state' = IF state = "half-open" \/ Len(failures') >= FailureThreshold THEN "open" ELSE state
  /\ UNCHANGED up

OnFailure(c) ==
  /\ call[c] = "failure" /\ call' = [call EXCEPT ![c] = "idle"]
  /\ consecutiveSuccesses' = 0 /\ lastFailure' = 0
  /\ failures' = Prune(Append(failures, 0))
  /\ state' = IF state = "half-open" \/ Len(failures') >= FailureThreshold THEN "open" ELSE state
  /\ UNCHANGED up

Reset ==
  /\ state' = "closed" /\ consecutiveSuccesses' = 0 /\ failures' = <<>>
  /\ UNCHANGED <<lastFailure, call, up>>

Tick ==
  /\ lastFailure' = IF lastFailure = Never THEN Never ELSE Capped(lastFailure + 1, RecoveryWindow)
  /\ failures' = [i \in 1 .. Len(failures) |-> Capped(failures[i] + 1, FailureWindow + 1)]
  /\ UNCHANGED <<state, consecutiveSuccesses, call, up>>

\* The service behind the breaker fails or recovers.
ServiceChanges == up' = ~ up /\ UNCHANGED <<breaker, call>>

Next ==
  \/ \E c \in Callers : Execute(c) \/ OnSuccess(c) \/ OnFailure(c)
  \/ Reset \/ Tick \/ ServiceChanges

Spec == Init /\ [][Next]_vars

\* Calls end, time passes, and callers keep calling.
Fairness ==
  /\ WF_vars(Tick)
  /\ \A c \in Callers : WF_vars(Execute(c)) /\ WF_vars(OnSuccess(c) \/ OnFailure(c))

FairSpec == Spec /\ Fairness

-----------------------------------------------------------------------------
TypeOK ==
  /\ state \in {"closed", "open", "half-open"}
  /\ consecutiveSuccesses \in 0 .. SuccessThreshold
  /\ lastFailure \in {Never} \cup 0 .. RecoveryWindow
  /\ failures \in Seq(0 .. FailureWindow + 1)
  /\ call \in [Callers -> {"idle", "success", "failure"}]
  /\ up \in BOOLEAN

\* Failures still within the sliding window.
Recent == {i \in 1 .. Len(failures) : failures[i] <= FailureWindow}

\* A closed breaker opens exactly when a failure is the FailureThreshold-th of
\* those within the window: stale timestamps never count, and none that is
\* still within it is shifted out first (onFailure).
Failed == \E c \in Callers : call[c] = "failure" /\ call'[c] = "idle"
TripsExactly ==
  [][state = "closed" /\ Failed =>
       (state' = "open" <=> Cardinality(Recent) + 1 >= FailureThreshold)]_vars

\* The service is up and no call in flight is going to fail.
Well == up /\ \A c \in Callers : call[c] # "failure"

\* A call comes back with a success.
Succeeded == \E c \in Callers : call[c] = "success" /\ call'[c] = "idle"

Mends ==
  Well /\ up' =>
    /\ Well'
    /\ state = "closed" => state' = "closed"
    /\ state = "half-open" => state' # "open"
    /\ lastFailure <= lastFailure'
    /\ state' # "closed" => consecutiveSuccesses <= consecutiveSuccesses'
    /\ state = "half-open" /\ Succeeded =>
         state' = "closed" \/ consecutiveSuccesses < consecutiveSuccesses'

\* Once the failures in flight have come back, in whatever order calls and
\* probes end, no step opens the breaker or takes from it what it has gained:
\* the age of the failure it waits out and the successes it counts; and in
\* half-open each success counts or closes it.
NeverWorsens == [][Mends]_vars

\* A breaker that is not closed knows when it last failed, so an open one
\* always waits for its recovery window (the null case of canExecute never
\* lets a call through).
KnowsItsFailure == state # "closed" => lastFailure # Never

\* Once the service stays up, the breaker is closed for good, however it was
\* left: late failures, half-open periods and recovery windows all pass.
Recovers == <>[]up => <>[](state = "closed")
=============================================================================
