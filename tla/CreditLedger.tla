---------------------------- MODULE CreditLedger ----------------------------
(***************************************************************************)
(* The balance of one organisation against its ledger: the API's Stripe    *)
(* webhook (routes/webhooks/stripe.ts) adds credits through CreditService, *)
(* the queue worker's TaskProcessor charges and releases tasks, and the    *)
(* reconciliation jobs of packages/workflow make the balance the sum of    *)
(* the rows of credit_transactions (packages/billing ledger-integrity.ts). *)
(*                                                                         *)
(* Every SQL statement is a step: none of these handlers opens a           *)
(* transaction.  Reads that only fill in balanceBefore and balanceAfter    *)
(* are left out, as are the reservations, which TaskCredits models.        *)
(***************************************************************************)
EXTENDS Integers, FiniteSets

CONSTANTS
  Events,         \* Stripe's payment events, each worth Amount credits
  Unclear,        \* those that may not tell whom to grant what
  Handlers,       \* requests to the webhook that may be in progress at once
  Tasks,          \* paid tasks the worker settles
  Jobs,           \* reconciliations that may run at once: cron and manual
  Default,        \* credits of a balance row getBalance() creates
  Amount, Cost,   \* credits of a payment, and of a reservation
  Charges,        \* credits a task may consume
  MaxFaults,      \* bound: webhook requests that fail or die half-way
  MaxDuplicates   \* bound: deliveries Stripe makes beyond those it owes

ASSUME UnclearEvents == Unclear \subseteq Events

ASSUME AmountsNat ==
  /\ Default \in Nat /\ Amount \in Nat /\ Cost \in Nat /\ Charges \subseteq Nat
  /\ MaxFaults \in Nat /\ MaxDuplicates \in Nat

VARIABLES
  row, balance,     \* whether the row of credit_balances exists; its balance
  ledger,           \* SUM(amount) of the rows of credit_transactions
  refunds,          \* the part of it in rows of type "refund"
  granted,          \* rows written for each event
  processed,        \* processed_webhook_events
  acked,            \* events Stripe got a 200 for
  handler,          \* what each webhook request is doing, and for which event
  task,             \* how far the settlement of each task is
  job,              \* what each reconciliation is doing, and what it read
  faults, duplicates,
  disturbed,        \* events with a failed or an overlapping delivery, or
                    \* whose record was pruned (history, read by no action)
  declined          \* events not granted when delivered (history as well)

stripe == <<processed, acked, granted, handler, faults, duplicates, disturbed, declined>>
sums   == <<row, balance, ledger, refunds>>
vars   == <<sums, stripe, task, job>>

NoEvent == "none"
Free    == [pc |-> "free", event |-> NoEvent]
Asleep  == [pc |-> "asleep", read |-> 0]

ASSUME NoEventIsNone == NoEvent \notin Events

Init ==
  /\ row = FALSE /\ balance = 0 /\ ledger = 0 /\ refunds = 0
  /\ granted = [e \in Events |-> 0]
  /\ processed = {} /\ acked = {} /\ disturbed = {} /\ declined = {}
  /\ handler = [h \in Handlers |-> Free]
  /\ task = [t \in Tasks |-> [pc |-> "new", charge |-> 0]]
  /\ job = [j \in Jobs |-> Asleep]
  /\ faults = 0 /\ duplicates = 0

-----------------------------------------------------------------------------
(* The webhook                                                             *)

Under(e) == \E h \in Handlers : handler[h].event = e

At(h, from, to) == handler[h].pc = from /\ handler' = [handler EXCEPT ![h].pc = to]

Starts(h, e) ==
  /\ handler[h] = Free
  /\ handler' = [handler EXCEPT ![h] = [pc |-> "lookup", event |-> e]]

\* Stripe sends an event until it is answered with a 200 ...
Deliver(h, e) ==
  /\ e \notin acked /\ ~ Under(e)
  /\ Starts(h, e)
  /\ UNCHANGED <<sums, processed, acked, granted, faults, duplicates, disturbed, declined, task, job>>

\* ... and may send it again before or after that.
DeliverAgain(h, e) ==
  /\ e \in acked \/ Under(e)
  /\ duplicates < MaxDuplicates /\ duplicates' = duplicates + 1
  /\ Starts(h, e)
  /\ disturbed' = IF Under(e) THEN disturbed \cup {e} ELSE disturbed
  /\ UNCHANGED <<sums, processed, acked, granted, faults, declined, task, job>>

\* mutant: the event is recorded before it is handled.
LookupRecords(h) ==
  /\ At(h, "lookup", IF handler[h].event \in processed THEN "respond" ELSE "ensure")
  /\ processed' = processed \cup {handler[h].event}
  /\ UNCHANGED <<sums, acked, granted, faults, duplicates, disturbed, declined, task, job>>

\* mutant: the records are not looked up.
LookupNothing(h) ==
  /\ At(h, "lookup", "ensure")
  /\ UNCHANGED <<sums, processed, acked, granted, faults, duplicates, disturbed, declined, task, job>>

\* mutant: a duplicate is refused.
LookupRefuses(h) ==
  /\ handler[h].pc = "lookup"
  /\ handler' = [handler EXCEPT ![h] = IF @.event \in processed THEN Free ELSE [@ EXCEPT !.pc = "ensure"]]
  /\ UNCHANGED <<sums, processed, acked, granted, faults, duplicates, disturbed, declined, task, job>>

\* isEventAlreadyProcessed()
Lookup(h) ==
  /\ At(h, "lookup", IF handler[h].event \in processed THEN "respond" ELSE "ensure")
  /\ UNCHANGED <<sums, processed, acked, granted, faults, duplicates, disturbed, declined, task, job>>

\* The handler returns early: no orgId or amount in the metadata, an unknown
\* customer, a plan without credits.  The event goes on as if it were granted.
Decline(h) ==
  /\ handler[h].event \in Unclear
  /\ At(h, "ensure", "record")
  /\ declined' = IF granted[handler[h].event] > 0 THEN declined
                 ELSE declined \cup {handler[h].event}
  /\ UNCHANGED <<sums, processed, acked, granted, faults, duplicates, disturbed, task, job>>

\* getBalance() creates the row it does not find.
EnsureRow(h) ==
  /\ At(h, "ensure", "add")
  /\ row' = TRUE
  /\ balance' = IF row THEN balance ELSE Default
  /\ UNCHANGED <<ledger, refunds, processed, acked, granted, faults, duplicates, disturbed, declined, task, job>>

AddToBalance(h) ==
  /\ At(h, "add", "insert")
  /\ balance' = balance + Amount
  /\ UNCHANGED <<row, ledger, refunds, processed, acked, granted, faults, duplicates, disturbed, declined, task, job>>

InsertRow(h) ==
  /\ At(h, "insert", "record")
  /\ ledger' = ledger + Amount
  /\ granted' = [granted EXCEPT ![handler[h].event] = @ + 1]
  /\ declined' = declined \ {handler[h].event}
  /\ UNCHANGED <<row, balance, refunds, processed, acked, faults, duplicates, disturbed, task, job>>

\* recordProcessedEvent()
Record(h) ==
  /\ At(h, "record", "respond")
  /\ processed' = processed \cup {handler[h].event}
  /\ UNCHANGED <<sums, acked, granted, faults, duplicates, disturbed, declined, task, job>>

Respond(h) ==
  /\ handler[h].pc = "respond"
  /\ handler' = [handler EXCEPT ![h] = Free]
  /\ acked' = acked \cup {handler[h].event}
  /\ UNCHANGED <<sums, processed, granted, faults, duplicates, disturbed, declined, task, job>>

\* A statement throws and the answer is a 400, the process dies, or the
\* answer is lost.
Fail(h) ==
  /\ handler[h].pc # "free" /\ faults < MaxFaults
  /\ handler' = [handler EXCEPT ![h] = Free]
  /\ faults' = faults + 1
  /\ disturbed' = disturbed \cup {handler[h].event}
  /\ UNCHANGED <<sums, processed, acked, granted, duplicates, declined, task, job>>

\* pruneExpiredWebhookEvents(), two days after the event was recorded: any
\* request to the webhook may start it, and none waits for it.
Prune(e) ==
  /\ e \in processed
  /\ processed' = processed \ {e}
  /\ disturbed' = disturbed \cup {e}
  /\ UNCHANGED <<sums, acked, granted, handler, faults, duplicates, declined, task, job>>

Webhook(h) ==
  \/ Lookup(h) \/ Decline(h) \/ EnsureRow(h) \/ AddToBalance(h) \/ InsertRow(h)
  \/ Record(h) \/ Respond(h)

\* billing.getBalance, which a user's page calls, may create the row first.
View ==
  /\ ~ row /\ row' = TRUE
  /\ balance' = Default
  /\ UNCHANGED <<ledger, refunds, stripe, task, job>>

-----------------------------------------------------------------------------
(* A task, reserved and settled once (TaskCredits has what may go wrong)   *)

\* reserveCredits() finds no row to have no credits.  What others reserved,
\* left out here, makes it refuse more.
Reserve(t) ==
  /\ task[t].pc = "new" /\ row /\ balance >= Cost
  /\ task' = [task EXCEPT ![t].pc = "reserved"]
  /\ UNCHANGED <<sums, stripe, job>>

\* GREATEST(n - m, 0)
Minus(n, m) == IF n >= m THEN n - m ELSE 0

\* consumeCredits() up to its update of the balance.
Consume(t) ==
  /\ task[t].pc = "reserved"
  /\ \E n \in Charges :
       /\ task' = [task EXCEPT ![t] = [pc |-> "deducted", charge |-> n]]
       /\ balance' = Minus(balance, n)
  /\ UNCHANGED <<row, ledger, refunds, stripe, job>>

RecordConsumption(t) ==
  /\ task[t].pc = "deducted"
  /\ task' = [task EXCEPT ![t].pc = "settled"]
  /\ ledger' = ledger - task[t].charge
  /\ UNCHANGED <<row, balance, refunds, stripe, job>>

\* releaseCredits() leaves the balance alone and writes a row for the
\* reserved credits.
Release(t) ==
  /\ task[t].pc = "reserved"
  /\ task' = [task EXCEPT ![t].pc = "settled"]
  /\ ledger' = ledger + Cost /\ refunds' = refunds + Cost
  /\ UNCHANGED <<row, balance, stripe, job>>

-----------------------------------------------------------------------------
(* LedgerIntegrity.reconcile()                                             *)

\* mutant: no early return when there is no balance row.
ReadBalanceAny(j) ==
  /\ job[j].pc = "asleep"
  /\ job' = [job EXCEPT ![j] = [pc |-> "sum", read |-> balance]]
  /\ UNCHANGED <<sums, stripe, task>>

ReadBalance(j) ==
  /\ job[j].pc = "asleep" /\ row
  /\ job' = [job EXCEPT ![j] = [pc |-> "sum", read |-> balance]]
  /\ UNCHANGED <<sums, stripe, task>>

\* mutant: discrepancies from Amount on are left for a manual review.
ReadSumSmall(j) ==
  /\ job[j].pc = "sum"
  /\ job' = [job EXCEPT ![j] = IF @.read = ledger \/ @.read - ledger >= Amount THEN Asleep
                               ELSE [pc |-> "correct", read |-> ledger]]
  /\ UNCHANGED <<sums, stripe, task>>

ReadSum(j) ==
  /\ job[j].pc = "sum"
  /\ job' = [job EXCEPT ![j] = IF @.read = ledger THEN Asleep
                               ELSE [pc |-> "correct", read |-> ledger]]
  /\ UNCHANGED <<sums, stripe, task>>

\* The sum that was read is written over whatever the balance is now.
Correct(j) ==
  /\ job[j].pc = "correct"
  /\ balance' = job[j].read
  /\ job' = [job EXCEPT ![j] = Asleep]
  /\ UNCHANGED <<row, ledger, refunds, stripe, task>>

Reconcile(j) == ReadBalance(j) \/ ReadSum(j) \/ Correct(j)

Next ==
  \/ \E h \in Handlers : \/ Webhook(h) \/ Fail(h)
                         \/ \E e \in Events : Deliver(h, e) \/ DeliverAgain(h, e)
  \/ View \/ \E e \in Events : Prune(e)
  \/ \E t \in Tasks : Reserve(t) \/ Consume(t) \/ RecordConsumption(t) \/ Release(t)
  \/ \E j \in Jobs : Reconcile(j)

Spec == Init /\ [][Next]_vars

\* Stripe keeps sending what was not answered, a request that began and a
\* settlement go on, and the reconciliation is scheduled for ever.
FairSpec ==
  /\ Spec
  /\ \A e \in Events : WF_vars(\E h \in Handlers : Deliver(h, e))
  /\ \A h \in Handlers : WF_vars(Webhook(h))
  /\ \A t \in Tasks : WF_vars(RecordConsumption(t))
  /\ \A j \in Jobs : WF_vars(Reconcile(j))

-----------------------------------------------------------------------------
(* Properties                                                              *)

TypeOK ==
  /\ row \in BOOLEAN
  /\ balance \in Int /\ ledger \in Int /\ refunds \in Nat
  /\ ~ row => \A j \in Jobs : job[j] = Asleep
  /\ granted \in [Events -> Nat]
  /\ processed \subseteq Events /\ acked \subseteq Events /\ disturbed \subseteq Events
  /\ declined \subseteq Unclear
  /\ handler \in [Handlers -> {Free} \cup
       [pc : {"lookup", "ensure", "add", "insert", "record", "respond"}, event : Events]]
  /\ task \in [Tasks -> [pc : {"new", "reserved", "deducted", "settled"}, charge : Nat]]
  /\ job \in [Jobs -> [pc : {"asleep", "sum", "correct"}, read : Int]]
  /\ faults \in Nat /\ duplicates \in Nat

\* What Stripe was told is done is done: a payment answered with a 200 has
\* its row in the ledger, however its deliveries failed, overlapped or were
\* taken for duplicates, unless a handler found nothing to grant for it.
AcknowledgedIsGranted == \A e \in acked \ declined : granted[e] > 0

\* The idempotency records work for deliveries that neither fail half-way nor
\* overlap: such a payment is granted once, however often it is sent again.
GrantedOnce == \A e \in Events \ disturbed : granted[e] <= 1

\* Every payment is acknowledged in the end, so granted if its handlers find
\* what to grant.
PaidArrives == \A e \in Events : <>(e \in acked)

\* The reconciliations make the balance the sum of the ledger for good once
\* the payments and the tasks are settled, although they may overwrite an
\* addition in flight and one another's corrections on the way.
Converges == <>[](row => balance = ledger)

\* The balance never holds more than the default, the payments and the
\* charges account for: releasing a reservation gives back what was set
\* aside, and adds nothing (tests/integration/billing-flow.test.ts:246).
InFlight == Cardinality({h \in Handlers : handler[h].pc = "insert"})
EarnedOnly == balance <= Default + Amount * InFlight + ledger - refunds
=============================================================================
