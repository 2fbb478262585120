--------------------------- MODULE MCTaskCredits ---------------------------
(***************************************************************************)
(* Instances of TaskCredits for TLC, and the properties that need sums.    *)
(***************************************************************************)
EXTENDS TaskCredits, Functions, TLC

\* History, kept while nothing fails and no worker dies: how many cancel
\* requests and attempts have read the reservation of a task while it was
\* active, and so set out to settle it.
VARIABLE claims

Calm == crashes = 0 /\ faults = 0

FindsOf(t) ==
  \/ \E c \in Cancels : can[<<t, c>>] = "find" /\ can'[<<t, c>>] # "find"
  \/ \E k \in Attempts : /\ att[<<t, k>>].pc \in {"find", "relFind"}
                         /\ att'[<<t, k>>].pc \in {"deduct", "relDec"}

Claimed(t) == IF resv[t] = "active" /\ FindsOf(t) THEN claims[t] + 1 ELSE claims[t]

MCInit == Init /\ claims = [t \in Tasks |-> 0]
MCNext == Next /\ claims' = [t \in Tasks |-> IF Calm' THEN Claimed(t) ELSE 0]
MCSpec == MCInit /\ [][MCNext]_<<vars, claims>>
MCFairSpec == MCSpec /\ Fairness

\* Tasks and the requests to cancel one are interchangeable.
Symmetry == Permutations(Tasks) \cup Permutations(Cancels)

\* What attempts have deducted from the balance and are about to record.
Unrecorded == {r \in Runs : att[r].pc \in {"mark", "record"}}

\* Bounds of the run over two tasks: when both are submitted nothing fails and
\* nobody sends a second cancel request; and a user writes a status of his own
\* only to a single task, and where nothing has failed.
Alone == \E t \in Tasks : \A u \in Tasks \ {t} : sub[u] = "idle"
Lone(t) == {c \in Cancels : can[<<t, c>>] # "idle"}
AloneOrCalm ==
  /\ (\E t \in Tasks : status[t] = "paused") => Alone /\ Calm
  /\ ~ Alone => Calm /\ \A t \in Tasks : Cardinality(Lone(t)) <= 1

\* No task pays for another: as long as nothing fails and no reservation is
\* claimed by two settlers, the organisation's counter is exactly what the
\* reservations still held add up to, whatever submits, cancels, retries and
\* late attempts of all tasks interleave.  (Two claims of one reservation do
\* decrement the counter twice, and the second time is at the expense of
\* another task: processor.ts and tasks.ts look the reservation up and settle
\* it in separate statements.)
EachPaysItsOwn ==
  Calm /\ (\A t \in Tasks : claims[t] <= 1) =>
    reserved = Cost * Cardinality({t \in Held : sub[t] # "reserve"})

Charge == [r \in Runs |-> att[r].charge]

\* The balance, with what the ledger and the open attempts account for.
Explained == balance + SumFunctionOnSet(spent, Tasks) + SumFunctionOnSet(Charge, Unrecorded)

\* The audit trail: as long as no call fails and no worker dies, every
\* credit gone from the balance is explained by a consumption row or by one
\* that an attempt is about to write, however the attempts of all tasks
\* interleave; GREATEST(.., 0) may only make the balance lose less.
LedgerExplainsBalance ==
  Calm => /\ Explained >= InitialBalance
          /\ balance > 0 => Explained = InitialBalance
=============================================================================
