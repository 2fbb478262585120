-------------------------- MODULE CreditLedgerProofs --------------------------
(***************************************************************************)
(* Theorems about CreditLedger, for any number of events, requests, tasks  *)
(* and reconciliations and without its bounds on failures and duplicates.  *)
(***************************************************************************)
EXTENDS CreditLedger, TLAPS

\* An event has a row in the ledger, or there was nothing to grant for it.
Dealt(e) == granted[e] > 0 \/ e \in declined

\* A request past the insertion, an event recorded and an event acknowledged
\* are dealt with.
Written ==
  /\ \A h \in Handlers : handler[h].pc \in {"record", "respond"} => Dealt(handler[h].event)
  /\ \A e \in processed \cup acked : Dealt(e)

\* An undisturbed event has one request at most, and has been granted when it
\* is recorded or about to be; no request that will grant it meets its record.
Single ==
  \A e \in Events \ disturbed :
    /\ \A g, h \in Handlers : handler[g].event = e /\ handler[h].event = e => g = h
    /\ granted[e] <= 1
    /\ granted[e] = 1 => \/ e \in processed
                         \/ \E h \in Handlers : handler[h] = [pc |-> "record", event |-> e]
    /\ \A h \in Handlers :
         handler[h].event = e /\ handler[h].pc \in {"ensure", "add", "insert"} => e \notin processed

IInv == TypeOK /\ Written /\ Single

-----------------------------------------------------------------------------
LEMMA Starting == Init => IInv
<1>. SUFFICES ASSUME Init PROVE IInv
  OBVIOUS
<1>1. TypeOK
  <2>1. handler \in [Handlers -> {Free} \cup
          [pc : {"lookup", "ensure", "add", "insert", "record", "respond"}, event : Events]]
    BY DEF Init
  <2>2. job \in [Jobs -> [pc : {"asleep", "sum", "correct"}, read : Int]]
    BY DEF Init, Asleep
  <2>3. task \in [Tasks -> [pc : {"new", "reserved", "deducted", "settled"}, charge : Nat]]
    BY DEF Init
  <2>4. granted \in [Events -> Nat]  BY DEF Init
  <2>5. ~ row => \A j \in Jobs : job[j] = Asleep  BY DEF Init
  <2>6. row \in BOOLEAN  BY DEF Init
  <2>7. balance \in Int /\ ledger \in Int /\ refunds \in Nat /\ faults \in Nat /\ duplicates \in Nat
    BY SMT DEF Init
  <2>8. processed \subseteq Events /\ acked \subseteq Events /\ disturbed \subseteq Events
         /\ declined \subseteq Unclear
    BY DEF Init
  <2>. QED  BY <2>1, <2>2, <2>3, <2>4, <2>5, <2>6, <2>7, <2>8, Zenon DEF TypeOK
<1>2. Written  BY DEF Init, Written, Dealt, Free
<1>3. Single  BY NoEventIsNone DEF Init, Single, Free
<1>. QED  BY <1>1, <1>2, <1>3 DEF IInv

\* Where a request stands: at work on an event, or free.
LEMMA AtWork ==
  ASSUME TypeOK, NEW h \in Handlers
  PROVE  /\ handler[h].pc # "free" => handler[h].event \in Events
         /\ handler[h].pc = "free" => handler[h] = Free
         /\ handler[h].event \in Events => handler[h].pc # "free"
         /\ handler[h] = [pc |-> handler[h].pc, event |-> handler[h].event]
BY NoEventIsNone DEF TypeOK, Free

\* Steps that leave what Stripe and the requests know alone.
LEMMA Elsewhere ==
  ASSUME IInv, UNCHANGED stripe PROVE (Written /\ Single)'
<1>1. Written'  BY DEF IInv, Written, Dealt, stripe
<1>2. Single'  BY DEF IInv, Single, stripe
<1>. QED  BY <1>1, <1>2

LEMMA Delivered ==
  ASSUME IInv, NEW h \in Handlers, NEW e \in Events, Deliver(h, e) \/ DeliverAgain(h, e)
  PROVE  IInv'
<1>. DEFINE at == [pc |-> "lookup", event |-> e]
<1>1. /\ handler[h] = Free /\ handler' = [handler EXCEPT ![h] = at]
      /\ UNCHANGED <<sums, processed, acked, granted, declined, task, job>>
      /\ disturbed' \subseteq Events /\ disturbed \subseteq disturbed'
      /\ faults' \in Nat /\ duplicates' \in Nat
      /\ Under(e) => e \in disturbed'
  BY DEF Deliver, DeliverAgain, Starts, IInv, TypeOK
<1>2. \A g \in Handlers : handler'[g] = IF g = h THEN at ELSE handler[g]
  BY <1>1 DEF IInv, TypeOK
<1>3. TypeOK'
  <2>1. handler' \in [Handlers -> {Free} \cup
          [pc : {"lookup", "ensure", "add", "insert", "record", "respond"}, event : Events]]
    BY <1>1 DEF IInv, TypeOK
  <2>. QED  BY <1>1, <2>1 DEF IInv, TypeOK, sums
<1>4. Written'  BY <1>1, <1>2 DEF IInv, Written, Dealt
<1>5. Single'
  <2>. SUFFICES ASSUME NEW x \in Events, x \notin disturbed'
                PROVE  /\ \A f, g \in Handlers : handler'[f].event = x /\ handler'[g].event = x => f = g
                       /\ granted'[x] <= 1
                       /\ granted'[x] = 1 => \/ x \in processed'
                                             \/ \E g \in Handlers : handler'[g] = [pc |-> "record", event |-> x]
                       /\ \A g \in Handlers :
                            handler'[g].event = x /\ handler'[g].pc \in {"ensure", "add", "insert"} => x \notin processed'
    BY DEF Single
  <2>1. x \notin disturbed  BY <1>1
  <2>2. \A f, g \in Handlers : handler'[f].event = x /\ handler'[g].event = x => f = g
    <3>1. CASE x = e
      <4>1. ~ \E g \in Handlers : handler[g].event = e  BY <3>1, <1>1 DEF Under
      <4>. QED  BY <3>1, <4>1, <1>2
    <3>2. CASE x # e
      <4>1. \A g \in Handlers : handler'[g].event = x => handler[g].event = x
        BY <3>2, <1>2
      <4>. QED  BY <4>1, <2>1 DEF IInv, Single
    <3>. QED  BY <3>1, <3>2
  <2>3. handler[h].event # x /\ handler[h].pc = "free"
    BY <1>1, NoEventIsNone DEF Free
  <2>4. \A g \in Handlers : handler[g] = [pc |-> "record", event |-> x] => handler'[g] = handler[g]
    BY <1>2, <2>3
  <2>. QED  BY <1>1, <1>2, <2>1, <2>2, <2>4 DEF IInv, Single
<1>. QED  BY <1>3, <1>4, <1>5 DEF IInv

\* A step of the request h that goes on to pc and changes no record.
LEMMA Advances ==
  ASSUME IInv, NEW h \in Handlers, NEW to \in {"ensure", "add", "insert", "respond"},
         handler[h].pc # "free", handler[h].pc # "record",
         handler' = [handler EXCEPT ![h].pc = to],
         UNCHANGED <<processed, acked, granted, disturbed, declined>>,
         to = "respond" => handler[h].event \in processed,
         to # "respond" => \/ handler[h].pc \in {"ensure", "add", "insert"}
                           \/ handler[h].event \notin processed
  PROVE  (Written /\ Single)'
<1>. DEFINE e == handler[h].event
<1>1. e \in Events  BY AtWork DEF IInv
<1>2. \A g \in Handlers : /\ handler'[g].event = handler[g].event
                          /\ handler'[g].pc = IF g = h THEN to ELSE handler[g].pc
                          /\ g # h => handler'[g] = handler[g]
  <2>1. handler[h] = [pc |-> handler[h].pc, event |-> e]  BY AtWork DEF IInv
  <2>. QED  BY <2>1 DEF IInv, TypeOK
<1>3. Written'  BY <1>2 DEF IInv, Written, Dealt
<1>4. \A x \in Events, g \in Handlers :
        handler[g] = [pc |-> "record", event |-> x] => handler'[g] = handler[g]
  BY <1>2
<1>5. Single'
  <2>. SUFFICES ASSUME NEW x \in Events, x \notin disturbed
                PROVE  /\ \A f, g \in Handlers : handler'[f].event = x /\ handler'[g].event = x => f = g
                       /\ granted[x] <= 1
                       /\ granted[x] = 1 => \/ x \in processed
                                            \/ \E g \in Handlers : handler'[g] = [pc |-> "record", event |-> x]
                       /\ \A g \in Handlers :
                            handler'[g].event = x /\ handler'[g].pc \in {"ensure", "add", "insert"} => x \notin processed
    BY DEF Single
  <2>1. \A g \in Handlers :
          handler'[g].event = x /\ handler'[g].pc \in {"ensure", "add", "insert"} => x \notin processed
    <3>. SUFFICES ASSUME NEW g \in Handlers, handler[g].event = x,
                         handler'[g].pc \in {"ensure", "add", "insert"}
                  PROVE  x \notin processed
      BY <1>2
    <3>1. CASE g = h
      <4>1. to # "respond"  BY <3>1, <1>2
      <4>2. CASE handler[h].event \notin processed  BY <3>1, <4>2
      <4>3. CASE handler[h].pc \in {"ensure", "add", "insert"}
        BY <3>1, <4>3 DEF IInv, Single
      <4>. QED  BY <4>1, <4>2, <4>3
    <3>2. CASE g # h  BY <3>2, <1>2 DEF IInv, Single
    <3>. QED  BY <3>1, <3>2
  <2>. QED  BY <1>2, <1>4, <2>1 DEF IInv, Single
<1>. QED  BY <1>3, <1>5

LEMMA HandlerTypes ==
  ASSUME TypeOK, NEW h \in Handlers, handler[h].pc # "free",
         NEW to \in {"lookup", "ensure", "add", "insert", "record", "respond"},
         handler' = [handler EXCEPT ![h].pc = to]
  PROVE  handler' \in [Handlers -> {Free} \cup
           [pc : {"lookup", "ensure", "add", "insert", "record", "respond"}, event : Events]]
<1>1. handler[h].event \in Events /\ handler[h] = [pc |-> handler[h].pc, event |-> handler[h].event]
  BY AtWork
<1>2. [handler[h] EXCEPT !.pc = to] = [pc |-> to, event |-> handler[h].event]
  BY <1>1
<1>. QED  BY <1>1, <1>2 DEF TypeOK

LEMMA Frees ==
  ASSUME TypeOK, NEW h \in Handlers, handler' = [handler EXCEPT ![h] = Free]
  PROVE  /\ handler' \in [Handlers -> {Free} \cup
              [pc : {"lookup", "ensure", "add", "insert", "record", "respond"}, event : Events]]
         /\ \A g \in Handlers : handler'[g] = IF g = h THEN Free ELSE handler[g]
BY DEF TypeOK

LEMMA Inserts == ASSUME IInv, NEW h \in Handlers, InsertRow(h) PROVE IInv'
<1>. DEFINE e == handler[h].event
<1>. USE DEF InsertRow, At
<1>1. e \in Events /\ handler[h] = [pc |-> "insert", event |-> e]  BY AtWork DEF IInv
<1>2. \A g \in Handlers : /\ handler'[g].event = handler[g].event
                          /\ handler'[g] = IF g = h THEN [pc |-> "record", event |-> e] ELSE handler[g]
  BY <1>1 DEF IInv, TypeOK
<1>3. \A x \in Events : granted'[x] = IF x = e THEN granted[x] + 1 ELSE granted[x]
  BY DEF IInv, TypeOK
<1>4. TypeOK'
  <2>1. handler' \in [Handlers -> {Free} \cup
          [pc : {"lookup", "ensure", "add", "insert", "record", "respond"}, event : Events]]
    BY <1>1, HandlerTypes DEF IInv
  <2>2. granted' \in [Events -> Nat]  BY <1>1 DEF IInv, TypeOK
  <2>3. ledger' \in Int  BY AmountsNat DEF IInv, TypeOK
  <2>. QED  BY <2>1, <2>2, <2>3 DEF IInv, TypeOK
<1>5. Written'
  <2>. DEFINE Then(x) == granted'[x] > 0 \/ x \in declined'
  <2>0. ASSUME NEW x \in Events, Dealt(x) \/ x = e PROVE Then(x)
    <3>1. granted[x] \in Nat  BY DEF IInv, TypeOK
    <3>2. CASE x = e  BY <3>1, <3>2, <1>3
    <3>3. CASE x # e  BY <2>0, <3>3, <1>3 DEF Dealt
    <3>. QED  BY <3>2, <3>3
  <2>1. ASSUME NEW g \in Handlers, handler'[g].pc \in {"record", "respond"}
        PROVE  Then(handler'[g].event)
    <3>1. CASE g = h
      <4>1. handler'[g].event = e  BY <3>1, <1>2
      <4>2. Then(e)  BY <1>1, <2>0
      <4>. QED  BY <4>1, <4>2
    <3>2. CASE g # h
      <4>1. handler'[g] = handler[g]  BY <3>2, <1>2
      <4>2. handler[g].event \in Events /\ Dealt(handler[g].event)
        BY <4>1, <2>1, AtWork DEF IInv, Written
      <4>3. Then(handler[g].event)  BY <4>2, <2>0
      <4>. QED  BY <4>1, <4>3
    <3>. QED  BY <3>1, <3>2
  <2>2. \A x \in processed' \cup acked' : Then(x)
    BY <2>0 DEF IInv, TypeOK, Written
  <2>. QED  BY <2>1, <2>2 DEF Written, Dealt
<1>6. Single'
  <2>. SUFFICES ASSUME NEW x \in Events, x \notin disturbed
                PROVE  /\ \A f, g \in Handlers : handler'[f].event = x /\ handler'[g].event = x => f = g
                       /\ granted'[x] <= 1
                       /\ granted'[x] = 1 => \/ x \in processed
                                             \/ \E g \in Handlers : handler'[g] = [pc |-> "record", event |-> x]
                       /\ \A g \in Handlers :
                            handler'[g].event = x /\ handler'[g].pc \in {"ensure", "add", "insert"} => x \notin processed
    BY DEF Single
  <2>1. \A f, g \in Handlers : handler[f].event = x /\ handler[g].event = x => f = g
    BY DEF IInv, Single
  <2>2. CASE x = e
    <3>1. x \notin processed  BY <2>2, <1>1 DEF IInv, Single
    <3>2. ~ \E g \in Handlers : handler[g] = [pc |-> "record", event |-> x]
      BY <2>1, <2>2, <1>1
    <3>3. granted[x] = 0
      <4>1. granted[x] \in Nat  BY DEF IInv, TypeOK
      <4>2. granted[x] <= 1 /\ granted[x] # 1  BY <3>1, <3>2 DEF IInv, Single
      <4>. QED  BY <4>1, <4>2
    <3>. QED  BY <2>1, <2>2, <3>1, <3>3, <1>2, <1>3
  <2>3. CASE x # e
    <3>1. \A g \in Handlers : handler[g].event = x => handler'[g] = handler[g]
      BY <2>3, <1>2
    <3>2. granted'[x] = granted[x]  BY <2>3, <1>3
    <3>. QED  BY <2>1, <2>3, <3>1, <3>2, <1>1, <1>2 DEF IInv, Single
  <2>. QED  BY <2>2, <2>3
<1>. QED  BY <1>4, <1>5, <1>6 DEF IInv

LEMMA Records == ASSUME IInv, NEW h \in Handlers, Record(h) PROVE IInv'
<1>. DEFINE e == handler[h].event
<1>. USE DEF Record, At
<1>1. e \in Events /\ handler[h] = [pc |-> "record", event |-> e]  BY AtWork DEF IInv
<1>2. \A g \in Handlers : /\ handler'[g].event = handler[g].event
                          /\ handler'[g] = IF g = h THEN [pc |-> "respond", event |-> e] ELSE handler[g]
  BY <1>1 DEF IInv, TypeOK
<1>3. TypeOK'
  <2>1. handler' \in [Handlers -> {Free} \cup
          [pc : {"lookup", "ensure", "add", "insert", "record", "respond"}, event : Events]]
    BY <1>1, HandlerTypes DEF IInv
  <2>. QED  BY <1>1, <2>1 DEF IInv, TypeOK, sums
<1>4. Written'
  <2>1. Dealt(e)  BY <1>1 DEF IInv, Written
  <2>2. \A g \in Handlers : handler'[g].pc \in {"record", "respond"} => Dealt(handler[g].event)
    <3>. SUFFICES ASSUME NEW g \in Handlers, handler'[g].pc \in {"record", "respond"}
                  PROVE  Dealt(handler[g].event)
      BY <1>2
    <3>1. CASE g = h  BY <3>1, <2>1
    <3>2. CASE g # h  BY <3>2, <1>2 DEF IInv, Written
    <3>. QED  BY <3>1, <3>2
  <2>3. \A x \in processed' \cup acked' : Dealt(x)  BY <2>1 DEF IInv, Written
  <2>. QED  BY <2>2, <2>3, <1>2 DEF Written, Dealt
<1>5. Single'
  <2>. SUFFICES ASSUME NEW x \in Events, x \notin disturbed
                PROVE  /\ \A f, g \in Handlers : handler'[f].event = x /\ handler'[g].event = x => f = g
                       /\ granted[x] <= 1
                       /\ granted[x] = 1 => \/ x \in processed'
                                            \/ \E g \in Handlers : handler'[g] = [pc |-> "record", event |-> x]
                       /\ \A g \in Handlers :
                            handler'[g].event = x /\ handler'[g].pc \in {"ensure", "add", "insert"} => x \notin processed'
    BY DEF Single
  <2>1. \A f, g \in Handlers : handler[f].event = x /\ handler[g].event = x => f = g
    BY DEF IInv, Single
  <2>2. CASE x = e
    <3>1. \A g \in Handlers : handler'[g].event = x => g = h  BY <2>1, <2>2, <1>2
    <3>. QED  BY <2>1, <2>2, <3>1, <1>1, <1>2 DEF IInv, Single
  <2>3. CASE x # e
    <3>1. \A g \in Handlers : handler[g].event = x => handler'[g] = handler[g]
      BY <2>3, <1>2
    <3>2. x \in processed' <=> x \in processed  BY <2>3
    <3>. QED  BY <2>1, <2>3, <3>1, <3>2, <1>1, <1>2 DEF IInv, Single
  <2>. QED  BY <2>2, <2>3
<1>. QED  BY <1>3, <1>4, <1>5 DEF IInv

LEMMA Answers == ASSUME IInv, NEW h \in Handlers, Respond(h) \/ Fail(h) PROVE IInv'
<1>. DEFINE e == handler[h].event
<1>1. e \in Events /\ handler[h] = [pc |-> handler[h].pc, event |-> e]
  BY AtWork DEF IInv, Respond, Fail
<1>2. /\ handler' = [handler EXCEPT ![h] = Free]
      /\ UNCHANGED <<sums, processed, granted, duplicates, declined, task, job>>
      /\ faults' \in Nat
      /\ \/ acked' = acked \cup {e} /\ disturbed' = disturbed /\ handler[h].pc = "respond"
         \/ acked' = acked /\ disturbed' = disturbed \cup {e}
  BY DEF Respond, Fail, IInv, TypeOK
<1>3. TypeOK'  BY <1>1, <1>2, Frees DEF IInv, TypeOK, sums
<1>4. \A g \in Handlers : handler'[g] = IF g = h THEN Free ELSE handler[g]
  BY <1>2, Frees DEF IInv
<1>5. Written'
  BY <1>1, <1>2, <1>4 DEF IInv, Written, Dealt, Free
<1>6. Single'
  <2>. SUFFICES ASSUME NEW x \in Events, x \notin disturbed'
                PROVE  /\ \A f, g \in Handlers : handler'[f].event = x /\ handler'[g].event = x => f = g
                       /\ granted[x] <= 1
                       /\ granted[x] = 1 => \/ x \in processed
                                            \/ \E g \in Handlers : handler'[g] = [pc |-> "record", event |-> x]
                       /\ \A g \in Handlers :
                            handler'[g].event = x /\ handler'[g].pc \in {"ensure", "add", "insert"} => x \notin processed
    BY <1>2 DEF Single
  <2>1. x \notin disturbed  BY <1>2
  <2>2. \A g \in Handlers : handler'[g].event = x => g # h /\ handler'[g] = handler[g]
    BY <1>4, NoEventIsNone DEF Free
  <2>3. \A g \in Handlers : handler[g] = [pc |-> "record", event |-> x] => handler'[g] = handler[g]
    <3>. SUFFICES ASSUME handler[h] = [pc |-> "record", event |-> x] PROVE FALSE
      BY <1>4
    <3>1. e = x /\ handler[h].pc = "record"  OBVIOUS
    <3>. QED  BY <3>1, <1>2
  <2>. QED  BY <2>1, <2>2, <2>3 DEF IInv, Single
<1>. QED  BY <1>3, <1>5, <1>6 DEF IInv

LEMMA Works ==
  ASSUME IInv, NEW h \in Handlers, Lookup(h) \/ EnsureRow(h) \/ AddToBalance(h) PROVE IInv'
<1>1. PICK to \in {"ensure", "add", "insert", "respond"} :
        /\ handler[h].pc # "free" /\ handler[h].pc # "record"
        /\ handler' = [handler EXCEPT ![h].pc = to]
        /\ to = "respond" => handler[h].event \in processed
        /\ to # "respond" => \/ handler[h].pc \in {"ensure", "add", "insert"}
                             \/ handler[h].event \notin processed
  <2>1. CASE Lookup(h)  BY <2>1 DEF Lookup, At
  <2>2. CASE EnsureRow(h)  BY <2>2 DEF EnsureRow, At
  <2>3. CASE AddToBalance(h)  BY <2>3 DEF AddToBalance, At
  <2>. QED  BY <2>1, <2>2, <2>3
<1>2. UNCHANGED <<ledger, refunds, processed, acked, granted, faults, duplicates, disturbed, declined,
                  task, job>>
  BY DEF Lookup, EnsureRow, AddToBalance, sums
<1>3. (Written /\ Single)'  BY <1>1, <1>2, Advances
<1>4. row' \in BOOLEAN /\ balance' \in Int /\ (row => row')
  <2>1. CASE Lookup(h)  BY <2>1 DEF Lookup, sums, IInv, TypeOK
  <2>2. CASE EnsureRow(h)  BY <2>2, AmountsNat DEF EnsureRow, IInv, TypeOK
  <2>3. CASE AddToBalance(h)
    BY <2>3, AmountsNat DEF AddToBalance, IInv, TypeOK
  <2>. QED  BY <2>1, <2>2, <2>3
<1>5. TypeOK'
  <2>1. handler' \in [Handlers -> {Free} \cup
          [pc : {"lookup", "ensure", "add", "insert", "record", "respond"}, event : Events]]
    BY <1>1, HandlerTypes DEF IInv
  <2>. QED  BY <1>2, <1>4, <2>1 DEF IInv, TypeOK
<1>. QED  BY <1>3, <1>5 DEF IInv

\* A handler finds nothing to grant.
LEMMA Declines == ASSUME IInv, NEW h \in Handlers, Decline(h) PROVE IInv'
<1>. DEFINE e == handler[h].event
<1>. USE DEF Decline, At
<1>1. e \in Events /\ handler[h] = [pc |-> "ensure", event |-> e]  BY AtWork DEF IInv
<1>2. \A g \in Handlers : /\ handler'[g].event = handler[g].event
                          /\ handler'[g] = IF g = h THEN [pc |-> "record", event |-> e] ELSE handler[g]
  BY <1>1 DEF IInv, TypeOK
<1>3. TypeOK'
  <2>1. handler' \in [Handlers -> {Free} \cup
          [pc : {"lookup", "ensure", "add", "insert", "record", "respond"}, event : Events]]
    BY <1>1, HandlerTypes DEF IInv
  <2>2. declined' \subseteq Unclear  BY DEF IInv, TypeOK
  <2>. QED  BY <2>1, <2>2 DEF IInv, TypeOK, sums
<1>4. \A x : Dealt(x) \/ x = e => Dealt(x)'
  BY DEF Dealt
<1>5. Written'
  <2>1. \A g \in Handlers : handler'[g].pc \in {"record", "respond"} => Dealt(handler[g].event) \/ g = h
    BY <1>2 DEF IInv, Written
  <2>2. \A x \in processed' \cup acked' : Dealt(x)
    BY DEF IInv, Written
  <2>. QED  BY <2>1, <2>2, <1>2, <1>4 DEF Written
<1>6. Single'
  <2>. SUFFICES ASSUME NEW x \in Events, x \notin disturbed
                PROVE  /\ \A f, g \in Handlers : handler'[f].event = x /\ handler'[g].event = x => f = g
                       /\ granted[x] <= 1
                       /\ granted[x] = 1 => \/ x \in processed
                                            \/ \E g \in Handlers : handler'[g] = [pc |-> "record", event |-> x]
                       /\ \A g \in Handlers :
                            handler'[g].event = x /\ handler'[g].pc \in {"ensure", "add", "insert"} => x \notin processed
    BY DEF Single
  <2>1. \A g \in Handlers : handler[g] = [pc |-> "record", event |-> x] => handler'[g] = handler[g]
    BY <1>1, <1>2
  <2>. QED  BY <1>1, <1>2, <2>1 DEF IInv, Single
<1>. QED  BY <1>3, <1>5, <1>6 DEF IInv

\* Two days after it was recorded, an event is forgotten.
LEMMA Prunes == ASSUME IInv, NEW e \in Events, Prune(e) PROVE IInv'
<1>. USE DEF Prune
<1>1. TypeOK'  BY DEF IInv, TypeOK, sums
<1>2. Written'  BY DEF IInv, Written, Dealt
<1>3. Single'  BY DEF IInv, Single
<1>. QED  BY <1>1, <1>2, <1>3 DEF IInv

LEMMA Settles ==
  ASSUME IInv, NEW t \in Tasks, Reserve(t) \/ Consume(t) \/ RecordConsumption(t) \/ Release(t)
  PROVE  IInv'
<1>1. UNCHANGED <<row, stripe, job>>
  BY DEF Reserve, Consume, RecordConsumption, Release, sums
<1>2. (Written /\ Single)'  BY <1>1, Elsewhere
<1>3. /\ task' \in [Tasks -> [pc : {"new", "reserved", "deducted", "settled"}, charge : Nat]]
      /\ balance' \in Int /\ ledger' \in Int /\ refunds' \in Nat
  <2>1. CASE Reserve(t)  BY <2>1 DEF Reserve, sums, IInv, TypeOK
  <2>2. CASE Consume(t)  BY <2>2, AmountsNat DEF Consume, Minus, IInv, TypeOK
  <2>3. CASE RecordConsumption(t)  BY <2>3 DEF RecordConsumption, IInv, TypeOK
  <2>4. CASE Release(t)  BY <2>4, AmountsNat DEF Release, IInv, TypeOK
  <2>. QED  BY <2>1, <2>2, <2>3, <2>4
<1>4. TypeOK'  BY <1>1, <1>3 DEF IInv, TypeOK, stripe
<1>. QED  BY <1>2, <1>4 DEF IInv

LEMMA Reconciles == ASSUME IInv, NEW j \in Jobs, Reconcile(j) PROVE IInv'
<1>1. UNCHANGED <<row, ledger, refunds, stripe, task>>
  BY DEF Reconcile, ReadBalance, ReadSum, Correct, sums
<1>2. (Written /\ Single)'  BY <1>1, Elsewhere
<1>3. /\ job' \in [Jobs -> [pc : {"asleep", "sum", "correct"}, read : Int]]
      /\ balance' \in Int
      /\ ~ row => \A i \in Jobs : job'[i] = Asleep
  <2>1. CASE ReadBalance(j)  BY <2>1 DEF ReadBalance, sums, IInv, TypeOK
  <2>2. CASE ReadSum(j)  BY <2>2 DEF ReadSum, sums, Asleep, IInv, TypeOK
  <2>3. CASE Correct(j)  BY <2>3 DEF Correct, Asleep, IInv, TypeOK
  <2>. QED  BY <2>1, <2>2, <2>3 DEF Reconcile
<1>4. TypeOK'  BY <1>1, <1>3 DEF IInv, TypeOK, stripe
<1>. QED  BY <1>2, <1>4 DEF IInv

LEMMA Inductive == IInv /\ [Next]_vars => IInv'
<1>. SUFFICES ASSUME IInv, [Next]_vars PROVE IInv'
  OBVIOUS
<1>1. ASSUME NEW h \in Handlers, Webhook(h) \/ Fail(h) PROVE IInv'
  BY <1>1, Works, Declines, Inserts, Records, Answers DEF Webhook
<1>2. ASSUME NEW h \in Handlers, NEW e \in Events, Deliver(h, e) \/ DeliverAgain(h, e) PROVE IInv'
  BY <1>2, Delivered
<1>3. ASSUME NEW e \in Events, Prune(e) PROVE IInv'  BY <1>3, Prunes
<1>7. ASSUME View PROVE IInv'
  <2>1. UNCHANGED stripe  BY <1>7 DEF View
  <2>2. TypeOK'  BY <1>7, AmountsNat DEF View, IInv, TypeOK, stripe
  <2>. QED  BY <2>1, <2>2, Elsewhere DEF IInv
<1>4. ASSUME NEW t \in Tasks, Reserve(t) \/ Consume(t) \/ RecordConsumption(t) \/ Release(t)
      PROVE  IInv'
  BY <1>4, Settles
<1>5. ASSUME NEW j \in Jobs, Reconcile(j) PROVE IInv'  BY <1>5, Reconciles
<1>6. CASE UNCHANGED vars
  <2>1. UNCHANGED stripe  BY <1>6 DEF vars
  <2>2. TypeOK'  BY <1>6 DEF IInv, TypeOK, vars, sums, stripe
  <2>. QED  BY <2>1, <2>2, Elsewhere DEF IInv
<1>. QED  BY <1>1, <1>2, <1>3, <1>4, <1>5, <1>6, <1>7 DEF Next

-----------------------------------------------------------------------------
LEMMA Invariant == Spec => []IInv
<1>. QED  BY Starting, Inductive, PTL DEF Spec

\* Every reachable state is well typed, and no reconciliation runs before
\* there is a balance row.
THEOREM TypeCorrect == Spec => []TypeOK
<1>1. IInv => TypeOK  BY DEF IInv
<1>. QED  BY <1>1, Invariant, PTL

\* A payment the webhook answered with a 200 has a row in the ledger, after
\* any number of failures, overlaps, duplicates and pruned records, unless a
\* handler found nothing to grant for it and returned.
THEOREM AlwaysGranted == Spec => []AcknowledgedIsGranted
<1>1. IInv => AcknowledgedIsGranted  BY DEF IInv, Written, Dealt, AcknowledgedIsGranted
<1>. QED  BY <1>1, Invariant, PTL

\* A payment none of whose deliveries failed or overlapped, and whose record
\* was kept, is granted once at most, however often Stripe sends it.
THEOREM GrantsOnce == Spec => []GrantedOnce
<1>1. IInv => GrantedOnce  BY DEF IInv, Single, GrantedOnce
<1>. QED  BY <1>1, Invariant, PTL


-----------------------------------------------------------------------------
(* A balance that agrees with the ledger                                   *)

\* The balance is the sum of the ledger, nobody is between the two updates of
\* a grant or a charge, and no reconciliation holds a sum that has changed.
Squared ==
  /\ row /\ balance = ledger
  /\ \A h \in Handlers : handler[h].pc # "insert"
  /\ \A t \in Tasks : task[t].pc # "deducted"
  /\ \A j \in Jobs : job[j].pc = "correct" => job[j].read = ledger

\* Only a new grant, a new charge or a release takes such a balance away from
\* the ledger: no reconciliation does, however many run at once and whatever
\* balance they read before, and no failed or repeated delivery.
StaysSquared ==
  Squared => \/ Squared'
             \/ \E h \in Handlers : AddToBalance(h)
             \/ \E t \in Tasks : Consume(t) \/ Release(t)

\* The safety half of Converges, for any number of jobs, handlers and tasks.
THEOREM OnceSquared == Spec => [][StaysSquared]_vars
<1>1. ASSUME TypeOK, Squared, Next PROVE StaysSquared
  <2>. SUFFICES ASSUME \A h \in Handlers : ~ AddToBalance(h),
                       \A t \in Tasks : ~ Consume(t) /\ ~ Release(t)
                PROVE  Squared'
    BY DEF StaysSquared
  <2>. USE <1>1 DEF Squared, sums, stripe
  <2>1. ASSUME NEW h \in Handlers, Webhook(h) PROVE Squared'
    <3>1. UNCHANGED <<row, balance, ledger, task, job>>
      BY <2>1 DEF Webhook, Lookup, Decline, EnsureRow, AddToBalance, InsertRow, Record, Respond, At
    <3>2. handler'[h].pc # "insert" /\ \A g \in Handlers \ {h} : handler'[g] = handler[g]
      <4>1. \E k : handler' = [handler EXCEPT ![h] = k] /\ k.pc # "insert"
        <5>1. CASE Respond(h)
          <6>1. Free.pc # "insert"  BY DEF Free
          <6>2. handler' = [handler EXCEPT ![h] = Free]  BY <5>1 DEF Respond
          <6>. QED  BY <6>1, <6>2
        <5>2. ASSUME NEW from, NEW to, At(h, from, to), to # "insert"
              PROVE  \E k : handler' = [handler EXCEPT ![h] = k] /\ k.pc # "insert"
          <6>1. handler' = [handler EXCEPT ![h] = [handler[h] EXCEPT !.pc = to]]
            BY <5>2 DEF At
          <6>2. handler[h] = [pc |-> handler[h].pc, event |-> handler[h].event]
            BY AtWork
          <6>3. [handler[h] EXCEPT !.pc = to] = [pc |-> to, event |-> handler[h].event]
            BY <6>2
          <6>4. [handler[h] EXCEPT !.pc = to].pc # "insert"  BY <5>2, <6>3
          <6>. QED  BY <6>1, <6>4
        <5>. QED  BY <2>1, <5>1, <5>2 DEF Webhook, Lookup, Decline, EnsureRow, InsertRow, Record
      <4>. QED  BY <4>1 DEF TypeOK
    <3>. QED  BY <3>1, <3>2
  <2>2. ASSUME NEW h \in Handlers, Fail(h) PROVE Squared'
    BY <2>2 DEF Fail, Free, TypeOK
  <2>3. ASSUME NEW h \in Handlers, NEW e \in Events, Deliver(h, e) \/ DeliverAgain(h, e)
        PROVE  Squared'
    <3>. DEFINE k == [pc |-> "lookup", event |-> e]
    <3>1. k.pc # "insert"  OBVIOUS
    <3>2. handler' = [handler EXCEPT ![h] = k]  BY <2>3 DEF Deliver, DeliverAgain, Starts
    <3>3. UNCHANGED <<row, balance, ledger, task, job>>  BY <2>3 DEF Deliver, DeliverAgain
    <3>. HIDE DEF k
    <3>4. \A g \in Handlers : handler'[g].pc # "insert"  BY <3>1, <3>2 DEF TypeOK
    <3>. QED  BY <3>3, <3>4
  <2>4. ASSUME NEW e \in Events, Prune(e) PROVE Squared'
    BY <2>4 DEF Prune
  <2>5. ASSUME NEW t \in Tasks, Reserve(t) \/ RecordConsumption(t) PROVE Squared'
    <3>1. Reserve(t)  BY <2>5 DEF RecordConsumption
    <3>2. task[t] = [pc |-> task[t].pc, charge |-> task[t].charge]  BY DEF TypeOK
    <3>. DEFINE k == [task[t] EXCEPT !.pc = "reserved"]
    <3>3. k.pc # "deducted"  BY <3>2
    <3>4. task' = [task EXCEPT ![t] = k]  BY <3>1 DEF Reserve
    <3>. HIDE DEF k
    <3>5. \A u \in Tasks : task'[u].pc # "deducted"  BY <3>3, <3>4 DEF TypeOK
    <3>. QED  BY <3>1, <3>5 DEF Reserve
  <2>6. ASSUME NEW j \in Jobs, ReadBalance(j) PROVE Squared'
    BY <2>6 DEF ReadBalance, TypeOK
  <2>7. ASSUME NEW j \in Jobs, ReadSum(j) PROVE Squared'
    BY <2>7 DEF ReadSum, Asleep, TypeOK
  <2>8. ASSUME NEW j \in Jobs, Correct(j) PROVE Squared'
    BY <2>8 DEF Correct, Asleep, TypeOK
  <2>9. ~ View
    BY DEF View
  <2>. QED  BY <2>1, <2>2, <2>3, <2>4, <2>5, <2>6, <2>7, <2>8, <2>9 DEF Next, Reconcile
<1>2. TypeOK /\ [Next]_vars => [StaysSquared]_vars
  BY <1>1 DEF StaysSquared
<1>. QED  BY <1>2, TypeCorrect, PTL DEF Spec

=============================================================================
