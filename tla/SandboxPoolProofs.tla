--------------------------- MODULE SandboxPoolProofs ---------------------------
(***************************************************************************)
(* Theorems about SandboxPool for every pool size, number of clients and   *)
(* of the provider's lapses: types, no leak but a lapse, what a client may *)
(* rely on though no session names it, and a warm pool refilled in time    *)
(* but for failures and evictExcess().                                     *)
(***************************************************************************)
EXTENDS MCSandboxPool, FiniteSetTheorems, TLAPS

-----------------------------------------------------------------------------
(* Types.  Shape leaves to NoLeak what relates pool, live and running.     *)

Statuses == {"ready", "busy", "stopping"}
Owners == Clients \cup {Nobody}

Shape ==
  /\ running \subseteq Sandboxes /\ lapses \in Nat /\ timer \subseteq Sandboxes
  /\ status \in [Sandboxes -> Statuses]
  /\ project \in [Sandboxes -> Owners]
  /\ client \in [Clients -> ClientStates]
  /\ warming \in Nat
  /\ evicting \subseteq [now : Sandboxes, rest : SUBSET Sandboxes]
  /\ \A x \in DOMAIN dying : dying[x] \in BOOLEAN

LEMMA ShapeOfTypes == ASSUME NoLeak, Shape PROVE TypeOK
BY DEF NoLeak, Shape, TypeOK, Statuses, Owners

LEMMA Known ==
  ASSUME NoLeak, Shape
  PROVE  pool \subseteq Sandboxes /\ live \subseteq Sandboxes /\ Idle \subseteq pool
BY DEF Idle, NoLeak, Shape

\* replenishPool() creates a number of sandboxes.
LEMMA Replenishes ==
  ASSUME NoLeak, Shape, NEW S \in SUBSET Sandboxes, Replenish(Cardinality(pool), Cardinality(S))
  PROVE  warming' \in Nat
<1>1. Cardinality(pool) \in Nat /\ Cardinality(S) \in Nat
  BY Known, SandboxesFinite, FS_Subset, FS_CardinalityType
<1> QED BY <1>1, SizesNat DEF Replenish, Deficit, Shape

LEMMA KillShape ==
  ASSUME Shape, NEW x \in Sandboxes, NEW r \in BOOLEAN, NEW st \in [Sandboxes -> Statuses],
         Kill(x, r, st)
  PROVE  /\ status' \in [Sandboxes -> Statuses] /\ project' \in [Sandboxes -> Owners]
         /\ \A y \in DOMAIN dying' : dying'[y] \in BOOLEAN
BY DEF Shape, Kill, Statuses, Owners

LEMMA SpareShape ==
  ASSUME Shape, Spare
  PROVE  /\ status' \in [Sandboxes -> Statuses] /\ project' \in [Sandboxes -> Owners]
         /\ \A y \in DOMAIN dying' : dying'[y] \in BOOLEAN
BY DEF Shape, Spare

LEMMA MovesShape ==
  ASSUME Shape, NEW c \in Clients, NEW pc, NEW x, [pc |-> pc, sandbox |-> x] \in ClientStates,
         Moves(c, pc, x)
  PROVE  client' \in [Clients -> ClientStates]
BY DEF Shape, Moves

LEMMA States ==
  /\ [pc |-> "away", sandbox |-> Nobody] \in ClientStates
  /\ [pc |-> "creating", sandbox |-> Nobody] \in ClientStates
  /\ \A x \in Sandboxes : [pc |-> "using", sandbox |-> x] \in ClientStates
                            /\ [pc |-> "executing", sandbox |-> x] \in ClientStates
BY DEF ClientStates, Away

LEMMA UsesOne ==
  ASSUME Shape, NEW c \in Clients
  PROVE  /\ client[c].sandbox \in Sandboxes \cup {Nobody}
         /\ client[c].pc \in {"using", "executing"} <=> client[c].sandbox \in Sandboxes
BY NobodyIsNone DEF Shape, ClientStates, Away, Nobody

\* A created sandbox, and one whose creation failed.
LEMMA RegisterShape ==
  ASSUME Shape, NEW x \in Fresh, NEW o \in Owners, Register(x, o)
  PROVE  /\ running' \subseteq Sandboxes /\ lapses' \in Nat /\ timer' = timer
         /\ status' \in [Sandboxes -> Statuses] /\ project' \in [Sandboxes -> Owners]
BY DEF Shape, Register, Fresh, Statuses

LEMMA FailedShape ==
  ASSUME Shape, Failed
  PROVE  /\ running' \subseteq Sandboxes /\ lapses' \in Nat
         /\ UNCHANGED <<status, project, timer>>
BY DEF Shape, Failed, Lapse, provider, Fresh, entry

\* A client's step.
LEMMA ClientShape ==
  ASSUME NoLeak, Shape, NEW c \in Clients,
         \/ Acquire(c) \/ AcquireNew(c) \/ Created(c) \/ ExecStart(c) \/ ExecEnd(c)
         \/ Release(c) \/ ReleaseUnknown(c) \/ Destroy(c)
  PROVE  Shape'
<1>1. CASE Acquire(c)
  <2>1. PICK x \in Idle : MarkAcquired(c, x, Cardinality(Idle \ {x}))
    BY <1>1 DEF Acquire, Offered
  <2>2. x \in Sandboxes /\ Idle \ {x} \in SUBSET Sandboxes
    BY Known
  <2>3. warming' \in Nat
    BY <2>1, <2>2, Replenishes DEF MarkAcquired
  <2>4. client' \in [Clients -> ClientStates]
    BY <2>1, <2>2, MovesShape, States DEF MarkAcquired
  <2> QED BY <2>1, <2>2, <2>3, <2>4 DEF MarkAcquired, Shape, provider, Statuses, Owners
<1>2. CASE AcquireNew(c)
  <2>1. client' \in [Clients -> ClientStates]
    BY <1>2, MovesShape, States DEF AcquireNew
  <2> QED BY <1>2, <2>1 DEF AcquireNew, Shape, entry, provider
<1>3. CASE Created(c)
  <2>1. ASSUME NEW x \in Fresh, Register(x, c), Moves(c, "using", x) PROVE Shape'
    <3>1. x \in Sandboxes /\ c \in Owners
      BY DEF Fresh, Owners
    <3>2. client' \in [Clients -> ClientStates]
      BY <2>1, <3>1, MovesShape, States
    <3> QED BY <1>3, <2>1, <3>1, <3>2, RegisterShape DEF Created, Shape
  <2>2. ASSUME Failed, Moves(c, "away", Nobody) PROVE Shape'
    <3>1. client' \in [Clients -> ClientStates]
      BY <2>2, MovesShape, States
    <3> QED BY <1>3, <2>2, <3>1, FailedShape DEF Created, Shape
  <2> QED BY <1>3, <2>1, <2>2 DEF Created
<1>4. CASE ExecStart(c) \/ ExecEnd(c)
  <2>1. client[c].sandbox \in Sandboxes
    BY <1>4, UsesOne DEF ExecStart, ExecEnd
  <2>2. client' \in [Clients -> ClientStates]
    BY <1>4, <2>1, MovesShape, States DEF ExecStart, ExecEnd
  <2> QED BY <1>4, <2>1, <2>2 DEF ExecStart, ExecEnd, Shape, entry, provider, Statuses
<1>5. CASE Release(c)
  <2> DEFINE x == client[c].sandbox
             idle == Idle \cup {x}
             st == [status EXCEPT ![x] = "ready"]
  <2>1. x \in Sandboxes /\ idle \subseteq Sandboxes
    BY <1>5, UsesOne, Known DEF Release
  <2>2. client' \in [Clients -> ClientStates]
    BY <1>5, MovesShape, States DEF Release
  <2>3. st \in [Sandboxes -> Statuses]
    BY <2>1 DEF Shape, Statuses
  <2>4. CASE Cardinality(idle) > WarmPoolSize + 2
    <3>1. PICK chosen \in SUBSET idle : \E first \in chosen :
            /\ Kill(first, FALSE, st)
            /\ evicting' = evicting \cup {[now |-> first, rest |-> chosen \ {first}]}
            /\ timer' = (timer \cup {x}) \ {first}
      BY <1>5, <2>4 DEF Release
    <3>2. PICK first \in chosen :
            /\ Kill(first, FALSE, st)
            /\ evicting' = evicting \cup {[now |-> first, rest |-> chosen \ {first}]}
            /\ timer' = (timer \cup {x}) \ {first}
      BY <3>1
    <3>3. first \in Sandboxes /\ chosen \subseteq Sandboxes
      BY <2>1, <3>1, <3>2
    <3>4. /\ status' \in [Sandboxes -> Statuses] /\ project' \in [Sandboxes -> Owners]
          /\ \A y \in DOMAIN dying' : dying'[y] \in BOOLEAN
      BY <2>3, <3>2, <3>3, KillShape
    <3>5. evicting' \subseteq [now : Sandboxes, rest : SUBSET Sandboxes]
      BY <3>2, <3>3 DEF Shape
    <3> HIDE DEF st, idle
    <3> QED BY <1>5, <2>1, <2>2, <3>2, <3>4, <3>5 DEF Release, Shape, provider
  <2>5. CASE ~ (Cardinality(idle) > WarmPoolSize + 2)
    <3>1. timer' = timer \cup {x} /\ status' = st /\ UNCHANGED <<project, evicting, dying>>
      BY <1>5, <2>5 DEF Release
    <3> QED BY <1>5, <2>1, <2>2, <2>3, <3>1 DEF Release, Shape, provider
  <2> QED BY <2>4, <2>5
<1>6. CASE ReleaseUnknown(c)
  <2>1. client[c].sandbox \in Sandboxes
    BY <1>6, UsesOne DEF ReleaseUnknown
  <2>2. client' \in [Clients -> ClientStates]
    BY <1>6, MovesShape, States DEF ReleaseUnknown
  <2>3. /\ status' \in [Sandboxes -> Statuses] /\ project' \in [Sandboxes -> Owners]
        /\ \A y \in DOMAIN dying' : dying'[y] \in BOOLEAN
    BY <1>6, <2>1, KillShape, SpareShape DEF ReleaseUnknown, Shape
  <2> QED BY <1>6, <2>2, <2>3 DEF ReleaseUnknown, Shape, provider
<1>7. CASE Destroy(c)
  <2>1. client[c].sandbox \in Sandboxes
    BY <1>7, UsesOne DEF Destroy
  <2>2. client' \in [Clients -> ClientStates]
    BY <1>7, MovesShape, States DEF Destroy
  <2>3. /\ status' \in [Sandboxes -> Statuses] /\ project' \in [Sandboxes -> Owners]
        /\ \A y \in DOMAIN dying' : dying'[y] \in BOOLEAN
    BY <1>7, <2>1, KillShape, SpareShape DEF Destroy, Shape
  <2>4. warming' \in Nat
    BY <1>7, Replenishes, Known DEF Destroy, Shape
  <2> QED BY <1>7, <2>2, <2>3, <2>4 DEF Destroy, Shape, provider
<1> QED BY <1>1, <1>2, <1>3, <1>4, <1>5, <1>6, <1>7

\* A step of the pool's own.
LEMMA PoolShape ==
  ASSUME NoLeak, Shape,
         \/ Warmed
         \/ \E x \in Sandboxes : TimerFires(x) \/ Cleanup(x) \/ Destroyed(x)
         \/ \E e \in evicting : EvictExcess(e) \/ EvictExcessEnds(e)
  PROVE  Shape'
<1>1. CASE Warmed
  <2>1. ASSUME NEW x \in Fresh, Register(x, Nobody) PROVE Shape'
    BY <1>1, <2>1, RegisterShape DEF Warmed, Shape, Owners
  <2>2. ASSUME Failed PROVE Shape'
    BY <1>1, <2>2, FailedShape DEF Warmed, Shape
  <2> QED BY <1>1, <2>1, <2>2 DEF Warmed
<1>2. ASSUME NEW x \in Sandboxes, TimerFires(x) \/ Cleanup(x) PROVE Shape'
  <2>1. /\ status' \in [Sandboxes -> Statuses] /\ project' \in [Sandboxes -> Owners]
        /\ \A y \in DOMAIN dying' : dying'[y] \in BOOLEAN
    BY <1>2, KillShape, SpareShape DEF TimerFires, Cleanup, Shape
  <2> QED BY <1>2, <2>1 DEF TimerFires, Cleanup, Shape, provider
<1>3. ASSUME NEW x \in Sandboxes, Destroyed(x) PROVE Shape'
  <2>1. warming' \in Nat
    BY <1>3, Replenishes, Known DEF Destroyed, Shape
  <2>2. running' \subseteq Sandboxes /\ lapses' \in Nat
    BY <1>3 DEF Destroyed, Lapse, Shape
  <2>3. status' \in [Sandboxes -> Statuses]
    BY <1>3 DEF Destroyed, Shape, Statuses
  <2> QED BY <1>3, <2>1, <2>2, <2>3 DEF Destroyed, Shape, entry
<1>4. ASSUME NEW e \in evicting, EvictExcess(e) PROVE Shape'
  <2>1. PICK x \in e.rest :
          /\ evicting' = (evicting \ {e}) \cup {[now |-> x, rest |-> e.rest \ {x}]}
          /\ timer' = timer \ {x}
          /\ IF x \in live THEN Kill(x, FALSE, status) ELSE Spare
    BY <1>4 DEF EvictExcess
  <2>2. x \in Sandboxes /\ e.rest \subseteq Sandboxes
    BY <2>1 DEF Shape
  <2>3. /\ status' \in [Sandboxes -> Statuses] /\ project' \in [Sandboxes -> Owners]
        /\ \A y \in DOMAIN dying' : dying'[y] \in BOOLEAN
    BY <2>1, <2>2, KillShape, SpareShape DEF Shape
  <2>4. evicting' \subseteq [now : Sandboxes, rest : SUBSET Sandboxes]
    BY <2>1, <2>2 DEF Shape
  <2> QED BY <1>4, <2>1, <2>3, <2>4 DEF EvictExcess, Shape, provider
<1>5. ASSUME NEW e \in evicting, EvictExcessEnds(e) PROVE Shape'
  BY <1>5 DEF EvictExcessEnds, Shape, entry, provider
<1> QED BY <1>1, <1>2, <1>3, <1>4, <1>5

LEMMA ShapeStep == ASSUME NoLeak, Shape, [Next]_vars PROVE Shape'
<1>1. CASE UNCHANGED vars
  BY <1>1 DEF vars, entry, provider, Shape
<1>2. CASE Next
  BY <1>2, ClientShape, PoolShape DEF Next
<1> QED BY <1>1, <1>2

-----------------------------------------------------------------------------
(* Leaks                                                                   *)

Split == live = pool \cup DOMAIN dying /\ pool \cap DOMAIN dying = {}
Counted == live \subseteq running /\ Cardinality(running \ live) <= lapses

\* The pool's own changes keep the live containers split between the pool
\* and destruction.
LEMMA SplitStep == ASSUME NoLeak, [Next]_vars PROVE Split'
<1>1. ASSUME NEW x \in live, NEW r, NEW st, Kill(x, r, st), live' = live PROVE Split'
  BY <1>1 DEF Kill, NoLeak, Split
<1>2. ASSUME Spare, live' = live PROVE Split'
  BY <1>2 DEF Spare, NoLeak, Split
<1>3. ASSUME UNCHANGED <<pool, live, dying>> PROVE Split'
  BY <1>3 DEF NoLeak, Split
<1>4. ASSUME NEW x \in Fresh, NEW o, Register(x, o), dying' = dying PROVE Split'
  BY <1>4 DEF Register, Fresh, NoLeak, Split
<1>5. ASSUME NEW c \in Clients, Acquire(c) PROVE Split'
  BY <1>5, <1>3 DEF Acquire, MarkAcquired
<1>6. ASSUME NEW c \in Clients, AcquireNew(c) PROVE Split'
  BY <1>6, <1>3 DEF AcquireNew
<1>7. ASSUME NEW c \in Clients, Created(c) PROVE Split'
  BY <1>7, <1>3, <1>4 DEF Created, Failed
<1>8. ASSUME NEW c \in Clients, ExecStart(c) \/ ExecEnd(c) PROVE Split'
  BY <1>8, <1>3 DEF ExecStart, ExecEnd
<1>9. ASSUME NEW c \in Clients, Release(c) PROVE Split'
  <2> DEFINE x == client[c].sandbox
             idle == Idle \cup {x}
             st == [status EXCEPT ![x] = "ready"]
  <2>1. x \in pool /\ live' = live /\ idle \subseteq live
    BY <1>9 DEF Release, Idle, NoLeak
  <2>2. CASE Cardinality(idle) > WarmPoolSize + 2
    <3>1. PICK first \in idle : Kill(first, FALSE, st)
      BY <1>9, <2>2 DEF Release
    <3> QED BY <3>1, <2>1, <1>1
  <2>3. CASE ~ (Cardinality(idle) > WarmPoolSize + 2)
    BY <1>9, <2>3, <1>3 DEF Release
  <2> QED BY <2>2, <2>3
<1>10. ASSUME NEW c \in Clients, ReleaseUnknown(c) PROVE Split'
  BY <1>10, <1>1, <1>2 DEF ReleaseUnknown
<1>11. ASSUME NEW c \in Clients, Destroy(c) PROVE Split'
  BY <1>11, <1>1, <1>2 DEF Destroy
<1>12. ASSUME Warmed PROVE Split'
  BY <1>12, <1>3, <1>4 DEF Warmed, Failed
<1>13. ASSUME NEW x \in Sandboxes, TimerFires(x) PROVE Split'
  <2>1. x \in pool => x \in live
    BY DEF NoLeak
  <2> QED BY <2>1, <1>13, <1>1, <1>2 DEF TimerFires
<1>14. ASSUME NEW x \in Sandboxes, Cleanup(x) PROVE Split'
  <2>1. x \in live
    BY <1>14 DEF Cleanup, Idle, NoLeak
  <2> QED BY <2>1, <1>14, <1>1 DEF Cleanup
<1>15. ASSUME NEW x \in Sandboxes, Destroyed(x) PROVE Split'
  BY <1>15 DEF Destroyed, NoLeak, Split
<1>16. ASSUME NEW e \in evicting, EvictExcess(e) PROVE Split'
  BY <1>16, <1>1, <1>2 DEF EvictExcess
<1>17. ASSUME NEW e \in evicting, EvictExcessEnds(e) PROVE Split'
  BY <1>17, <1>3 DEF EvictExcessEnds
<1>18. CASE UNCHANGED vars
  BY <1>18, <1>3 DEF vars
<1> QED
  BY <1>5, <1>6, <1>7, <1>8, <1>9, <1>10, <1>11, <1>12, <1>13, <1>14, <1>15, <1>16, <1>17,
     <1>18 DEF Next

\* A container more that nobody knows is a lapse more.
LEMMA Lapses ==
  ASSUME NoLeak, Shape, Lapse, NEW x \in Sandboxes, live' \subseteq running',
         running' \ live' = (running \ live) \cup {x}
  PROVE  Counted'
<1>1. running \ live \in SUBSET Sandboxes
  BY DEF Shape
<1>2. IsFiniteSet(running \ live) /\ Cardinality(running \ live) \in Nat
  BY <1>1, SandboxesFinite, FS_Subset, FS_CardinalityType
<1>3. Cardinality((running \ live) \cup {x}) \in {Cardinality(running \ live), Cardinality(running \ live) + 1}
  BY <1>2, FS_AddElement
<1>4. Cardinality(running' \ live') <= Cardinality(running \ live) + 1
  BY <1>2, <1>3
<1>5. Cardinality(running' \ live') \in Nat
  BY <1>2, <1>3
<1> QED BY <1>2, <1>4, <1>5 DEF Counted, NoLeak, Lapse, Shape

\* What the pool's own changes leave alone the provider's do not.
LEMMA CountedStep == ASSUME NoLeak, Shape, [Next]_vars PROVE Counted'
<1>1. ASSUME UNCHANGED <<live, provider>> PROVE Counted'
  BY <1>1 DEF Counted, NoLeak, provider
<1>2. ASSUME NEW x \in Fresh, NEW o, Register(x, o) PROVE Counted'
  <2>1. running' \ live' = running \ live /\ lapses' = lapses /\ live' \subseteq running'
    BY <1>2 DEF Register, Fresh, NoLeak
  <2> QED BY <2>1 DEF Counted, NoLeak
<1>3. ASSUME Failed PROVE Counted'
  <2>1. CASE UNCHANGED provider
    BY <1>1, <1>3, <2>1 DEF Failed
  <2>2. ASSUME Lapse, NEW x \in Fresh, running' = running \cup {x} PROVE Counted'
    <3>1. /\ x \in Sandboxes /\ live' = live /\ live' \subseteq running'
          /\ running' \ live' = (running \ live) \cup {x}
      BY <1>3, <2>2 DEF Failed, Fresh, NoLeak
    <3> QED BY <2>2, <3>1, Lapses
  <2> QED BY <1>3, <2>1, <2>2 DEF Failed
<1>4. ASSUME NEW x \in Sandboxes, Destroyed(x) PROVE Counted'
  <2>1. live' = live \ {x} /\ x \in live
    BY <1>4 DEF Destroyed, NoLeak
  <2>2. ASSUME running' = running \ {x}, lapses' = lapses PROVE Counted'
    <3>1. running' \ live' = running \ live /\ live' \subseteq running'
      BY <2>1, <2>2 DEF NoLeak
    <3> QED BY <2>2, <3>1 DEF Counted, NoLeak
  <2>3. ASSUME Lapse, running' = running PROVE Counted'
    <3>1. running' \ live' = (running \ live) \cup {x} /\ live' \subseteq running'
      BY <2>1, <2>3 DEF NoLeak
    <3> QED BY <2>3, <3>1, Lapses
  <2> QED BY <1>4, <2>2, <2>3 DEF Destroyed
<1>5. ASSUME NEW c \in Clients, Created(c) PROVE Counted'
  BY <1>5, <1>2, <1>3 DEF Created
<1>6. ASSUME Warmed PROVE Counted'
  BY <1>6, <1>2, <1>3 DEF Warmed
<1>7. ASSUME NEW c \in Clients,
             Acquire(c) \/ AcquireNew(c) \/ ExecStart(c) \/ ExecEnd(c)
      PROVE Counted'
  BY <1>7, <1>1 DEF Acquire, MarkAcquired, AcquireNew, ExecStart, ExecEnd
<1>8. ASSUME NEW c \in Clients, Release(c) \/ ReleaseUnknown(c) \/ Destroy(c) PROVE Counted'
  BY <1>8, <1>1 DEF Release, ReleaseUnknown, Destroy
<1>9. ASSUME NEW x \in Sandboxes, TimerFires(x) \/ Cleanup(x) PROVE Counted'
  BY <1>9, <1>1 DEF TimerFires, Cleanup
<1>10. ASSUME NEW e \in evicting, EvictExcess(e) \/ EvictExcessEnds(e) PROVE Counted'
  BY <1>10, <1>1 DEF EvictExcess, EvictExcessEnds
<1>11. CASE UNCHANGED vars
  BY <1>11, <1>1 DEF vars
<1> QED BY <1>4, <1>5, <1>6, <1>7, <1>8, <1>9, <1>10, <1>11 DEF Next

LEMMA Start == Init => NoLeak /\ Shape
<1>1. ASSUME Init PROVE NoLeak
  <2>1. running \ live = {}
    BY <1>1 DEF Init
  <2> QED BY <1>1, <2>1, FS_EmptySet DEF Init, NoLeak
<1>2. ASSUME Init PROVE Shape
  BY <1>2, SizesNat DEF Init, Shape, ClientStates, Statuses, Owners
<1> QED BY <1>1, <1>2

LEMMA Step == NoLeak /\ Shape /\ [Next]_vars => NoLeak' /\ Shape'
<1>1. ASSUME NoLeak, Shape, [Next]_vars PROVE NoLeak' /\ Shape'
  <2>1. Split' /\ Counted'
    BY <1>1, SplitStep, CountedStep
  <2> QED BY <1>1, <2>1, ShapeStep DEF Split, Counted, NoLeak
<1> QED BY <1>1

\* No container is lost but by the provider's own lapse: the pool knows it,
\* or its destruction is under way, or one failure of the provider accounts
\* for it, whatever handlers, timers and evictions interleave.
THEOREM NeverLeaks == Spec => []NoLeak
BY Start, Step, PTL DEF Spec

\* Every variable keeps its type.
THEOREM TypeCorrect == Spec => []TypeOK
<1>1. NoLeak /\ Shape => TypeOK
  BY ShapeOfTypes
<1> QED BY <1>1, Start, Step, PTL DEF Spec

-----------------------------------------------------------------------------
(* What a client may rely on.  No session tells the pool that a sandbox is *)
(* in use: what keeps it is its status, while a command runs in it or none *)
(* has run yet, and that its timer was cleared when it was handed out.     *)
(* Both last as long as nobody else uses the sandbox: whoever releases it  *)
(* starts the timer anew and sets the status.                              *)

\* Two users of a sandbox make it a shared one.
Noticed ==
  \A c, d \in Clients :
    c # d /\ client[c].sandbox = client[d].sandbox /\ client[c].sandbox \in Sandboxes
      => client[c].sandbox \in shared

Guarded ==
  \A c \in Clients :
    client[c].sandbox \in pool \ shared
      => /\ client[c].sandbox \notin timer
         /\ client[c].pc = "executing" => status[client[c].sandbox] = "busy"

UInv == NoLeak /\ Shape /\ Noticed /\ Guarded

\* The client that moves, and the others.
LEMMA Moved ==
  ASSUME Shape, NEW c \in Clients, NEW pc, NEW x, Moves(c, pc, x)
  PROVE  /\ client'[c] = [pc |-> pc, sandbox |-> x]
         /\ client'[c].pc = pc /\ client'[c].sandbox = x
         /\ \A d \in Clients \ {c} : client'[d] = client[d]
<1>1. client'[c] = [pc |-> pc, sandbox |-> x] /\ \A d \in Clients \ {c} : client'[d] = client[d]
  BY DEF Shape, Moves
<1> QED BY <1>1

LEMMA MovedTo ==
  ASSUME Shape, NEW c \in Clients, NEW pc, NEW x, Moves(c, pc, x)
  PROVE  client'[c].sandbox = x
<1>1. client'[c] = [pc |-> pc, sandbox |-> x]
  BY DEF Shape, Moves
<1> QED BY <1>1

\* A client takes an idle sandbox, whose timer is cleared, or a new one.
LEMMA Takes ==
  ASSUME NoLeak, Shape, [Next]_vars, NEW c \in Clients, NEW x \in Sandboxes,
         client'[c].sandbox = x, client[c].sandbox # x
  PROVE  client'[c].pc = "using" /\ x \notin timer' /\ x \in Idle \cup Fresh
<1> DEFINE Goal == client'[c].pc = "using" /\ x \notin timer' /\ x \in Idle \cup Fresh
<1>0. Nobody # x
  BY NobodyIsNone DEF Nobody
<1>1. ASSUME NEW d \in Clients, NEW pc, NEW y, Moves(d, pc, y), y \in {Nobody, client[d].sandbox}
      PROVE FALSE
  BY <1>0, <1>1, Moved
<1>2. ASSUME NEW d \in Clients, Acquire(d) PROVE Goal
  <2>1. PICK y \in Idle : MarkAcquired(d, y, Cardinality(Idle \ {y}))
    BY <1>2 DEF Acquire, Offered
  <2>2. Moves(d, "using", y) /\ y \notin timer'
    BY <2>1 DEF MarkAcquired
  <2>3. client'[d].pc = "using" /\ client'[d].sandbox = y /\ (d # c => client'[c] = client[c])
    BY <2>2, Moved
  <2>4. d = c
    BY <2>3
  <2> QED BY <2>1, <2>2, <2>3, <2>4
<1>3. ASSUME NEW d \in Clients, Created(d) PROVE Goal
  <2>1. CASE Moves(d, "away", Nobody)
    BY <1>1, <2>1
  <2>2. ASSUME NEW y \in Fresh, Register(y, d), Moves(d, "using", y) PROVE Goal
    <3>1. y \notin timer'
      BY <2>2 DEF Register, Fresh
    <3>2. client'[d].pc = "using" /\ client'[d].sandbox = y /\ (d # c => client'[c] = client[c])
      BY <2>2, Moved
    <3>3. d = c
      BY <3>2
    <3> QED BY <2>2, <3>1, <3>2, <3>3
  <2> QED BY <1>3, <2>1, <2>2 DEF Created
<1>4. ASSUME NEW d \in Clients, AcquireNew(d) \/ ExecStart(d) \/ ExecEnd(d) PROVE FALSE
  BY <1>1, <1>4 DEF AcquireNew, ExecStart, ExecEnd
<1>5. ASSUME NEW d \in Clients, Release(d) \/ ReleaseUnknown(d) \/ Destroy(d) PROVE FALSE
  BY <1>1, <1>5 DEF Release, ReleaseUnknown, Destroy
<1>6. client' # client
  OBVIOUS
<1>7. ~ (UNCHANGED vars)
  BY <1>6 DEF vars
<1>8. ~ Warmed /\ \A y \in Sandboxes : ~ TimerFires(y) /\ ~ Cleanup(y) /\ ~ Destroyed(y)
  BY <1>6 DEF Warmed, TimerFires, Cleanup, Destroyed
<1>9. \A e \in evicting : ~ EvictExcess(e) /\ ~ EvictExcessEnds(e)
  BY <1>6 DEF EvictExcess, EvictExcessEnds
<1> QED BY <1>2, <1>3, <1>4, <1>5, <1>7, <1>8, <1>9 DEF Next

\* Nothing but its only user's own commands changes the status or starts the
\* timer of a sandbox that stays in the pool.
LEMMA Untouched ==
  ASSUME NoLeak, Shape, [Next]_vars, NEW c \in Clients, NEW x \in Sandboxes,
         x \in pool', client[c].sandbox = x, client'[c].sandbox = x,
         \A d \in Clients \ {c} : client[d].sandbox # x
  PROVE  /\ x \in pool
         /\ x \in timer' => x \in timer
         /\ \/ status'[x] = "busy" \/ client'[c].pc # "executing"
            \/ status'[x] = status[x] /\ client'[c] = client[c]
<1> DEFINE Same == status'[x] = status[x] /\ client'[c] = client[c]
           Goal == /\ x \in pool
                   /\ x \in timer' => x \in timer
                   /\ status'[x] = "busy" \/ client'[c].pc # "executing" \/ Same
<1>0. Nobody # x /\ x \notin Fresh
  BY NobodyIsNone DEF Nobody, Fresh
<1>1. ASSUME NEW y, NEW r, NEW st \in [Sandboxes -> Statuses], Kill(y, r, st), st[x] = status[x]
      PROVE  x \in pool /\ status'[x] = status[x]
  BY <1>1 DEF Kill
<1>2. ASSUME Spare PROVE x \in pool /\ status'[x] = status[x]
  BY <1>2 DEF Spare
<1>3. status \in [Sandboxes -> Statuses]
  BY DEF Shape
\* The client that leaves is another, and so is its sandbox.
<1>4. ASSUME NEW d \in Clients, NEW pc, Moves(d, pc, Nobody)
      PROVE  d # c /\ client'[c] = client[c] /\ client[d].sandbox # x
  <2>1. client'[d].sandbox = Nobody
    BY <1>4, MovedTo
  <2>2. d # c
    BY <1>0, <2>1
  <2> QED BY <1>4, <2>2, Moved
<1>5. ASSUME NEW d \in Clients, Acquire(d) PROVE Goal
  <2>1. PICK y \in Idle : MarkAcquired(d, y, Cardinality(Idle \ {y}))
    BY <1>5 DEF Acquire, Offered
  <2>2. Moves(d, "using", y) /\ pool' = pool /\ timer' = timer \ {y}
        /\ status' = [status EXCEPT ![y] = "busy"]
    BY <2>1 DEF MarkAcquired
  <2>3. status'[x] = "busy" \/ status'[x] = status[x]
    BY <2>2, <1>3
  <2>4. client'[c].pc = "using" \/ client'[c] = client[c]
    BY <2>2, Moved
  <2> QED BY <2>2, <2>3, <2>4
<1>6. ASSUME NEW d \in Clients, AcquireNew(d) PROVE Goal
  <2>1. Moves(d, "creating", Nobody) /\ UNCHANGED <<pool, status, timer>>
    BY <1>6 DEF AcquireNew, entry
  <2> QED BY <2>1, <1>4
<1>7. ASSUME NEW y \in Fresh, NEW o, Register(y, o) PROVE x \in pool /\ timer' = timer /\ status'[x] = status[x]
  BY <1>0, <1>3, <1>7 DEF Register
<1>8. ASSUME Failed PROVE x \in pool /\ timer' = timer /\ status'[x] = status[x]
  BY <1>8 DEF Failed, entry
<1>9. ASSUME NEW d \in Clients, Created(d) PROVE Goal
  <2>1. ASSUME NEW y \in Fresh, Register(y, d), Moves(d, "using", y) PROVE Goal
    <3>1. client'[d].sandbox = y
      BY <2>1, MovedTo
    <3>2. d # c
      BY <1>0, <2>1, <3>1
    <3>3. client'[c] = client[c]
      BY <2>1, <3>2, Moved
    <3> QED BY <2>1, <3>3, <1>7
  <2>2. ASSUME Failed, Moves(d, "away", Nobody) PROVE Goal
    BY <2>2, <1>4, <1>8
  <2> QED BY <1>9, <2>1, <2>2 DEF Created
<1>10. ASSUME NEW d \in Clients, ExecStart(d) \/ ExecEnd(d) PROVE Goal
  <2>1. pool' = pool /\ timer' = timer
    BY <1>10 DEF ExecStart, ExecEnd, entry
  <2>2. CASE d = c
    <3>1. CASE ExecStart(c)
      <4>1. status' = [status EXCEPT ![x] = "busy"]
        BY <3>1 DEF ExecStart
      <4> QED BY <2>1, <4>1, <1>3
    <3>2. CASE ExecEnd(c)
      <4>1. Moves(c, "using", client[c].sandbox)
        BY <3>2 DEF ExecEnd
      <4>2. client'[c].pc = "using"
        BY <4>1, Moved
      <4> QED BY <2>1, <4>2
    <3> QED BY <2>2, <3>1, <3>2, <1>10
  <2>3. CASE d # c
    <3>1. client[d].sandbox # x
      BY <2>3
    <3>2. status'[x] = status[x]
      BY <1>10, <3>1, <1>3 DEF ExecStart, ExecEnd
    <3>3. Moves(d, "executing", client[d].sandbox) \/ Moves(d, "using", client[d].sandbox)
      BY <1>10 DEF ExecStart, ExecEnd
    <3>4. client'[c] = client[c]
      BY <2>3, <3>3, Moved
    <3> QED BY <2>1, <3>2, <3>4
  <2> QED BY <2>2, <2>3
<1>11. ASSUME NEW d \in Clients, Release(d) PROVE Goal
  <2> DEFINE y == client[d].sandbox
             idle == Idle \cup {y}
             st == [status EXCEPT ![y] = "ready"]
  <2>1. client'[c] = client[c] /\ y # x
    BY <1>4, <1>11 DEF Release
  <2>2. st \in [Sandboxes -> Statuses] /\ st[x] = status[x]
    BY <2>1, <1>3 DEF Statuses
  <2>3. timer' \subseteq timer \cup {y}
    <3>1. \/ \E first : timer' = (timer \cup {y}) \ {first}
          \/ timer' = timer \cup {y}
      BY <1>11 DEF Release
    <3> QED BY <3>1
  <2>4. x \in pool /\ status'[x] = status[x]
    <3>1. \/ \E first : Kill(first, FALSE, st)
          \/ status' = st /\ pool' = pool
      BY <1>11 DEF Release
    <3> HIDE DEF st
    <3> QED BY <3>1, <2>2, <1>1
  <2> QED BY <2>1, <2>3, <2>4
<1>12. ASSUME NEW d \in Clients, ReleaseUnknown(d) \/ Destroy(d) PROVE Goal
  <2>1. client'[c] = client[c] /\ timer' \subseteq timer
    BY <1>4, <1>12 DEF ReleaseUnknown, Destroy
  <2>2. Spare \/ \E y, r : Kill(y, r, status)
    BY <1>12 DEF ReleaseUnknown, Destroy
  <2> QED BY <2>1, <2>2, <1>1, <1>2, <1>3
<1>13. ASSUME Warmed PROVE Goal
  <2>1. client' = client
    BY <1>13 DEF Warmed
  <2> QED BY <2>1, <1>13, <1>7, <1>8 DEF Warmed
<1>14. ASSUME NEW y \in Sandboxes, TimerFires(y) \/ Cleanup(y) PROVE Goal
  <2>1. client' = client /\ timer' \subseteq timer
    BY <1>14 DEF TimerFires, Cleanup
  <2>2. Spare \/ \E r : Kill(y, r, status)
    BY <1>14 DEF TimerFires, Cleanup
  <2> QED BY <2>1, <2>2, <1>1, <1>2, <1>3
<1>15. ASSUME NEW y \in Sandboxes, Destroyed(y) PROVE Goal
  <2>1. UNCHANGED <<pool, timer, client>> /\ status' = [status EXCEPT ![y] = "ready"] /\ y \in DOMAIN dying
    BY <1>15 DEF Destroyed, entry
  <2>2. x # y
    BY <2>1 DEF NoLeak
  <2> QED BY <2>1, <2>2, <1>3
<1>16. ASSUME NEW e \in evicting, EvictExcess(e) PROVE Goal
  <2>1. client' = client /\ timer' \subseteq timer
    BY <1>16 DEF EvictExcess
  <2>2. Spare \/ \E y, r : Kill(y, r, status)
    BY <1>16 DEF EvictExcess
  <2> QED BY <2>1, <2>2, <1>1, <1>2, <1>3
<1>17. ASSUME NEW e \in evicting, EvictExcessEnds(e) PROVE Goal
  BY <1>17 DEF EvictExcessEnds, entry
<1>18. CASE UNCHANGED vars
  BY <1>18 DEF vars, entry
<1> QED
  BY <1>5, <1>6, <1>9, <1>10, <1>11, <1>12, <1>13, <1>14, <1>15, <1>16, <1>17, <1>18 DEF Next

\* The history variable: the users of a sandbox after the step, two of them
\* or one the sandbox was shared with already.
LEMMA SharedNext ==
  ASSUME shared' = {x \in Sandboxes : \E c \in Users(x)' : x \in shared \/ Users(x)' # {c}},
         NEW c \in Clients, NEW x \in Sandboxes, client'[c].sandbox = x
  PROVE  /\ x \notin shared' => /\ x \notin shared
                                /\ \A d \in Clients \ {c} : client'[d].sandbox # x
         /\ (\E d \in Clients \ {c} : client'[d].sandbox = x) => x \in shared'
<1>1. \A d \in Clients : d \in Users(x)' <=> client'[d].sandbox = x
  BY DEF Users
<1>2. c \in Users(x)'
  BY <1>1
<1> QED BY <1>1, <1>2

LEMMA AloneOfNoticed ==
  ASSUME Noticed, NEW c \in Clients, NEW x \in Sandboxes \ shared, client[c].sandbox = x
  PROVE  \A d \in Clients \ {c} : client[d].sandbox # x
BY DEF Noticed

LEMMA UseStep == UInv /\ [MCNext]_<<vars, history>> => UInv'
<1> SUFFICES ASSUME UInv, [MCNext]_<<vars, history>> PROVE UInv'
  OBVIOUS
<1>1. NoLeak /\ Shape /\ Noticed /\ Guarded
  BY DEF UInv
<1>2. [Next]_vars
  BY DEF MCNext
<1>3. NoLeak' /\ Shape'
  BY <1>1, <1>2, Step
<1>4. CASE UNCHANGED <<vars, history>>
  BY <1>1, <1>3, <1>4 DEF vars, entry, history, Noticed, Guarded, UInv
<1>5. CASE MCNext
  <2>1. shared' = {x \in Sandboxes : \E c \in Users(x)' : x \in shared \/ Users(x)' # {c}}
    BY <1>5 DEF MCNext
  <2>2. Noticed'
    <3>1. ASSUME NEW c \in Clients, NEW d \in Clients, c # d,
                 client'[c].sandbox = client'[d].sandbox, client'[c].sandbox \in Sandboxes
          PROVE  client'[c].sandbox \in shared'
      BY <2>1, <3>1, SharedNext
    <3> QED BY <3>1 DEF Noticed
  <2>3. Guarded'
    <3>1. ASSUME NEW c \in Clients, NEW x, client'[c].sandbox = x, x \in pool', x \notin shared'
          PROVE  /\ x \notin timer'
                 /\ client'[c].pc = "executing" => status'[x] = "busy"
      <4>1. x \in Sandboxes
        BY <1>3, <3>1 DEF NoLeak, Shape
      <4>2. x \notin shared /\ \A d \in Clients \ {c} : client'[d].sandbox # x
        BY <2>1, <3>1, <4>1, SharedNext
      <4>3. CASE client[c].sandbox # x
        BY <1>1, <1>2, <3>1, <4>1, <4>3, Takes
      <4>4. CASE client[c].sandbox = x
        <5>1. \A d \in Clients \ {c} : client[d].sandbox # x
          BY <1>1, <4>1, <4>2, <4>4, AloneOfNoticed
        <5>2. /\ x \in pool
              /\ x \in timer' => x \in timer
              /\ \/ status'[x] = "busy" \/ client'[c].pc # "executing"
                 \/ status'[x] = status[x] /\ client'[c] = client[c]
          BY <1>1, <1>2, <3>1, <4>1, <4>4, <5>1, Untouched
        <5>3. x \notin timer
          BY <1>1, <4>2, <4>4, <5>2 DEF Guarded
        <5>4. client[c].pc = "executing" => status[x] = "busy"
          BY <1>1, <4>2, <4>4, <5>2 DEF Guarded
        <5>5. client'[c] = client[c] => client'[c].pc = client[c].pc
          OBVIOUS
        <5> QED BY <5>2, <5>3, <5>4, <5>5
      <4> QED BY <4>3, <4>4
    <3> QED BY <3>1 DEF Guarded
  <2> QED BY <1>3, <2>2, <2>3 DEF UInv
<1> QED BY <1>4, <1>5

LEMMA UseStart == MCInit => UInv
<1> SUFFICES ASSUME MCInit PROVE UInv
  OBVIOUS
<1>1. NoLeak /\ Shape
  BY Start DEF MCInit
<1>2. \A c \in Clients : client[c].sandbox = Nobody
  BY DEF MCInit, Init, Away
<1>3. Nobody \notin Sandboxes /\ pool = {}
  BY NobodyIsNone DEF Nobody, MCInit, Init
<1> QED BY <1>1, <1>2, <1>3 DEF UInv, Noticed, Guarded

\* Who is engaged with a sandbox of the pool has it busy, off the timer and
\* alone.
LEMMA EngagedIs ==
  ASSUME UInv, NEW c \in Clients, NEW x \in pool, Engaged(c, x)
  PROVE  /\ x \in Sandboxes /\ status[x] = "busy" /\ x \notin timer
         /\ \A d \in Clients \ {c} : client[d].sandbox # x
<1>1. x \in Sandboxes
  BY Known DEF UInv
<1> QED BY <1>1, AloneOfNoticed DEF UInv, Guarded, Engaged

\* A step that takes a busy sandbox out of the pool is its user's, or
\* evictExcess()'s.
LEMMA OutOfPool ==
  ASSUME NoLeak, Shape, [Next]_vars, evicting' = evicting, NEW c \in Clients, NEW x \in pool,
         x \in Sandboxes, status[x] = "busy", x \notin timer,
         client[c].sandbox = x, client'[c].sandbox = x,
         \A d \in Clients \ {c} : client[d].sandbox # x
  PROVE  x \in pool'
<1>0. Nobody # x /\ x \notin Idle
  BY NobodyIsNone DEF Nobody, Idle
<1>1. ASSUME NEW y, NEW r, NEW st, Kill(y, r, st), y # x PROVE x \in pool'
  BY <1>1 DEF Kill
<1>2. ASSUME Spare PROVE x \in pool'
  BY <1>2 DEF Spare
<1>3. ASSUME NEW d \in Clients, Moves(d, "away", Nobody) PROVE client[d].sandbox # x
  <2>1. client'[d].sandbox = Nobody
    BY <1>3, MovedTo
  <2>2. d # c
    BY <1>0, <2>1
  <2> QED BY <2>2
<1>4. ASSUME NEW d \in Clients,
             Acquire(d) \/ AcquireNew(d) \/ Created(d) \/ ExecStart(d) \/ ExecEnd(d)
      PROVE  x \in pool'
  BY <1>4 DEF Acquire, MarkAcquired, AcquireNew, Created, Register, Failed, ExecStart, ExecEnd
<1>5. ASSUME NEW d \in Clients, Release(d) PROVE x \in pool'
  <2> DEFINE st == [status EXCEPT ![client[d].sandbox] = "ready"]
  <2>1. \/ \E first \in Idle \cup {client[d].sandbox} : Kill(first, FALSE, st)
        \/ pool' = pool
    BY <1>5 DEF Release
  <2>2. client[d].sandbox # x
    BY <1>3, <1>5 DEF Release
  <2> HIDE DEF st
  <2> QED BY <2>1, <2>2, <1>0, <1>1
<1>6. ASSUME NEW d \in Clients, ReleaseUnknown(d) \/ Destroy(d) PROVE x \in pool'
  <2>1. Spare \/ \E r : Kill(client[d].sandbox, r, status)
    BY <1>6 DEF ReleaseUnknown, Destroy
  <2>2. client[d].sandbox # x
    BY <1>3, <1>6 DEF ReleaseUnknown, Destroy
  <2> QED BY <2>1, <2>2, <1>1, <1>2
<1>7. ASSUME Warmed PROVE x \in pool'
  BY <1>7 DEF Warmed, Register, Failed
<1>8. ASSUME NEW y \in Sandboxes, TimerFires(y) \/ Cleanup(y) PROVE x \in pool'
  <2>1. y # x /\ (Spare \/ \E r : Kill(y, r, status))
    BY <1>0, <1>8 DEF TimerFires, Cleanup
  <2> QED BY <2>1, <1>1, <1>2
<1>9. ASSUME NEW y \in Sandboxes, Destroyed(y) PROVE x \in pool'
  BY <1>9 DEF Destroyed
<1>10. ASSUME NEW e \in evicting, EvictExcess(e) PROVE FALSE
  <2>1. PICK y \in e.rest : evicting' = (evicting \ {e}) \cup {[now |-> y, rest |-> e.rest \ {y}]}
    BY <1>10 DEF EvictExcess
  <2>2. e = [now |-> y, rest |-> e.rest \ {y}]
    BY <2>1
  <2>3. e.rest = e.rest \ {y}
    BY <2>2
  <2> QED BY <2>1, <2>3
<1>11. ASSUME NEW e \in evicting, EvictExcessEnds(e) PROVE FALSE
  BY <1>11 DEF EvictExcessEnds
<1>12. CASE UNCHANGED vars
  BY <1>12 DEF vars
<1> QED BY <1>4, <1>5, <1>6, <1>7, <1>8, <1>9, <1>10, <1>11, <1>12 DEF Next

\* However requests, timers, the cleanup cycle and destructions interleave,
\* none but evictExcess() takes a sandbox out of the pool under its only
\* user's command, or before the user has run one.
THEOREM NeverTakenAway == MCSpec => KeptWhileEngaged
<1>1. ASSUME UInv, [Next]_vars, evicting' = evicting, NEW c \in Clients, NEW x \in pool,
             Engaged(c, x), client'[c].sandbox = x
      PROVE  x \in pool'
  <2>1. NoLeak /\ Shape /\ client[c].sandbox = x
    BY <1>1 DEF UInv, Engaged
  <2> QED BY <1>1, <2>1, EngagedIs, OutOfPool
<1>2. UInv /\ [MCNext]_<<vars, history>> =>
        [evicting' = evicting =>
           \A c \in Clients, x \in pool :
             Engaged(c, x) /\ client'[c].sandbox = x => x \in pool']_vars
  BY <1>1 DEF MCNext
<1> QED BY <1>2, UseStart, UseStep, PTL DEF MCSpec, KeptWhileEngaged

\* A second client is never handed a sandbox under the first one's command,
\* or before the first has run one: only between two commands.
THEOREM NeverHandedOver == MCSpec => AloneWhileEngaged
<1>1. ASSUME UInv, [Next]_vars, NEW c \in Clients, NEW d \in Clients, NEW x \in Sandboxes,
             Engaged(c, x), c # d, client'[d].sandbox = x
      PROVE  FALSE
  <2>1. NoLeak /\ Shape /\ Noticed /\ client[c].sandbox = x /\ x \notin shared
    BY <1>1 DEF UInv, Engaged
  <2>2. client[d].sandbox # x
    BY <1>1, <2>1 DEF Noticed
  <2>3. x \in Idle \cup Fresh
    BY <1>1, <2>1, <2>2, Takes
  <2>4. x \notin Fresh
    BY <2>1 DEF Fresh
  <2>5. x \in pool /\ status[x] = "ready"
    BY <2>3, <2>4 DEF Idle
  <2> QED BY <1>1, <2>5, EngagedIs
<1>2. UInv /\ [MCNext]_<<vars, history>> =>
        [\A c, d \in Clients, x \in Sandboxes :
           Engaged(c, x) /\ client'[c].sandbox = x /\ c # d => client'[d].sandbox # x]_vars
  BY <1>1 DEF MCNext
<1> QED BY <1>2, UseStart, UseStep, PTL DEF MCSpec, AloneWhileEngaged

-----------------------------------------------------------------------------
(* The warm pool.  What is missing is always on its way: sandboxes being   *)
(* created count as warm, and as room of the pool already taken; and a     *)
(* sandbox being destroyed may still be due to replenish.                  *)

Enough(k, n, w) == k + w >= WarmPoolSize \/ n + w >= MaxPoolSize

Refilling ==
  ~ short => /\ evicting = {}
             /\ Pending \/ Enough(Cardinality(Warm), Cardinality(pool), warming)

RInv == NoLeak /\ Shape /\ Refilling

LEMMA Counts ==
  ASSUME NoLeak, Shape
  PROVE  /\ IsFiniteSet(pool) /\ Cardinality(pool) \in Nat
         /\ IsFiniteSet(Idle) /\ Cardinality(Idle) \in Nat
         /\ IsFiniteSet(Warm) /\ Cardinality(Warm) \in Nat
         /\ Cardinality(Idle) <= Cardinality(Warm)
<1>1. pool \in SUBSET Sandboxes /\ Warm \in SUBSET Sandboxes /\ Idle \in SUBSET Warm
  BY Known DEF Idle, Warm
<1>2. /\ IsFiniteSet(pool) /\ Cardinality(pool) \in Nat
      /\ IsFiniteSet(Warm) /\ Cardinality(Warm) \in Nat
  BY <1>1, SandboxesFinite, FS_Subset, FS_CardinalityType
<1> QED BY <1>1, <1>2, FS_Subset, FS_CardinalityType

LEMMA CountsNext ==
  ASSUME NoLeak', Shape'
  PROVE  /\ IsFiniteSet(pool') /\ Cardinality(pool') \in Nat
         /\ IsFiniteSet(Idle') /\ Cardinality(Idle') \in Nat
         /\ IsFiniteSet(Warm') /\ Cardinality(Warm') \in Nat
         /\ Cardinality(Idle') <= Cardinality(Warm')
<1>1. pool' \in SUBSET Sandboxes /\ Warm' \in SUBSET Sandboxes /\ Idle' \in SUBSET Warm'
  BY DEF NoLeak, Shape, Idle, Warm
<1>2. /\ IsFiniteSet(pool') /\ Cardinality(pool') \in Nat
      /\ IsFiniteSet(Warm') /\ Cardinality(Warm') \in Nat
  BY <1>1, SandboxesFinite, FS_Subset, FS_CardinalityType
<1> QED BY <1>1, <1>2, FS_Subset, FS_CardinalityType

\* replenishPool() makes up for whatever it finds missing.
LEMMA DeficitCovers ==
  ASSUME NEW k \in Nat, NEW n \in Nat, NEW w \in Nat
  PROVE  Enough(k, n, w + Deficit(n, k))
BY SizesNat DEF Enough, Deficit

\* What a step must do to keep the pool refilled, by kind: nothing that
\* takes a sandbox away, a replenishment, or one left due.
LEMMA NothingLost ==
  ASSUME RInv, NoLeak', Shape', ~ short, evicting' = evicting,
         pool \subseteq pool', Warm \subseteq Warm', warming' = warming, Pending => Pending'
  PROVE  Refilling'
<1>1. Cardinality(pool) <= Cardinality(pool') /\ Cardinality(Warm) <= Cardinality(Warm')
  BY CountsNext, FS_Subset
<1>2. warming \in Nat
  BY DEF RInv, Shape
<1>3. ASSUME Enough(Cardinality(Warm), Cardinality(pool), warming)
      PROVE  Enough(Cardinality(Warm'), Cardinality(pool'), warming')
  BY <1>1, <1>2, <1>3, Counts, CountsNext, SizesNat DEF RInv, Enough
<1> QED BY <1>3 DEF RInv, Refilling

LEMMA Replenished ==
  ASSUME RInv, NoLeak', Shape', ~ short, evicting' = evicting,
         Replenish(Cardinality(pool'), Cardinality(Idle'))
  PROVE  Refilling'
<1>1. Enough(Cardinality(Idle'), Cardinality(pool'), warming')
  BY CountsNext, DeficitCovers DEF RInv, Replenish, Shape
<1>2. Enough(Cardinality(Warm'), Cardinality(pool'), warming')
  BY <1>1, CountsNext, SizesNat DEF Enough, Shape
<1> QED BY <1>2 DEF RInv, Refilling

LEMMA LeftDue ==
  ASSUME RInv, ~ short, evicting' = evicting, Pending'
  PROVE  Refilling'
BY DEF RInv, Refilling

LEMMA KillDue ==
  ASSUME NEW x, NEW r, NEW st, Kill(x, r, st)
  PROVE  (Pending => Pending') /\ (r => Pending')
BY DEF Kill, Pending

\* A sandbox stays warm that stays ready or has a command started in it, as
\* long as a command that ends leaves its sandbox ready.
LEMMA WarmStays ==
  ASSUME pool \subseteq pool',
         \A y \in pool : status[y] = "ready" =>
           status'[y] = "ready" \/ \E d \in Clients : client'[d].pc = "executing" /\ client'[d].sandbox = y,
         \A d \in Clients : client[d].pc = "executing" =>
           client'[d] = client[d] \/ status'[client[d].sandbox] = "ready"
  PROVE  Warm \subseteq Warm'
<1> DEFINE Stays(y) == status'[y] = "ready"
                         \/ \E d \in Clients : client'[d].pc = "executing" /\ client'[d].sandbox = y
<1> SUFFICES ASSUME NEW y \in Warm PROVE y \in Warm'
  OBVIOUS
<1>1. y \in pool'
  BY DEF Warm
<1>2. Stays(y)
  <2>1. CASE status[y] = "ready"
    BY <2>1 DEF Warm
  <2>2. ASSUME NEW d \in Clients, client[d].sandbox = y, client[d].pc = "executing" PROVE Stays(y)
    BY <2>2
  <2> QED BY <2>1, <2>2 DEF Warm, Users
<1> QED BY <1>1, <1>2 DEF Warm, Users

\* The death of a sandbox the pool has lost already, or none at all.
LEMMA KillUnknown ==
  ASSUME NoLeak, Shape, NEW x, x \notin pool, Kill(x, FALSE, status) \/ Spare
  PROVE  pool' = pool /\ (\A y \in pool : status'[y] = status[y]) /\ (Pending => Pending')
<1>1. CASE Kill(x, FALSE, status)
  BY <1>1, KillDue, Known DEF Kill, Shape
<1>2. CASE Spare
  BY <1>2 DEF Spare, Pending
<1> QED BY <1>1, <1>2

\* A created sandbox is in nobody's way.
LEMMA RegisterIdle ==
  ASSUME NoLeak, Shape, NEW x \in Fresh, NEW o, Register(x, o)
  PROVE  /\ x \notin pool /\ pool' = pool \cup {x} /\ x \notin Warm
         /\ \A y \in pool : status'[y] = status[y]
         /\ status'[x] = "ready"
<1>1. x \notin pool /\ x \in Sandboxes
  BY DEF NoLeak, Fresh
<1>2. status' = [status EXCEPT ![x] = "ready"] /\ pool' = pool \cup {x}
  BY DEF Register
<1> QED BY <1>1, <1>2, Known DEF Warm, Shape

\* A client that leaves a command aside, and the others, run on.
LEMMA RunsOn ==
  ASSUME Shape, NEW c \in Clients, client[c].pc # "executing", NEW pc, NEW x, Moves(c, pc, x),
         NEW d \in Clients, client[d].pc = "executing"
  PROVE  client'[d] = client[d]
<1>1. d # c
  OBVIOUS
<1> QED BY <1>1, Moved

LEMMA RefillStep ==
  ASSUME RInv, [MCNext]_<<vars, history>> PROVE Refilling'
<1>0. NoLeak /\ Shape
  BY DEF RInv
<1>1. NoLeak' /\ Shape'
  <2>1. [Next]_vars
    BY DEF MCNext
  <2> QED BY <1>0, <2>1, Step
<1>2. CASE UNCHANGED <<vars, history>>
  BY <1>2 DEF RInv, vars, entry, history, Refilling, Pending, Warm, Users
<1>3. CASE MCNext
  <2>1. CASE short'
    BY <2>1 DEF Refilling
  <2>2. ASSUME ~ short'
        PROVE  /\ Next /\ ~ short /\ evicting' = {} /\ evicting = {}
               /\ ~ (warming' < warming /\ live' = live)
    <3>1. Next /\ ~ short /\ ~ Shortens
      BY <1>3, <2>2 DEF MCNext
    <3> QED BY <3>1 DEF Shortens, RInv, Refilling
  <2>3. ASSUME ~ short', NEW c \in Clients, Acquire(c) PROVE Refilling'
    <3>1. PICK x \in Idle : MarkAcquired(c, x, Cardinality(Idle \ {x}))
      BY <2>3 DEF Acquire, Offered
    <3>2. x \in Sandboxes
      BY <1>0, Known
    <3>3. /\ pool' = pool
          /\ \A y \in pool \ {x} : status'[y] = status[y]
          /\ status'[x] = "busy"
      BY <1>0, <3>1, <3>2 DEF MarkAcquired, Shape
    <3>4. Idle' = Idle \ {x}
      BY <3>3 DEF Idle
    <3>5. Replenish(Cardinality(pool'), Cardinality(Idle'))
      BY <3>1, <3>3, <3>4 DEF MarkAcquired
    <3> QED BY <1>1, <2>2, <2>3, <3>5, Replenished
  <2>4. ASSUME ~ short', NEW c \in Clients, AcquireNew(c) PROVE Refilling'
    <3>1. /\ UNCHANGED <<pool, status, warming, dying>> /\ client[c].pc # "executing"
          /\ Moves(c, "creating", Nobody)
      BY <2>4 DEF AcquireNew
    <3>2. Warm \subseteq Warm'
      BY <1>0, <3>1, RunsOn, WarmStays
    <3> QED BY <1>1, <2>2, <2>4, <3>1, <3>2, NothingLost DEF Pending
  <2>5. ASSUME ~ short', NEW c \in Clients, Created(c) PROVE Refilling'
    <3>1. warming' = warming /\ (Pending => Pending') /\ client[c].pc # "executing"
      BY <2>5 DEF Created, Pending
    <3>2. pool \subseteq pool' /\ \A y \in pool : status'[y] = status[y]
      <4>1. ASSUME Failed PROVE pool' = pool /\ status' = status
        BY <4>1 DEF Failed
      <4>2. ASSUME NEW x \in Fresh, Register(x, c)
            PROVE  pool \subseteq pool' /\ \A y \in pool : status'[y] = status[y]
        BY <1>0, <4>2, RegisterIdle
      <4> QED BY <2>5, <4>1, <4>2 DEF Created
    <3>3. \A d \in Clients : client[d].pc = "executing" => client'[d] = client[d]
      BY <1>0, <2>5, <3>1, RunsOn DEF Created
    <3>4. Warm \subseteq Warm'
      BY <3>2, <3>3, WarmStays
    <3> QED BY <1>1, <2>2, <2>5, <3>1, <3>2, <3>4, NothingLost
  <2>6. ASSUME ~ short', Warmed PROVE Refilling'
    <3>0. warming' < warming /\ (Failed => live' = live)
      BY <1>0, <2>6 DEF Warmed, Failed, Shape
    <3>1. PICK x \in Fresh : Register(x, Nobody)
      BY <2>2, <2>6, <3>0 DEF Warmed
    <3>2. /\ x \notin pool /\ pool' = pool \cup {x} /\ x \notin Warm
          /\ (\A y \in pool : status'[y] = status[y]) /\ status'[x] = "ready"
      BY <1>0, <3>1, RegisterIdle
    <3>3. client' = client
      BY <2>6 DEF Warmed
    <3>4. Warm' = Warm \cup {x}
      BY <3>2, <3>3 DEF Warm, Users
    <3>5. /\ Cardinality(pool') = Cardinality(pool) + 1
          /\ Cardinality(Warm') = Cardinality(Warm) + 1
      BY <1>0, <3>2, <3>4, Counts, FS_AddElement
    <3>6. warming' = warming - 1 /\ warming \in Nat /\ (Pending => Pending')
      BY <1>0, <2>6 DEF Warmed, Pending, Shape
    <3>7. ASSUME Enough(Cardinality(Warm), Cardinality(pool), warming)
          PROVE  Enough(Cardinality(Warm'), Cardinality(pool'), warming')
      BY <1>0, <3>5, <3>6, <3>7, Counts, SizesNat DEF Enough
    <3> QED BY <2>2, <2>6, <3>6, <3>7 DEF RInv, Refilling
  <2>7. ASSUME ~ short', NEW c \in Clients, ExecStart(c) PROVE Refilling'
    <3>1. /\ UNCHANGED <<pool, warming, dying>> /\ client[c].pc # "executing"
          /\ status' = [status EXCEPT ![client[c].sandbox] = "busy"]
          /\ Moves(c, "executing", client[c].sandbox)
      BY <2>7 DEF ExecStart
    <3>2. client'[c].pc = "executing" /\ client'[c].sandbox = client[c].sandbox
      BY <1>0, <3>1, Moved
    <3>3. \A y \in pool : status'[y] = status[y] \/ y = client[c].sandbox
      BY <1>0, <3>1, Known DEF Shape
    <3>4. Warm \subseteq Warm'
      BY <1>0, <3>1, <3>2, <3>3, RunsOn, WarmStays
    <3> QED BY <1>1, <2>2, <2>7, <3>1, <3>4, NothingLost DEF Pending
  <2>8. ASSUME ~ short', NEW c \in Clients, ExecEnd(c) PROVE Refilling'
    <3>1. /\ UNCHANGED <<pool, warming, dying>> /\ client[c].sandbox \in Sandboxes
          /\ status' = [status EXCEPT ![client[c].sandbox] = "ready"]
          /\ Moves(c, "using", client[c].sandbox)
      BY <1>0, <2>8, UsesOne DEF ExecEnd
    <3>2. status'[client[c].sandbox] = "ready" /\ \A y \in Sandboxes \ {client[c].sandbox} : status'[y] = status[y]
      BY <1>0, <3>1 DEF Shape
    <3>3. \A d \in Clients \ {c} : client'[d] = client[d]
      BY <1>0, <3>1, Moved
    <3>4. Warm \subseteq Warm'
      BY <1>0, <3>1, <3>2, <3>3, Known, WarmStays
    <3> QED BY <1>1, <2>2, <2>8, <3>1, <3>4, NothingLost DEF Pending
  <2>9. ASSUME ~ short', NEW c \in Clients, Release(c) PROVE Refilling'
    <3> DEFINE x == client[c].sandbox
               idle == Idle \cup {x}
    <3>1. ~ (Cardinality(idle) > WarmPoolSize + 2)
      BY <2>2, <2>9 DEF Release
    <3>2. /\ UNCHANGED <<pool, warming, dying>> /\ client[c].pc # "executing"
          /\ status' = [status EXCEPT ![x] = "ready"] /\ Moves(c, "away", Nobody)
      BY <2>9, <3>1 DEF Release
    <3>3. \A y \in pool : status[y] = "ready" => status'[y] = "ready"
      BY <1>0, <3>2, Known DEF Shape
    <3>4. Warm \subseteq Warm'
      BY <1>0, <3>2, <3>3, RunsOn, WarmStays
    <3> QED BY <1>1, <2>2, <2>9, <3>2, <3>4, NothingLost DEF Pending
  <2>10. ASSUME ~ short', NEW c \in Clients, ReleaseUnknown(c) PROVE Refilling'
    <3>1. warming' = warming /\ client[c].pc # "executing" /\ Moves(c, "away", Nobody)
      BY <2>10 DEF ReleaseUnknown
    <3>2. pool' = pool /\ (\A y \in pool : status'[y] = status[y]) /\ (Pending => Pending')
      BY <1>0, <2>10, KillUnknown DEF ReleaseUnknown
    <3>3. Warm \subseteq Warm'
      BY <1>0, <3>1, <3>2, RunsOn, WarmStays
    <3> QED BY <1>1, <2>2, <2>10, <3>1, <3>2, <3>3, NothingLost
  <2>11. ASSUME ~ short', NEW c \in Clients, Destroy(c) PROVE Refilling'
    <3>1. CASE client[c].sandbox \in live
      BY <2>2, <2>11, <3>1, KillDue, LeftDue DEF Destroy
    <3>2. CASE client[c].sandbox \notin live
      <4>1. pool' = pool /\ Idle' = Idle
        BY <2>11, <3>2 DEF Destroy, Spare, Idle
      <4> QED BY <1>1, <2>2, <2>11, <3>2, <4>1, Replenished DEF Destroy
    <3> QED BY <3>1, <3>2
  <2>12. ASSUME ~ short', NEW x \in Sandboxes, TimerFires(x) PROVE Refilling'
    <3>1. CASE x \in pool
      BY <2>2, <2>12, <3>1, KillDue, LeftDue DEF TimerFires
    <3>2. CASE x \notin pool
      <4>1. warming' = warming /\ client' = client
        BY <2>12 DEF TimerFires
      <4>2. pool' = pool /\ (\A y \in pool : status'[y] = status[y]) /\ (Pending => Pending')
        BY <1>0, <2>12, <3>2, KillUnknown DEF TimerFires
      <4>3. Warm \subseteq Warm'
        BY <4>1, <4>2, WarmStays
      <4> QED BY <1>1, <2>2, <2>12, <4>1, <4>2, <4>3, NothingLost
    <3> QED BY <3>1, <3>2
  <2>13. ASSUME ~ short', NEW x \in Sandboxes, Cleanup(x) PROVE Refilling'
    BY <2>2, <2>13, KillDue, LeftDue DEF Cleanup
  <2>14. ASSUME ~ short', NEW x \in Sandboxes, Destroyed(x) PROVE Refilling'
    <3>1. pool' = pool /\ client' = client /\ \A y \in pool : status'[y] = status[y]
      BY <1>0, <2>14 DEF Destroyed, NoLeak, Shape
    <3>2. CASE dying[x]
      <4>1. Idle' = Idle
        BY <3>1 DEF Idle
      <4> QED BY <1>1, <2>2, <2>14, <3>1, <3>2, <4>1, Replenished DEF Destroyed
    <3>3. CASE ~ dying[x]
      <4>1. warming' = warming /\ (Pending => Pending')
        BY <2>14, <3>3 DEF Destroyed, Pending
      <4>2. Warm \subseteq Warm'
        BY <3>1, WarmStays
      <4> QED BY <1>1, <2>2, <2>14, <3>1, <4>1, <4>2, NothingLost
    <3> QED BY <3>2, <3>3
  <2>15. ASSUME ~ short', NEW e \in evicting PROVE FALSE
    BY <2>2, <2>15
  <2> QED
    BY <2>1, <2>2, <2>3, <2>4, <2>5, <2>6, <2>7, <2>8, <2>9, <2>10, <2>11, <2>12, <2>13, <2>14,
       <2>15 DEF Next
<1> QED BY <1>2, <1>3

\* No pool size and no interleaving of acquisitions, commands, releases,
\* timers and evictions leaves the warm pool short once no replenishment is
\* under way or due: the cases where replenishPool() is not called after all
\* are the ones the history variable names.
THEOREM StaysWarm == MCSpec => []RefilledAtRest
<1>1. MCInit => RInv
  <2> SUFFICES ASSUME MCInit PROVE RInv
    OBVIOUS
  <2>1. NoLeak /\ Shape /\ warming = WarmPoolSize /\ evicting = {}
    BY Start DEF MCInit, Init
  <2>2. Enough(Cardinality(Warm), Cardinality(pool), warming)
    BY <2>1, Counts, SizesNat DEF Enough
  <2> QED BY <2>1, <2>2 DEF RInv, Refilling
<1>2. RInv /\ [MCNext]_<<vars, history>> => RInv'
  <2> SUFFICES ASSUME RInv, [MCNext]_<<vars, history>> PROVE RInv'
    OBVIOUS
  <2>1. [Next]_vars
    BY DEF MCNext
  <2>2. NoLeak' /\ Shape'
    BY <2>1, Step DEF RInv
  <2> QED BY <2>2, RefillStep DEF RInv
<1>3. RInv => RefilledAtRest
  BY Counts, SizesNat DEF RInv, Refilling, RefilledAtRest, AtRest, Enough
<1> QED BY <1>1, <1>2, <1>3, PTL DEF MCSpec
=============================================================================
