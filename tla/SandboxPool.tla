---------------------------- MODULE SandboxPool ----------------------------
(***************************************************************************)
(* The warm pool of the sandbox manager (pool.ts), the ContainerManager    *)
(* below it (container.ts) and the HTTP clients above it (index.ts).       *)
(*                                                                         *)
(* JavaScript runs each handler up to its next await without interruption, *)
(* so a step here is what a handler does between two awaits, those for the *)
(* provider's mode excepted: it is resolved once, and the only step that   *)
(* may come between the pool's deletion of an entry and its destruction,   *)
(* the start of a command, leaves the same state behind in either order.   *)
(* The pool and the ContainerManager share one ContainerInfo object per    *)
(* sandbox: the status that exec() leaves on it is the one acquire() reads.*)
(*                                                                         *)
(* acquire() has one caller, POST /sandbox/create, which names no session: *)
(* the sessionId of every entry is null, and no entry is active.           *)
(*                                                                         *)
(* Left out: the container's resources, file and terminal operations that  *)
(* leave the status alone, shutdown(), and how long a sandbox idles before *)
(* a timer or the cleanup cycle finds it expired (any time will do).       *)
(***************************************************************************)
EXTENDS Integers, FiniteSets

CONSTANTS
  Clients,       \* concurrent users, each for a project of its own
  Sandboxes,     \* bound: identities; one is reused when nothing refers to it
  WarmPoolSize, MaxPoolSize,
  MaxLapses      \* bound: containers the provider leaves running

ASSUME SizesNat == WarmPoolSize \in Nat /\ MaxPoolSize \in Nat /\ MaxLapses \in Nat
ASSUME NobodyIsNone == "nobody" \notin Sandboxes \cup Clients
ASSUME SandboxesFinite == IsFiniteSet(Sandboxes)

VARIABLES
  pool,      \* the Map: sandboxes the pool knows
  live,      \* sandboxes the ContainerManager knows
  running,   \* containers the provider runs
  lapses,    \* how many it left running: half-created, or never removed
  status,    \* info.status of each sandbox
  project,   \* the project of the pool's entry, a client or Nobody
  timer,     \* sandboxes whose idle timer runs
  client,    \* what each client is doing, and with which sandbox
  warming,   \* calls of addWarmSandbox() waiting for their container
  evicting,  \* running evictExcess() loops: the victim awaited, those to come
  dying      \* sandboxes being destroyed; TRUE if replenishPool() follows

provider == <<running, lapses>>
entry == <<project, timer>>
vars == <<pool, live, provider, status, entry, client, warming, evicting, dying>>

Nobody == "nobody"
Away == [pc |-> "away", sandbox |-> Nobody]

Moves(c, pc, x) == client' = [client EXCEPT ![c] = [pc |-> pc, sandbox |-> x]]

Idle == {x \in pool : status[x] = "ready"}

\* Identities nothing refers to any more.  A creation ends when there is one:
\* the number of identities bounds the containers that exist at a time.
Fresh == Sandboxes \ (running \cup timer \cup {client[c].sandbox : c \in Clients}
                              \cup UNION {{e.now} \cup e.rest : e \in evicting})

\* Bound of the model: a request that has a sandbox created comes when there
\* are identities for everything being created.
Creating == {c \in Clients : client[c].pc = "creating"}
Room == warming + Cardinality(Creating) <= Cardinality(Fresh)

Init ==
  /\ pool = {} /\ live = {} /\ running = {} /\ timer = {}
  /\ lapses = 0
  /\ status = [x \in Sandboxes |-> "ready"]
  /\ project = [x \in Sandboxes |-> Nobody]
  /\ client = [c \in Clients |-> Away]
  /\ warming = WarmPoolSize  \* initialize()
  /\ evicting = {} /\ dying = <<>>

\* What replenishPool() creates when it finds a pool of n with k idle.
Deficit(n, k) ==
  LET short == WarmPoolSize - k
      room  == MaxPoolSize - n
  IN  IF short <= 0 \/ room <= 0 THEN 0 ELSE IF short <= room THEN short ELSE room

Replenish(n, k) == warming' = warming + Deficit(n, k)

-----------------------------------------------------------------------------
(* acquire()                                                               *)

\* The sandboxes acquire() may choose from: those of the project first.
Offered(c) ==
  LET mine == {x \in Idle : project[x] = c} IN IF mine # {} THEN mine ELSE Idle

\* markAcquired() of x, where replenishPool() then counts k sandboxes idle.
MarkAcquired(c, x, k) ==
  /\ timer' = timer \ {x}
  /\ project' = [project EXCEPT ![x] = c]
  /\ status' = [status EXCEPT ![x] = "busy"]
  /\ Moves(c, "using", x)
  /\ UNCHANGED <<pool, live, provider, evicting, dying>>
  /\ Replenish(Cardinality(pool), k)

MarkAcquiredTicking(c, x, k) ==  \* mutant: the idle timer is not cleared
  /\ project' = [project EXCEPT ![x] = c]
  /\ status' = [status EXCEPT ![x] = "busy"]
  /\ Moves(c, "using", x)
  /\ UNCHANGED <<pool, live, provider, timer, evicting, dying>>
  /\ Replenish(Cardinality(pool), k)

AcquireTicking(c) ==
  /\ client[c].pc = "away"
  /\ \E x \in Offered(c) : MarkAcquiredTicking(c, x, Cardinality(Idle \ {x})) /\ Room'

AcquireCountsItself(c) ==  \* mutant: replenishPool() before the entry is marked
  /\ client[c].pc = "away"
  /\ \E x \in Offered(c) : MarkAcquired(c, x, Cardinality(Idle)) /\ Room'

Acquire(c) ==
  /\ client[c].pc = "away"
  /\ \E x \in Offered(c) : MarkAcquired(c, x, Cardinality(Idle \ {x})) /\ Room'

\* No idle sandbox: the capacity is checked, and the creation awaited.
AcquireNew(c) ==
  /\ client[c].pc = "away"
  /\ Idle = {} /\ Cardinality(pool) < MaxPoolSize
  /\ Moves(c, "creating", Nobody)
  /\ UNCHANGED <<pool, live, provider, status, entry, warming, evicting, dying>>
  /\ Room'

\* The provider has created x: create() and its caller register it.
Register(x, owner) ==
  /\ pool' = pool \cup {x} /\ live' = live \cup {x} /\ running' = running \cup {x}
  /\ status' = [status EXCEPT ![x] = "ready"]
  /\ project' = [project EXCEPT ![x] = owner]
  /\ UNCHANGED <<timer, lapses>>

Lapse == lapses < MaxLapses /\ lapses' = lapses + 1

\* A creation fails; a container made but not started is removed, and a
\* failure of that is ignored.
Failed ==
  /\ \/ UNCHANGED provider
     \/ Lapse /\ \E x \in Fresh : running' = running \cup {x}
  /\ UNCHANGED <<pool, live, status, entry>>

Created(c) ==
  /\ client[c].pc = "creating"
  /\ \/ \E x \in Fresh : Register(x, c) /\ Moves(c, "using", x)
     \/ Failed /\ Moves(c, "away", Nobody)
  /\ UNCHANGED <<warming, evicting, dying>>

Warmed ==
  /\ warming > 0 /\ warming' = warming - 1
  /\ (\E x \in Fresh : Register(x, Nobody)) \/ Failed
  /\ UNCHANGED <<client, evicting, dying>>

-----------------------------------------------------------------------------
(* A client at work: exec() on the ContainerManager                        *)

ExecStartUnmarked(c) ==  \* mutant: the status stays as it is
  /\ client[c].pc = "using" /\ client[c].sandbox \in live
  /\ status[client[c].sandbox] \in {"ready", "busy"}
  /\ Moves(c, "executing", client[c].sandbox)
  /\ UNCHANGED <<pool, live, provider, status, entry, warming, evicting, dying>>

ExecStart(c) ==
  /\ client[c].pc = "using" /\ client[c].sandbox \in live
  /\ status[client[c].sandbox] \in {"ready", "busy"}
  /\ status' = [status EXCEPT ![client[c].sandbox] = "busy"]
  /\ Moves(c, "executing", client[c].sandbox)
  /\ UNCHANGED <<pool, live, provider, entry, warming, evicting, dying>>

ExecEnd(c) ==
  /\ client[c].pc = "executing"
  /\ status' = [status EXCEPT ![client[c].sandbox] = "ready"]
  /\ Moves(c, "using", client[c].sandbox)
  /\ UNCHANGED <<pool, live, provider, entry, warming, evicting, dying>>

-----------------------------------------------------------------------------
(* release(), destroy() and the evictions                                  *)

\* mutant: the entry is deleted and nothing destroys the container
KillEntryOnly(x, replenish, st) ==
  /\ pool' = pool \ {x} /\ status' = [st EXCEPT ![x] = "stopping"]
  /\ UNCHANGED <<dying, project>>

\* The entry of x is deleted and containerManager.destroy(x) awaited;
\* st is the status of every sandbox before that.
Kill(x, replenish, st) ==
  /\ pool' = pool \ {x}
  /\ dying' = [y \in DOMAIN dying \cup {x} |->
                 (replenish /\ y = x) \/ (y \in DOMAIN dying /\ dying[y])]
  /\ status' = [st EXCEPT ![x] = "stopping"]
  /\ project' = [project EXCEPT ![x] = Nobody]

Spare == UNCHANGED <<pool, dying, status, project>>

\* Where a release leaves too many idle, evictExcess() picks its victims at
\* once, those used last excepted, kills the first and awaits its end.
Release(c) ==
  LET x == client[c].sandbox
      idle == Idle \cup {x}
      st == [status EXCEPT ![x] = "ready"]
  IN
  /\ client[c].pc = "using" /\ x \in pool
  /\ Moves(c, "away", Nobody)
  /\ IF Cardinality(idle) > WarmPoolSize + 2
     THEN \E chosen \in SUBSET idle : \E first \in chosen :
            /\ Cardinality(chosen) = Cardinality(idle) - WarmPoolSize
            /\ x \in chosen => WarmPoolSize = 0
            /\ Kill(first, FALSE, st)
            /\ evicting' = evicting \cup {[now |-> first, rest |-> chosen \ {first}]}
            /\ timer' = (timer \cup {x}) \ {first}
     ELSE /\ timer' = timer \cup {x} /\ status' = st
          /\ UNCHANGED <<pool, project, evicting, dying>>
  /\ UNCHANGED <<live, provider, warming>>

\* release() of a sandbox the pool has lost: it is only destroyed.
ReleaseUnknown(c) ==
  LET x == client[c].sandbox IN
  /\ client[c].pc = "using" /\ x \notin pool
  /\ Moves(c, "away", Nobody)
  /\ IF x \in live THEN Kill(x, FALSE, status) ELSE Spare
  /\ UNCHANGED <<timer, live, provider, warming, evicting>>

\* mutant: destroy() does not look whether the container is still there
EvictExcessBlind(e) ==
  /\ e.now \notin DOMAIN dying
  /\ \E x \in e.rest :
       /\ evicting' = (evicting \ {e}) \cup {[now |-> x, rest |-> e.rest \ {x}]}
       /\ timer' = timer \ {x}
       /\ Kill(x, FALSE, status)
  /\ UNCHANGED <<live, provider, client, warming>>

\* evictExcess() resumes and kills the next of the victims it picked.
EvictExcess(e) ==
  /\ e.now \notin DOMAIN dying
  /\ \E x \in e.rest :
       /\ evicting' = (evicting \ {e}) \cup {[now |-> x, rest |-> e.rest \ {x}]}
       /\ timer' = timer \ {x}
       /\ IF x \in live THEN Kill(x, FALSE, status) ELSE Spare
  /\ UNCHANGED <<live, provider, client, warming>>

EvictExcessEnds(e) ==
  /\ e.now \notin DOMAIN dying /\ e.rest = {}
  /\ evicting' = evicting \ {e}
  /\ UNCHANGED <<pool, live, provider, status, entry, client, warming, dying>>

\* evictSandbox() from the idle timer: no entry names a session to spare it.
TimerFires(x) ==
  /\ x \in timer /\ timer' = timer \ {x}
  /\ IF x \in pool THEN Kill(x, TRUE, status) ELSE Spare
  /\ UNCHANGED <<live, provider, client, warming, evicting>>

\* One visit of cleanupIdleSandboxes(); evictSandbox() clears no timer.
Cleanup(x) ==
  /\ x \in Idle /\ Kill(x, TRUE, status)
  /\ UNCHANGED <<timer, live, provider, client, warming, evicting>>

\* DELETE /sandbox/:id; of a container already gone, replenishPool() is left.
Destroy(c) ==
  LET x == client[c].sandbox IN
  /\ client[c].pc = "using"
  /\ Moves(c, "away", Nobody)
  /\ timer' = timer \ {x}
  /\ UNCHANGED <<live, provider, evicting>>
  /\ IF x \in live THEN Kill(x, TRUE, status) /\ UNCHANGED warming
     ELSE Spare /\ Replenish(Cardinality(pool), Cardinality(Idle)) /\ Room'

\* The provider has stopped and removed the container, or has failed to: the
\* ContainerManager forgets it, and its info, all the same.
Destroyed(x) ==
  /\ x \in DOMAIN dying
  /\ live' = live \ {x} /\ status' = [status EXCEPT ![x] = "ready"]
  /\ \/ running' = running \ {x} /\ UNCHANGED lapses
     \/ Lapse /\ UNCHANGED running
  /\ dying' = [y \in DOMAIN dying \ {x} |-> dying[y]]
  /\ UNCHANGED <<pool, entry, client, evicting>>
  /\ IF dying[x] THEN Replenish(Cardinality(pool), Cardinality(Idle)) ELSE UNCHANGED warming

Next ==
  \/ \E c \in Clients :
       \/ Acquire(c) \/ AcquireNew(c) \/ Created(c)
       \/ ExecStart(c) \/ ExecEnd(c)
       \/ Release(c) \/ ReleaseUnknown(c) \/ Destroy(c)
  \/ Warmed
  \/ \E x \in Sandboxes : TimerFires(x) \/ Cleanup(x) \/ Destroyed(x)
  \/ \E e \in evicting : EvictExcess(e) \/ EvictExcessEnds(e)

Spec == Init /\ [][Next]_vars

-----------------------------------------------------------------------------
(* Properties                                                              *)

ClientStates ==
  {Away, [pc |-> "creating", sandbox |-> Nobody]}
    \cup [pc : {"using", "executing"}, sandbox : Sandboxes]

\* Every variable keeps its type.
TypeOK ==
  /\ pool \subseteq live /\ live \subseteq running /\ running \subseteq Sandboxes
  /\ lapses \in Nat /\ timer \subseteq Sandboxes
  /\ status \in [Sandboxes -> {"ready", "busy", "stopping"}]
  /\ project \in [Sandboxes -> Clients \cup {Nobody}]
  /\ client \in [Clients -> ClientStates]
  /\ warming \in Nat
  /\ evicting \subseteq [now : Sandboxes, rest : SUBSET Sandboxes]
  /\ DOMAIN dying \subseteq live /\ \A x \in DOMAIN dying : dying[x] \in BOOLEAN

\* Whatever handlers, timers and loops interleave, a sandbox is either known
\* to the pool or being destroyed, never both and never neither; and each
\* container left running that neither of them knows is a provider's lapse
\* (container.ts destroy and docker.ts swallow it).
NoLeak == /\ live = pool \cup DOMAIN dying
          /\ pool \cap DOMAIN dying = {}
          /\ live \subseteq running /\ Cardinality(running \ live) <= lapses

\* acquire() never hands one sandbox to two clients.
ExclusiveUse ==
  \A c, d \in Clients :
    client[c].sandbox # Nobody /\ client[c].sandbox = client[d].sandbox => c = d
=============================================================================
