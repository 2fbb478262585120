--------------------------- MODULE MCSandboxPool ---------------------------
(***************************************************************************)
(* SandboxPool for TLC, with two history variables: whether a creation     *)
(* failed or evictExcess() ever ran, neither of which replenishes the pool *)
(* afterwards; and the sandboxes handed to a client while another used     *)
(* them, until nobody does any more.                                       *)
(***************************************************************************)
EXTENDS SandboxPool, TLC

VARIABLES short, shared

history == <<short, shared>>

\* Users are interchangeable, and so are sandboxes.
Symmetry == Permutations(Clients) \cup Permutations(Sandboxes)

Shortens == evicting' # {} \/ (warming' < warming /\ live' = live)

Users(x) == {c \in Clients : client[c].sandbox = x}

MCInit == Init /\ short = FALSE /\ shared = {}
MCNext ==
  /\ Next
  /\ short' = (short \/ Shortens)
  /\ shared' = {x \in Sandboxes : \E c \in Users(x)' : x \in shared \/ Users(x)' # {c}}
MCSpec == MCInit /\ [][MCNext]_<<vars, history>>

\* A sandbox that replenishPool() follows is still being destroyed.
Pending == \E x \in DOMAIN dying : dying[x]

AtRest == warming = 0 /\ ~ Pending

\* The sandboxes that are idle, or that a command only keeps from being so:
\* replenishPool() takes a sandbox between two commands for idle, and the
\* start of the next one takes it away unnoticed.
Warm == {x \in pool : status[x] = "ready" \/ \E c \in Users(x) : client[c].pc = "executing"}

\* Once no replenishment is under way or due, the warm sandboxes are all
\* there, or the pool is full: every path that takes an idle sandbox away,
\* but a command and evictExcess(), replenishes in time.
RefilledAtRest ==
  AtRest /\ ~ short
    => Cardinality(Warm) >= WarmPoolSize \/ Cardinality(pool) >= MaxPoolSize

\* Its client c runs a command in x, or has been handed it out of the pool
\* and has not run one yet; and nobody shares x.
Engaged(c, x) ==
  /\ client[c].sandbox = x /\ x \notin shared
  /\ client[c].pc = "executing" \/ (status[x] = "busy" /\ x \in pool)

\* Timers, the cleanup cycle and the other clients' requests never take a
\* sandbox out of the pool under a command (evictExcess() may).
KeptWhileEngaged ==
  [][evicting' = evicting =>
       \A c \in Clients, x \in pool : Engaged(c, x) /\ client'[c].sandbox = x => x \in pool']_vars

\* A sandbox is handed to a second client only between two commands of the
\* first, never under one.
AloneWhileEngaged ==
  [][\A c, d \in Clients, x \in Sandboxes :
       Engaged(c, x) /\ client'[c].sandbox = x /\ c # d => client'[d].sandbox # x]_vars
=============================================================================
