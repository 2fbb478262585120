-------------------------- MODULE MCSessionControl --------------------------
(***************************************************************************)
(* SessionControl for TLC: the actors of a run are one of several small    *)
(* sets; the others have been and gone when it starts.  In some of these   *)
(* sets, the larger ones, the last attempt of every task has come, its     *)
(* mode has a single phase, and the orchestrator has restarted before.     *)
(***************************************************************************)
EXTENDS SessionControl

CONSTANTS
  Casts,  \* sets of tasks and requests that take part together
  Brief   \* those that have nothing to repeat

ASSUME CastsOfActors == Casts \subseteq SUBSET Objects /\ Brief \subseteq Casts

Entrant(pc, cast) ==
  IF cast \in Brief THEN [Apart(pc, "none", MaxAttempts) EXCEPT !.left = 1]
                    ELSE Apart(pc, "none", 1)

MCInit ==
  \E cast \in Casts :
    /\ row = "active"
    /\ active = None /\ status = [o \in Objects |-> "idle"] /\ human = FALSE
    /\ tasks = [t \in Tasks |-> Entrant(IF t \in cast THEN "idle" ELSE "done", cast)]
    /\ requests = [r \in Requests |-> IF r \in cast THEN NewRequest
                                                    ELSE [NewRequest EXCEPT !.pc = "over"]]
    /\ restarts = IF cast \in Brief THEN MaxRestarts ELSE 0
    /\ crossed = FALSE /\ late = FALSE /\ early = {}

MCSpec == MCInit /\ [][Next]_vars /\ Fairness
=============================================================================
