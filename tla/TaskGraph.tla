------------------------------ MODULE TaskGraph ------------------------------
(***************************************************************************)
(* What running a set of dependent tasks promises, whatever schedules      *)
(* them: a task starts once, after every task it depends on has ended, and *)
(* no more than Limit of them run at a time.                               *)
(***************************************************************************)
EXTENDS Naturals, FiniteSets

CONSTANTS Task, Graphs, Limit

VARIABLES deps, state

Init == deps \in Graphs /\ state = [t \in Task |-> "waiting"]

Is(s) == {t \in Task : state[t] = s}

Start(S) ==
  /\ S \subseteq Is("waiting")
  /\ \A t \in S : deps[t] \subseteq Is("ended")
  /\ Cardinality(Is("running") \cup S) <= Limit
  /\ state' = [t \in Task |-> IF t \in S THEN "running" ELSE state[t]]
  /\ UNCHANGED deps

End(t) ==
  /\ state[t] = "running"
  /\ state' = [state EXCEPT ![t] = "ended"]
  /\ UNCHANGED deps

Next == (\E S \in SUBSET Task : Start(S)) \/ (\E t \in Task : End(t))

Spec == Init /\ [][Next]_<<deps, state>>

\* The tasks on a dependency cycle or behind one: each member of such a set
\* waits for another member.
Blocked(d) == UNION {S \in SUBSET Task : \A t \in S : d[t] \cap S # {}}

=============================================================================
