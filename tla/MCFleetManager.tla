--------------------------- MODULE MCFleetManager ---------------------------
(* Small fleets for TLC. *)
EXTENDS FleetManager, TLC

CONSTANTS a, b, c

Three == {a, b, c}

Waits(da, db, dc) == (a :> da) @@ (b :> db) @@ (c :> dc)

\* A task that waits for another, and one that waits for a task that does not
\* exist; a task that waits for one that can run and for one on a cycle.
Pairs == {Waits({}, {a}, {c}), Waits({}, {a, c}, {b})}

\* Two tasks side by side and one that waits for both.
Join == Waits({}, {}, {a, b})

\* Three tasks side by side, one more than the tier.
Crowd == Waits({}, {}, {})

Shapes == Pairs \cup {Join, Crowd}

\* Operators whose calls overlap or fail get at most two agents, and three
\* agents in two chunks are left alone; one agent is muddled at most.
SmallCrowds ==
  /\ deps = Join => call["q"] = NoCall /\ muddled = {}
  /\ deps = Crowd => call = [o \in Caller |-> NoCall]
  /\ Cardinality(muddled) <= 1

=============================================================================
