-------------------------- MODULE MCExecutionEngine --------------------------
(* Small answers for TLC. *)
EXTENDS ExecutionEngine

\* Every list of up to three calls, and one where two files are both written
\* twice.
SmallAnswers ==
  UNION {[1..n -> Call] : n \in 1..3} \cup {<<"f", "g", "g", "f">>}

=============================================================================
