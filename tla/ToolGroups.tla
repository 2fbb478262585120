----------------------------- MODULE ToolGroups -----------------------------
(***************************************************************************)
(* classifyToolDependencies() (tool-dependency.ts): in which order, and    *)
(* which ones together, the tool calls of one model answer are executed.   *)
(*                                                                         *)
(* A call is what the classification sees of it: "read" (the tools listed  *)
(* as reading only, and every tool it does not know), "command" (the tools *)
(* listed as sequential, and writes that name no file), or the path of the *)
(* file it writes.  An answer is the sequence of its calls.                *)
(***************************************************************************)
EXTENDS Integers, Sequences

CONSTANT Path

ASSUME PathsAreNotKinds == {"read", "command"} \cap Path = {}

Call == {"read", "command"} \cup Path

\* No call before c writes the same file.
IsFirst(a, c) == \A d \in 1..(c - 1) : a[d] # a[c]

FirstWrite(a, c) == CHOOSE f \in DOMAIN a : a[f] = a[c] /\ IsFirst(a, f)

\* mutant: every write joins the parallel group.
ClassAllWrites(a, c) ==
  CASE a[c] = "read" -> 0 [] a[c] = "command" -> 2 [] OTHER -> 1

\* All the reads together, then the first write to each file together, then
\* the commands one by one, then the other writes one by one.
Class(a, c) ==
  CASE a[c] = "read"    -> 0
    [] a[c] = "command" -> 2
    [] OTHER            -> IF IsFirst(a, c) THEN 1 ELSE 3

\* Call c is in a group before that of d.  Commands keep the order listed;
\* the other writes are listed file by file, as the first writes are.
Earlier(a, c, d) ==
  \/ Class(a, c) < Class(a, d)
  \/ Class(a, c) = 2 /\ Class(a, d) = 2 /\ c < d
  \/ /\ Class(a, c) = 3 /\ Class(a, d) = 3
     /\ IF a[c] = a[d] THEN c < d ELSE FirstWrite(a, c) < FirstWrite(a, d)

\* The next group among the calls that wait.
NextGroup(a, waiting) == {c \in waiting : \A d \in waiting : ~Earlier(a, d, c)}

\* Call c is in a group with others.
Accompanied(a, c) == \E d \in DOMAIN a \ {c} : ~Earlier(a, c, d) /\ ~Earlier(a, d, c)

=============================================================================
