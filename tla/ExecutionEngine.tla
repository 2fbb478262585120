--------------------------- MODULE ExecutionEngine ---------------------------
(***************************************************************************)
(* ExecutionEngine.execute() (orchestrator, engine/execution-engine.ts):   *)
(* the async generator that asks the model, executes the tool calls of its *)
(* answers and yields events to AgentLoop.                                 *)
(*                                                                         *)
(* The events of an iteration are collected and yielded when it is over.   *)
(* Progress events (tokens, credits, tool calls and results, confidence,   *)
(* checkpoints, an error to be retried) are one "note" each batch: the     *)
(* consumer only tells them from the end of the stream.  Between two       *)
(* events the generator waits for the consumer, which may take its time    *)
(* (a pause) or leave (a stop, a publication that throws).                 *)
(*                                                                         *)
(* Left out: prompts, contexts and their compression (which only adds      *)
(* messages), token and credit sums, the model slot, delays, the           *)
(* recoveries that only add a prompt, and the saved checkpoints.           *)
(***************************************************************************)
EXTENDS ToolGroups, FiniteSets

CONSTANTS
  MaxIterations,      \* ctx.options.maxIterations
  Answers,            \* the lists of tool calls considered
  BlockerThreshold    \* BLOCKER_THRESHOLD, 3 in the code

ASSUME SomeIterations == MaxIterations \in Nat \ {0}
ASSUME AnswersAreCalls == Answers \subseteq Seq(Call) \ {<<>>}
ASSUME ErrorsAreRetried == BlockerThreshold \in Nat /\ BlockerThreshold > 1

VARIABLES
  at,          \* "starting", "asking" the model, "acting", "yielding", "over"
  iteration,   \* i
  errors,      \* iterState.consecutiveErrors: model calls failed in a row
  failures,    \* consecutiveFailures: tool executions that threw in a row
  calls,       \* the tool calls of the last answer that had some
  stage,       \* where the execution of each of them is
  results,     \* how many results the agent's messages hold for each
  torn,        \* history: those whose guard, or what followed it, threw
  buffer,      \* events of the iteration not yet yielded
  action,      \* IterationOutcome.action: what follows them
  held,        \* the consumer is in the body of its loop, with an event
  seen,        \* history: what the consumer was told
  how,         \* history: how the generator ended, "running" before
  monitored    \* the watchdog's interval timer is armed

work == <<calls, stage, results, torn>>
stream == <<buffer, action, held, seen, how>>
vars == <<at, iteration, errors, failures, work, stream, monitored>>

Stages == {"waiting", "running", "checking", "over"}

Init ==
  /\ at = "starting" /\ iteration = 0
  /\ errors = 0 /\ failures = 0
  /\ calls = <<>> /\ stage = <<>> /\ results = <<>> /\ torn = {}
  /\ buffer = <<>> /\ action = "continue" /\ held = FALSE
  /\ seen = "silent" /\ how = "running"
  /\ monitored = FALSE

\* An iteration is over: its events are yielded, then `next` follows.
Yields(events, next) ==
  /\ at' = "yielding"
  /\ buffer' = events /\ action' = next
  /\ UNCHANGED <<held, seen, how>>

\* buildFailureComplete() after the error that announces it, alone or at the
\* end of an iteration.
Failure == <<"error", "failure">>
Stopped == <<"note", "error", "failure">>

-----------------------------------------------------------------------------
(* The start                                                               *)

\* The role is unknown: one error, and no "complete" event.
Refuse ==
  /\ at = "starting"
  /\ Yields(<<"error">>, "return")
  /\ UNCHANGED <<iteration, errors, failures, work, monitored>>

\* Monitoring starts, then the contexts are injected (what fails there is
\* caught and logged).
Start ==
  /\ at = "starting"
  /\ at' = "asking" /\ monitored' = TRUE
  /\ UNCHANGED <<iteration, errors, failures, work, stream>>

-----------------------------------------------------------------------------
(* The model's answer                                                      *)

\* mutant: the blocked run is not completed.
ModelFailsSilently ==
  /\ at = "asking"
  /\ errors' = errors + 1
  /\ IF errors + 1 >= BlockerThreshold
     THEN Yields(<<"error">>, "return")
     ELSE Yields(<<"note">>, "continue")
  /\ UNCHANGED <<iteration, failures, work, monitored>>

\* mutant: one failure more.
ModelFailsLate ==
  /\ at = "asking"
  /\ errors' = errors + 1
  /\ IF errors + 1 > BlockerThreshold
     THEN Yields(Failure, "return")
     ELSE Yields(<<"note">>, "continue")
  /\ UNCHANGED <<iteration, failures, work, monitored>>

\* processLLMFailure(): the breaker is open, the call timed out or was
\* answered by an error.
ModelFails ==
  /\ at = "asking"
  /\ errors' = errors + 1
  /\ IF errors + 1 >= BlockerThreshold
     THEN Yields(Failure, "return")
     ELSE Yields(<<"note">>, "continue")
  /\ UNCHANGED <<iteration, failures, work, monitored>>

\* parseResponseChoice(): no choice at all, or a message without tool calls.
ModelSpeaks ==
  /\ at = "asking"
  /\ errors' = 0
  /\ \E next \in {"continue", "break"} : Yields(<<"note">>, next)
  /\ UNCHANGED <<iteration, failures, work, monitored>>

\* The message has tool calls: they join the agent's messages.
ModelCalls ==
  /\ at = "asking"
  /\ errors' = 0
  /\ at' = "acting"
  /\ \E a \in Answers :
       /\ calls' = a
       /\ stage' = [c \in DOMAIN a |-> "waiting"]
       /\ results' = [c \in DOMAIN a |-> 0]
  /\ torn' = {}
  /\ UNCHANGED <<iteration, failures, stream, monitored>>

\* What no handler catches: a response body that breaks off, an answer
\* without the fields expected, tool arguments that are not an object.
Throws ==
  /\ at' = "over" /\ how' = "threw"
  /\ UNCHANGED <<iteration, errors, failures, calls, results, buffer, action, held, seen, monitored>>

ModelGarbles == at = "asking" /\ Throws /\ UNCHANGED <<stage, torn>>

-----------------------------------------------------------------------------
(* executeToolGroups()                                                     *)

At(s) == {c \in DOMAIN calls : stage[c] = s}
InFlight == At("running") \cup At("checking")

\* The next group: each of its calls up to its first await.
StartGroup ==
  /\ at = "acting" /\ InFlight = {} /\ failures < BlockerThreshold
  /\ At("waiting") # {}
  /\ stage' = [c \in DOMAIN calls |->
                 IF c \in NextGroup(calls, At("waiting")) THEN "running" ELSE stage[c]]
  /\ UNCHANGED <<at, iteration, errors, failures, calls, results, torn, stream, monitored>>

\* A call goes from one stage to another, with n more results for the agent
\* and f failures in a row.
Moves(c, from, to, n, f) ==
  /\ at = "acting" /\ c \in At(from)
  /\ stage' = [stage EXCEPT ![c] = to]
  /\ results' = [results EXCEPT ![c] = @ + n]
  /\ failures' = f
  /\ UNCHANGED <<at, iteration, errors, calls, stream, monitored>>

\* mutant: the agent is not told the result.
CallEndsMute(c) == Moves(c, "running", "over", 0, 0) /\ UNCHANGED torn

\* The call is refused by a guard, names no known tool, or is a call other
\* than a write that returned, whatever its result says.
CallEnds(c) == Moves(c, "running", "over", 1, 0) /\ UNCHANGED torn

\* toolDef.execute() throws.
CallFails(c) == Moves(c, "running", "over", 1, failures + 1) /\ UNCHANGED torn

\* A write returned: the agent has its result, the file is validated.
WriteReturns(c) ==
  calls[c] \in Path /\ Moves(c, "running", "checking", 1, failures) /\ UNCHANGED torn

CheckEnds(c) == Moves(c, "checking", "over", 0, 0) /\ UNCHANGED torn

\* What follows an execution that returned throws into the handler of a failed
\* one, which gives the agent a second result: the validation of a file, or
\* the reading of a result that is not of the type declared.
CheckFails(c) ==
  /\ \/ Moves(c, "checking", "over", 1, failures + 1)
     \/ Moves(c, "running", "over", 2, failures + 1)
  /\ torn' = torn \cup {c}

\* mutant: Promise.all() in place of Promise.allSettled().
GuardThrowsAll(c) ==
  /\ at = "acting" /\ c \in At("running") /\ Throws
  /\ stage' = [stage EXCEPT ![c] = "over"] /\ torn' = torn \cup {c}

\* A guard throws, before anything is executed.  Promise.allSettled() drops
\* the call of a parallel group; a call on its own ends the generator.
GuardThrows(c) ==
  /\ IF Accompanied(calls, c)
     THEN Moves(c, "running", "over", 0, failures)
     ELSE /\ at = "acting" /\ c \in At("running") /\ Throws
          /\ stage' = [stage EXCEPT ![c] = "over"]
  /\ torn' = torn \cup {c}

-----------------------------------------------------------------------------
(* After the groups                                                        *)

\* Blocked by failures in a row, escalated for lack of confidence, aborted by
\* the watchdog (which alone disarms its timer), or on to the next iteration.
GroupsEnd ==
  /\ at = "acting" /\ InFlight = {}
  /\ \/ /\ failures >= BlockerThreshold \/ At("waiting") = {}
        /\ Yields(Stopped, "return")
        /\ monitored' \in IF failures < BlockerThreshold THEN {monitored, FALSE} ELSE {monitored}
     \/ /\ failures < BlockerThreshold /\ At("waiting") = {}
        /\ Yields(<<"note">>, "continue")
        /\ UNCHANGED monitored
  /\ UNCHANGED <<iteration, errors, failures, work>>

-----------------------------------------------------------------------------
(* The consumer                                                            *)

Told(event) ==
  CASE event = "note"    -> "open"
    [] event = "error"   -> IF seen = "silent" THEN "refused" ELSE "failing"
    [] event = "failure" -> "failed"
    [] event = "success" -> "succeeded"

Yield ==
  /\ at = "yielding" /\ ~held /\ buffer # <<>>
  /\ held' = TRUE
  /\ seen' = Told(Head(buffer))
  /\ buffer' = Tail(buffer)
  /\ UNCHANGED <<at, iteration, errors, failures, work, action, how, monitored>>

\* The consumer asks for the next event of the iteration ...
AskEvent ==
  /\ held /\ buffer # <<>>
  /\ held' = FALSE
  /\ UNCHANGED <<at, iteration, errors, failures, work, buffer, action, seen, how, monitored>>

\* mutant: the iterations are not counted.
AskIterationFree ==
  /\ held /\ buffer = <<>> /\ action = "continue"
  /\ held' = FALSE
  /\ at' = "asking"
  /\ UNCHANGED <<iteration, errors, failures, work, buffer, action, seen, how, monitored>>

\* ... and the generator goes on with the next iteration, ...
AskIteration ==
  /\ held /\ buffer = <<>> /\ action = "continue" /\ iteration + 1 < MaxIterations
  /\ held' = FALSE
  /\ at' = "asking" /\ iteration' = iteration + 1
  /\ UNCHANGED <<errors, failures, work, buffer, action, seen, how, monitored>>

\* ... completes, when the agent is done or its iterations are used up, ...
AskCompletion ==
  /\ held /\ buffer = <<>>
  /\ action = "break" \/ (action = "continue" /\ iteration + 1 >= MaxIterations)
  /\ held' = FALSE
  /\ monitored' = FALSE
  /\ buffer' = <<"success">> /\ action' = "return"
  /\ UNCHANGED <<at, iteration, errors, failures, work, seen, how>>

\* ... or returns.
AskEnd ==
  /\ held /\ buffer = <<>> /\ action = "return"
  /\ held' = FALSE
  /\ at' = "over" /\ how' = "returned"
  /\ UNCHANGED <<iteration, errors, failures, work, buffer, action, seen, monitored>>

\* The consumer breaks out of its loop, or throws: generator.return().
Leave ==
  /\ held
  /\ held' = FALSE
  /\ at' = "over" /\ how' = "abandoned"
  /\ UNCHANGED <<iteration, errors, failures, work, buffer, action, seen, monitored>>

-----------------------------------------------------------------------------

Model == ModelFails \/ ModelSpeaks \/ ModelCalls \/ ModelGarbles
Tool(c) ==
  \/ CallEnds(c) \/ CallFails(c) \/ WriteReturns(c)
  \/ CheckEnds(c) \/ CheckFails(c) \/ GuardThrows(c)
Engine == Refuse \/ Start \/ Model \/ StartGroup \/ GroupsEnd \/ Yield
Ask == AskEvent \/ AskIteration \/ AskCompletion \/ AskEnd

Next == Engine \/ (\E c \in DOMAIN calls : Tool(c)) \/ Ask \/ Leave

Spec == Init /\ [][Next]_vars

\* A call of the model times out, a tool ends by the timeout it has or, where it
\* gives its request none, by the default ones of the runtime's fetch(), and the
\* consumer comes back for the next event or leaves.
FairSpec ==
  /\ Spec
  /\ WF_vars(Engine) /\ WF_vars(Ask)
  /\ \A c \in UNION {DOMAIN a : a \in Answers} : WF_vars(c \in DOMAIN calls /\ Tool(c))

-----------------------------------------------------------------------------
(* Properties                                                              *)

TypeOK ==
  /\ at \in {"starting", "asking", "acting", "yielding", "over"}
  /\ iteration \in 0..(MaxIterations - 1)
  /\ errors \in 0..BlockerThreshold /\ failures \in Nat
  /\ calls \in Answers \cup {<<>>}
  /\ stage \in [DOMAIN calls -> Stages]
  /\ results \in [DOMAIN calls -> 0..2]
  /\ torn \subseteq DOMAIN calls
  /\ buffer \in Seq({"note", "error", "failure", "success"})
  /\ action \in {"continue", "break", "return"}
  /\ held \in BOOLEAN /\ monitored \in BOOLEAN
  /\ seen \in {"silent", "open", "refused", "failing", "failed", "succeeded"}
  /\ how \in {"running", "returned", "threw", "abandoned"}

\* AgentLoop tracks the last "complete" event and reports what it says: the
\* stream keeps the contract that makes that sound.
Contract == INSTANCE EventStream
KeepsContract == Contract!Spec

\* "Write tools to the SAME file must be sequential", in the order listed;
\* commands run alone and in order; a file is written after the reads.
SafeOrder ==
  /\ \A c, d \in DOMAIN calls :
       /\ stage[d] # "waiting"
       /\ \/ calls[c] = calls[d] /\ c < d /\ calls[c] # "read"
          \/ calls[c] = "read" /\ calls[d] # "read"
       => stage[c] = "over"
  /\ \A c \in InFlight : calls[c] = "command" => InFlight = {c}

\* The model is asked again with one result for each tool call of its last
\* answer, but for those whose guard threw (none) and those that returned
\* before their validation or the reading of their result threw (two).
AnsweredOnce == at = "asking" => \A c \in DOMAIN calls : results[c] = 1 \/ c \in torn

\* No tool call is being executed when the generator waits for its consumer or
\* is over: an agent that is stopped has stopped.  What a call has only started
\* (a command in the background of the sandbox) outlives it and is not meant.
Quiet == at # "acting" => InFlight = {}

\* Whatever the model answers and the tools do, the stream ends.
StreamEnds == <>(how # "running")

=============================================================================
