------------------------ MODULE ExecutionEngineProofs ------------------------
(***************************************************************************)
(* Proofs about ExecutionEngine, for every list of tool calls, number of   *)
(* iterations and blocker threshold.                                       *)
(***************************************************************************)
EXTENDS ExecutionEngine, WellFoundedInduction, TLAPS

\* The calls of a group run after those of the groups before it are over.
Ordered ==
  \A c, d \in DOMAIN calls :
    Earlier(calls, c, d) /\ stage[d] # "waiting" => stage[c] = "over"

\* How many results a call has given at each stage.
Counted ==
  /\ torn \subseteq At("over")
  /\ \A c \in DOMAIN calls :
       results[c] = 1 <=> stage[c] = "checking" \/ (stage[c] = "over" /\ c \notin torn)
  /\ \A c \in DOMAIN calls : stage[c] \in {"waiting", "running"} => results[c] = 0

\* The generator is between two calls of the model, or will be.
GoesOn == at = "asking" \/ (at = "yielding" /\ action # "return")

\* It goes on only when every call of the last answer is over, and while it
\* is not blocked.
Finished ==
  /\ GoesOn => \A c \in DOMAIN calls : stage[c] = "over"
  /\ GoesOn \/ at = "acting" => errors < BlockerThreshold

\* What is left to yield, what follows and what the consumer was told.
Yielding ==
  \/ buffer = <<"error">> /\ action = "return" /\ ~held /\ seen = "silent"
  \/ buffer = <<>> /\ action = "return" /\ held /\ seen \in {"refused", "failed", "succeeded"}
  \/ buffer = <<"note">> /\ action # "return" /\ ~held /\ seen \in {"silent", "open"}
  \/ buffer = <<>> /\ action # "return" /\ held /\ seen = "open"
  \/ buffer = Stopped /\ action = "return" /\ ~held /\ seen \in {"silent", "open"}
  \/ buffer = Failure /\ action = "return" /\ seen = "open"
  \/ buffer = <<"failure">> /\ action = "return" /\ seen = "failing"
  \/ buffer = <<"success">> /\ action = "return" /\ ~held /\ seen = "open"

Streaming ==
  /\ how = "running" <=> at # "over"
  /\ held => at = "yielding"
  /\ at = "starting" => seen = "silent" /\ calls = <<>> /\ iteration = 0 /\ errors = 0
  /\ at \in {"asking", "acting"} => seen \in {"silent", "open"}
  /\ at \in {"asking", "acting"} /\ seen = "silent" => errors = 0
  /\ at = "yielding" => Yielding

IInv == TypeOK /\ Ordered /\ Counted /\ Finished /\ Streaming /\ Quiet

-----------------------------------------------------------------------------
(* The classification                                                      *)

\* An answer is a sequence of calls.
LEMMA CallsAreNumbered ==
  ASSUME TypeOK
  PROVE  /\ calls \in Seq(Call)
         /\ \A c \in DOMAIN calls : c \in Int /\ calls[c] \in Call
<1>1. calls \in Seq(Call)
  <2>1. CASE calls \in Answers
    BY <2>1, AnswersAreCalls
  <2>2. CASE calls = <<>>
    BY <2>2
  <2> QED
    BY <2>1, <2>2 DEF TypeOK
<1> QED
  BY <1>1

\* Two calls of which one is a command are never in one group.
LEMMA CommandsApart ==
  ASSUME TypeOK, NEW c \in DOMAIN calls, NEW d \in DOMAIN calls, c # d,
         calls[c] = "command"
  PROVE  Earlier(calls, c, d) \/ Earlier(calls, d, c)
BY CallsAreNumbered DEF Earlier, Class

\* Two writes of one file, or two commands, are in the order listed.
LEMMA SameKindInOrder ==
  ASSUME TypeOK, NEW c \in DOMAIN calls, NEW d \in DOMAIN calls, c < d,
         calls[c] = calls[d], calls[c] # "read"
  PROVE  Earlier(calls, c, d)
<1>1. c \in 1..(d - 1)
  BY CallsAreNumbered
<1>2. ~IsFirst(calls, d)
  BY <1>1 DEF IsFirst
<1> QED
  BY <1>2, CallsAreNumbered DEF Earlier, Class

\* Reads come before everything else.
LEMMA ReadsFirst ==
  ASSUME NEW c \in DOMAIN calls, NEW d \in DOMAIN calls,
         calls[c] = "read", calls[d] # "read"
  PROVE  Earlier(calls, c, d)
BY DEF Earlier, Class

\* The order of the groups is what the classification promises.
LEMMA OrderIsSafe == TypeOK /\ Ordered => SafeOrder
<1> SUFFICES ASSUME TypeOK, Ordered PROVE SafeOrder
  OBVIOUS
<1>1. ASSUME NEW c \in DOMAIN calls, NEW d \in DOMAIN calls, stage[d] # "waiting",
             \/ calls[c] = calls[d] /\ c < d /\ calls[c] # "read"
             \/ calls[c] = "read" /\ calls[d] # "read"
      PROVE  stage[c] = "over"
  BY <1>1, SameKindInOrder, ReadsFirst DEF Ordered
<1>2. ASSUME NEW c \in InFlight, calls[c] = "command"
      PROVE  InFlight = {c}
  <2>1. ASSUME NEW d \in InFlight, d # c PROVE FALSE
    <3>1. c \in DOMAIN calls /\ d \in DOMAIN calls
      BY DEF InFlight, At
    <3>2. /\ stage[c] # "waiting" /\ stage[c] # "over"
          /\ stage[d] # "waiting" /\ stage[d] # "over"
      BY DEF InFlight, At
    <3> QED
      BY <1>2, <2>1, <3>1, <3>2, CommandsApart DEF Ordered
  <2> QED
    BY <2>1
<1> QED
  BY <1>1, <1>2 DEF SafeOrder

-----------------------------------------------------------------------------
(* The executions                                                          *)

\* A step of a call in flight changes that call only, and takes it to a
\* later stage.
Advances(c) ==
  /\ at = "acting" /\ c \in InFlight
  /\ \E to \in {"checking", "over"} : stage' = [stage EXCEPT ![c] = to]
  /\ calls' = calls

LEMMA ToolAdvances ==
  ASSUME NEW c \in DOMAIN calls, Tool(c)
  PROVE  Advances(c)
BY DEF Tool, CallEnds, CallFails, WriteReturns, CheckEnds, CheckFails, GuardThrows, Moves,
       Throws, Advances, InFlight

LEMMA AdvanceKeepsOrder ==
  ASSUME TypeOK, Ordered, NEW c \in DOMAIN calls, Advances(c)
  PROVE  Ordered'
<1> SUFFICES ASSUME NEW e \in DOMAIN calls, NEW d \in DOMAIN calls,
                    Earlier(calls, e, d), stage'[d] # "waiting"
             PROVE  stage'[e] = "over"
  BY DEF Ordered, Advances
<1>1. stage \in [DOMAIN calls -> Stages]
  BY DEF TypeOK
<1>2. stage[c] # "waiting" /\ stage[c] # "over"
  BY DEF Advances, InFlight, At
<1>3. stage[d] # "waiting"
  BY <1>1, <1>2 DEF Advances
<1>4. stage[e] = "over"
  BY <1>3 DEF Ordered
<1> QED
  BY <1>1, <1>2, <1>4 DEF Advances

LEMMA GroupKeepsOrder ==
  ASSUME TypeOK, Ordered, StartGroup
  PROVE  Ordered'
<1> SUFFICES ASSUME NEW e \in DOMAIN calls, NEW d \in DOMAIN calls,
                    Earlier(calls, e, d), stage'[d] # "waiting"
             PROVE  stage'[e] = "over"
  BY DEF Ordered, StartGroup
<1> DEFINE Group == NextGroup(calls, At("waiting"))
<1>1. /\ stage \in [DOMAIN calls -> Stages]
      /\ stage' = [x \in DOMAIN calls |-> IF x \in Group THEN "running" ELSE stage[x]]
      /\ InFlight = {}
  BY DEF TypeOK, StartGroup
<1>2. Group \subseteq At("waiting")
  BY DEF NextGroup
<1>3. stage[e] # "waiting"
  <2>1. CASE d \in Group
    BY <2>1 DEF NextGroup, At
  <2>2. CASE d \notin Group
    BY <1>1, <2>2 DEF Ordered
  <2> QED
    BY <2>1, <2>2
<1>4. stage[e] = "over"
  BY <1>1, <1>3 DEF InFlight, At, Stages
<1>5. e \notin Group
  BY <1>2, <1>4 DEF At
<1> QED
  BY <1>1, <1>4, <1>5

LEMMA AdvanceKeepsTypes ==
  ASSUME TypeOK, Counted, NEW c \in DOMAIN calls, Tool(c)
  PROVE  TypeOK'
<1> USE DEF TypeOK
<1>1. /\ stage' \in [DOMAIN calls' -> Stages] /\ torn' \subseteq DOMAIN calls'
      /\ failures' \in Nat
  BY DEF Tool, CallEnds, CallFails, WriteReturns, CheckEnds, CheckFails, GuardThrows, Moves,
         Throws, Stages
<1>2. results' \in [DOMAIN calls' -> 0..2]
  <2>1. /\ c \in At("running") => results[c] = 0
        /\ c \in At("checking") => results[c] = 1
    BY DEF Counted, At
  <2> QED
    BY <2>1 DEF Tool, CallEnds, CallFails, WriteReturns, CheckEnds, CheckFails, GuardThrows,
         Moves, Throws
<1>3. /\ at' \in {"acting", "over"} /\ how' \in {how, "threw"}
      /\ UNCHANGED <<iteration, errors, calls, buffer, action, held, seen, monitored>>
  BY DEF Tool, CallEnds, CallFails, WriteReturns, CheckEnds, CheckFails, GuardThrows, Moves,
         Throws, stream
<1> QED
  BY <1>1, <1>2, <1>3

LEMMA ToolCounts ==
  ASSUME TypeOK, Counted, NEW c \in DOMAIN calls, Tool(c)
  PROVE  Counted'
<1> SUFFICES ASSUME NEW from \in {"running", "checking"}, NEW to \in {"checking", "over"},
                    c \in At(from), stage' = [stage EXCEPT ![c] = to], calls' = calls,
                    NEW n \in 0..2, results' = [results EXCEPT ![c] = @ + n],
                    \/ from = "running" /\ n = 1 /\ torn' = torn
                    \/ from = "checking" /\ n = 0 /\ to = "over" /\ torn' = torn
                    \/ n = 1 /\ from = "checking" /\ to = "over" /\ torn' = torn \cup {c}
                    \/ n \in {0, 2} /\ from = "running" /\ to = "over" /\ torn' = torn \cup {c}
             PROVE  Counted'
  <2>1. CASE CallEnds(c)
    BY <2>1 DEF CallEnds, Moves
  <2>2. CASE CallFails(c)
    BY <2>2 DEF CallFails, Moves
  <2>3. CASE WriteReturns(c)
    BY <2>3 DEF WriteReturns, Moves
  <2>4. CASE CheckEnds(c)
    BY <2>4 DEF CheckEnds, Moves
  <2>5. CASE CheckFails(c)
    BY <2>5 DEF CheckFails, Moves
  <2>6. CASE GuardThrows(c)
    <3>1. results' = [results EXCEPT ![c] = @ + 0]
      BY <2>6 DEF GuardThrows, Moves, Throws, TypeOK
    <3> QED
      BY <2>6, <3>1 DEF GuardThrows, Moves, Throws
  <2> QED
    BY <2>1, <2>2, <2>3, <2>4, <2>5, <2>6 DEF Tool
<1>1. /\ stage \in [DOMAIN calls -> Stages]
      /\ results \in [DOMAIN calls -> 0..2]
      /\ stage[c] = from /\ c \notin torn
  BY DEF TypeOK, Counted, At
<1>2. from = "running" => results[c] = 0
  BY <1>1 DEF Counted
<1>3. from = "checking" => results[c] = 1
  BY <1>1 DEF Counted
<1>4. torn' \subseteq At("over")'
  BY <1>1 DEF Counted, At
<1>5. \A d \in DOMAIN calls \ {c} :
        stage'[d] = stage[d] /\ results'[d] = results[d] /\ (d \in torn' <=> d \in torn)
  BY <1>1
<1>6. stage'[c] = to /\ results'[c] = results[c] + n
  BY <1>1
<1>7. \A d \in DOMAIN calls' :
        results'[d] = 1 <=> stage'[d] = "checking" \/ (stage'[d] = "over" /\ d \notin torn')
  BY <1>1, <1>2, <1>3, <1>5, <1>6 DEF Counted
<1>8. \A d \in DOMAIN calls' : stage'[d] \in {"waiting", "running"} => results'[d] = 0
  BY <1>5, <1>6 DEF Counted
<1> QED
  BY <1>4, <1>7, <1>8 DEF Counted

\* The steps that leave the executions alone.
Apart == UNCHANGED work /\ (at = "acting" => InFlight = {})

LEMMA OthersApart ==
  ASSUME Refuse \/ Start \/ ModelFails \/ ModelSpeaks \/ ModelGarbles \/ GroupsEnd \/ Yield
           \/ Ask \/ Leave,
         Streaming
  PROVE  Apart
BY DEF Refuse, Start, ModelFails, ModelSpeaks, ModelGarbles, Throws, GroupsEnd, Yield, Ask,
       AskEvent, AskIteration, AskCompletion, AskEnd, Leave, Apart, work, Streaming

LEMMA StartGroupCounts ==
  ASSUME TypeOK, Counted, StartGroup
  PROVE  TypeOK' /\ Counted'
<1>1. NextGroup(calls, At("waiting")) \subseteq At("waiting")
  BY DEF NextGroup
<1>2. TypeOK'
  BY DEF TypeOK, StartGroup, stream, Stages
<1>3. Counted'
  BY <1>1 DEF TypeOK, Counted, StartGroup, At
<1> QED
  BY <1>2, <1>3

LEMMA CallsAreNew ==
  ASSUME TypeOK, ModelCalls
  PROVE  TypeOK' /\ Ordered' /\ Counted'
<1> PICK a \in Answers : /\ calls' = a
                         /\ stage' = [c \in DOMAIN a |-> "waiting"]
                         /\ results' = [c \in DOMAIN a |-> 0]
  BY DEF ModelCalls
<1>1. TypeOK'
  <2>1. /\ calls' \in Answers \cup {<<>>}
        /\ stage' \in [DOMAIN calls' -> Stages] /\ results' \in [DOMAIN calls' -> 0..2]
    BY DEF Stages
  <2>2. /\ torn' = {} /\ errors' = 0 /\ at' = "acting"
        /\ UNCHANGED <<iteration, failures, buffer, action, held, seen, how, monitored>>
    BY DEF ModelCalls, stream
  <2>3. 0 \in 0..BlockerThreshold
    BY ErrorsAreRetried
  <2> QED
    BY <2>1, <2>2, <2>3 DEF TypeOK
<1>2. Ordered' /\ Counted'
  BY DEF Ordered, Counted, ModelCalls, At
<1> QED
  BY <1>1, <1>2

\* A guard that ends the generator ends the only call in flight.
LEMMA ToolIsQuiet ==
  ASSUME TypeOK, Ordered, NEW c \in DOMAIN calls, Tool(c)
  PROVE  Quiet'
<1>1. CASE at' = "acting"
  BY <1>1 DEF Quiet
<1>2. CASE at' # "acting"
  <2>1. ~Accompanied(calls, c) /\ stage' = [stage EXCEPT ![c] = "over"] /\ calls' = calls
    BY <1>2 DEF Tool, CallEnds, CallFails, WriteReturns, CheckEnds, CheckFails, GuardThrows,
         Moves, Throws
  <2>2. c \in At("running")
    BY <1>2 DEF Tool, CallEnds, CallFails, WriteReturns, CheckEnds, CheckFails, GuardThrows,
         Moves
  <2>3. ASSUME NEW d \in InFlight, d # c PROVE FALSE
    <3>1. d \in DOMAIN calls /\ stage[d] # "waiting" /\ stage[d] # "over"
      BY <2>3 DEF InFlight, At
    <3>2. stage[c] # "waiting" /\ stage[c] # "over"
      BY <2>2 DEF At
    <3> QED
      BY <2>1, <2>3, <3>1, <3>2 DEF Accompanied, Ordered
  <2>4. InFlight' = {}
    BY <2>1, <2>3 DEF InFlight, At, TypeOK
  <2> QED
    BY <2>4 DEF Quiet
<1> QED
  BY <1>1, <1>2

\* The executions keep their order and give their results in every step.
LEMMA WorkStep ==
  ASSUME IInv, [Next]_vars
  PROVE  Ordered' /\ Counted' /\ Quiet'
<1> USE DEF IInv
<1>1. CASE ModelCalls
  <2>1. Quiet'
    BY <1>1 DEF ModelCalls, Quiet
  <2> QED
    BY <1>1, <2>1, CallsAreNew
<1>2. CASE StartGroup
  <2>1. Quiet'
    BY <1>2 DEF StartGroup, Quiet
  <2> QED
    BY <1>2, <2>1, StartGroupCounts, GroupKeepsOrder
<1>3. ASSUME NEW c \in DOMAIN calls, Tool(c)
      PROVE  Ordered' /\ Counted' /\ Quiet'
  <2>1. Ordered' /\ Counted'
    BY <1>3, ToolAdvances, AdvanceKeepsOrder, ToolCounts
  <2>2. Quiet'
    BY <1>3, ToolIsQuiet
  <2> QED
    BY <2>1, <2>2
<1>4. CASE \/ Refuse \/ Start \/ ModelFails \/ ModelSpeaks \/ ModelGarbles \/ GroupsEnd
           \/ Yield \/ Ask \/ Leave
  <2>1. Apart
    BY <1>4, OthersApart
  <2> QED
    BY <2>1 DEF Apart, work, Ordered, Counted, Quiet, At, InFlight
<1>5. CASE UNCHANGED vars
  BY <1>5 DEF vars, work, stream, Ordered, Counted, Quiet, At, InFlight
<1> QED
  BY <1>1, <1>2, <1>3, <1>4, <1>5 DEF Next, Engine, Model

-----------------------------------------------------------------------------
(* The stream                                                              *)

LEMMA Buffers ==
  /\ <<"error">> # <<>> /\ <<"note">> # <<>> /\ <<"success">> # <<>> /\ <<"failure">> # <<>>
  /\ Failure # <<>> /\ Stopped # <<>>
  /\ Head(<<"error">>) = "error" /\ Tail(<<"error">>) = <<>>
  /\ Head(<<"note">>) = "note" /\ Tail(<<"note">>) = <<>>
  /\ Head(<<"success">>) = "success" /\ Tail(<<"success">>) = <<>>
  /\ Head(<<"failure">>) = "failure" /\ Tail(<<"failure">>) = <<>>
  /\ Head(Failure) = "error" /\ Tail(Failure) = <<"failure">>
  /\ Head(Stopped) = "note" /\ Tail(Stopped) = Failure
BY DEF Failure, Stopped

\* What a batch of events and its last one make of the stream.
LEMMA YieldKeepsYielding ==
  ASSUME TypeOK, Streaming, Yield
  PROVE  Yielding'
<1>1. /\ at = "yielding" /\ ~held /\ buffer # <<>> /\ held' = TRUE /\ action' = action
      /\ seen' = Told(Head(buffer)) /\ buffer' = Tail(buffer)
  BY DEF Yield
<1>2. Yielding
  BY <1>1 DEF Streaming
<1> USE Buffers
<1>3. CASE buffer = <<"error">> /\ action = "return" /\ seen = "silent"
  BY <1>1, <1>3 DEF Yielding, Told
<1>4. CASE buffer = <<"note">> /\ action # "return"
  BY <1>1, <1>4 DEF Yielding, Told
<1>5. CASE buffer = Stopped /\ action = "return"
  BY <1>1, <1>5 DEF Yielding, Told
<1>6. CASE buffer = Failure /\ action = "return" /\ seen = "open"
  BY <1>1, <1>6 DEF Yielding, Told
<1>7. CASE buffer = <<"failure">> /\ action = "return"
  BY <1>1, <1>7 DEF Yielding, Told
<1>8. CASE buffer = <<"success">> /\ action = "return"
  BY <1>1, <1>8 DEF Yielding, Told
<1> QED
  BY <1>1, <1>2, <1>3, <1>4, <1>5, <1>6, <1>7, <1>8 DEF Yielding

\* The rest of the invariant, step by step: types, what is finished and what
\* is left to yield.
Rest == TypeOK /\ Finished /\ Streaming

LEMMA BatchesAreEvents ==
  {<<>>, <<"error">>, <<"note">>, <<"success">>, <<"failure">>, Failure, Stopped}
    \subseteq Seq({"note", "error", "failure", "success"})
BY DEF Failure, Stopped

\* The end of an iteration that goes on, or of the last one.
LEMMA YieldsStep ==
  ASSUME IInv, NEW events, NEW next \in {"continue", "break", "return"},
         Yields(events, next), at \in {"starting", "asking", "acting"},
         UNCHANGED <<iteration, failures, calls, stage, results, torn>>,
         errors' \in 0..BlockerThreshold, monitored' \in BOOLEAN,
         \/ events = <<"error">> /\ next = "return" /\ seen = "silent"
         \/ /\ events = <<"note">> /\ next # "return"
            /\ errors' < BlockerThreshold /\ \A c \in DOMAIN calls : stage[c] = "over"
         \/ events = Stopped /\ next = "return" /\ seen \in {"silent", "open"}
         \/ events = Failure /\ next = "return" /\ seen = "open"
  PROVE  Rest'
<1>1. at' = "yielding" /\ buffer' = events /\ action' = next /\ UNCHANGED <<held, seen, how>>
  BY DEF Yields
<1>2. ~held /\ how = "running" /\ seen \in {"silent", "open"}
  BY DEF IInv, Streaming
<1>3. TypeOK'
  <2>1. buffer' \in Seq({"note", "error", "failure", "success"})
    BY <1>1, BatchesAreEvents
  <2> QED
    BY <1>1, <2>1 DEF IInv, TypeOK
<1>4. Finished'
  BY <1>1 DEF Finished, GoesOn
<1>5. Yielding'
  BY <1>1, <1>2 DEF Yielding, Failure, Stopped
<1>6. Streaming'
  BY <1>1, <1>2, <1>5 DEF Streaming
<1> QED
  BY <1>3, <1>4, <1>6 DEF Rest

LEMMA StartStep == ASSUME IInv, Refuse \/ Start PROVE Rest'
<1>1. at = "starting" /\ seen = "silent" /\ calls = <<>> /\ errors = 0
  BY DEF Refuse, Start, IInv, Streaming
<1>2. CASE Refuse
  BY <1>1, <1>2, YieldsStep DEF Refuse, work, IInv, TypeOK
<1>3. CASE Start
  <2>1. at' = "asking" /\ monitored' = TRUE
        /\ UNCHANGED <<iteration, errors, failures, calls, stage, results, torn, buffer, action,
                        held, seen, how>>
    BY <1>3 DEF Start, work, stream
  <2>2. TypeOK'
    BY <2>1 DEF IInv, TypeOK
  <2>3. Finished'
    BY <1>1, <2>1, ErrorsAreRetried DEF Finished, GoesOn
  <2>4. Streaming'
    BY <1>1, <2>1 DEF IInv, Streaming
  <2> QED
    BY <2>2, <2>3, <2>4 DEF Rest
<1> QED
  BY <1>2, <1>3

\* What holds while the model is asked.
LEMMA Asking ==
  ASSUME IInv, at = "asking"
  PROVE  /\ errors \in 0..(BlockerThreshold - 1) /\ monitored \in BOOLEAN
         /\ BlockerThreshold \in Nat /\ BlockerThreshold > 1
         /\ seen \in {"silent", "open"} /\ (seen = "silent" => errors = 0)
         /\ \A c \in DOMAIN calls : stage[c] = "over"
BY ErrorsAreRetried DEF IInv, TypeOK, Finished, GoesOn, Streaming

LEMMA ModelFailsStep == ASSUME IInv, ModelFails PROVE Rest'
<1>1. /\ at = "asking" /\ errors' = errors + 1 /\ errors' \in 0..BlockerThreshold
      /\ UNCHANGED <<iteration, failures, calls, stage, results, torn, monitored>>
  BY Asking DEF ModelFails, work
<1>2. CASE errors + 1 >= BlockerThreshold
  <2>1. seen = "open"
    BY <1>1, <1>2, Asking
  <2>2. Yields(Failure, "return")
    BY <1>2 DEF ModelFails
  <2> QED
    BY <1>1, <2>1, <2>2, Asking, YieldsStep
<1>3. CASE ~(errors + 1 >= BlockerThreshold)
  <2>1. errors' < BlockerThreshold
    BY <1>1, <1>3, Asking
  <2>2. Yields(<<"note">>, "continue")
    BY <1>3 DEF ModelFails
  <2> QED
    BY <1>1, <2>1, <2>2, Asking, YieldsStep
<1> QED
  BY <1>2, <1>3

LEMMA ModelSpeaksStep == ASSUME IInv, ModelSpeaks PROVE Rest'
<1>1. PICK next \in {"continue", "break"} : Yields(<<"note">>, next)
  BY DEF ModelSpeaks
<1>2. /\ at = "asking" /\ errors' = 0 /\ 0 \in 0..BlockerThreshold /\ 0 < BlockerThreshold
      /\ UNCHANGED <<iteration, failures, calls, stage, results, torn, monitored>>
  BY Asking DEF ModelSpeaks, work
<1> QED
  BY <1>1, <1>2, Asking, YieldsStep

LEMMA ModelCallsStep == ASSUME IInv, ModelCalls PROVE Rest'
<1>1. TypeOK'
  BY CallsAreNew DEF IInv
<1> QED
  BY <1>1, ErrorsAreRetried DEF IInv, Rest, ModelCalls, Finished, GoesOn, Streaming, stream

LEMMA ModelGarblesStep == ASSUME IInv, ModelGarbles PROVE Rest'
BY DEF IInv, Rest, ModelGarbles, Throws, TypeOK, Finished, GoesOn, Streaming

LEMMA StartGroupStep == ASSUME IInv, StartGroup PROVE Rest'
<1>1. TypeOK'
  BY StartGroupCounts DEF IInv
<1> QED
  BY <1>1 DEF IInv, Rest, StartGroup, Finished, GoesOn, Streaming, stream

LEMMA ToolStep == ASSUME IInv, NEW c \in DOMAIN calls, Tool(c) PROVE Rest'
<1>1. TypeOK'
  BY AdvanceKeepsTypes DEF IInv
<1> DEFINE Goes ==
      /\ at = "acting"
      /\ (at' = "acting" /\ how' = how) \/ (at' = "over" /\ how' = "threw")
      /\ UNCHANGED <<iteration, errors, calls, buffer, action, held, seen>>
<1>2. Goes
  <2>1. ASSUME NEW from, NEW to, NEW n, NEW f, Moves(c, from, to, n, f) PROVE Goes
    BY <2>1 DEF Moves, stream
  <2>2. CASE GuardThrows(c)
    BY <2>1, <2>2 DEF GuardThrows, Throws
  <2> QED
    BY <2>1, <2>2 DEF Tool, CallEnds, CallFails, WriteReturns, CheckEnds, CheckFails
<1> QED
  BY <1>1, <1>2 DEF IInv, Rest, Finished, GoesOn, Streaming

LEMMA GroupsEndStep == ASSUME IInv, GroupsEnd PROVE Rest'
<1>1. At("waiting") = {} => \A c \in DOMAIN calls : stage[c] = "over"
  BY DEF IInv, TypeOK, GroupsEnd, InFlight, At, Stages
<1>2. /\ at = "acting" /\ seen \in {"silent", "open"} /\ monitored' \in BOOLEAN
      /\ errors \in 0..BlockerThreshold /\ errors < BlockerThreshold
      /\ UNCHANGED <<iteration, errors, failures, calls, stage, results, torn>>
  BY DEF IInv, TypeOK, Streaming, Finished, GroupsEnd, work
<1>3. CASE Yields(Stopped, "return")
  BY <1>2, <1>3, YieldsStep
<1>4. CASE At("waiting") = {} /\ Yields(<<"note">>, "continue")
  BY <1>1, <1>2, <1>4, YieldsStep
<1> QED
  BY <1>3, <1>4 DEF GroupsEnd

LEMMA YieldStep == ASSUME IInv, Yield PROVE Rest'
<1>1. Yielding'
  BY YieldKeepsYielding DEF IInv
<1>2. /\ at = "yielding" /\ held' = TRUE
      /\ UNCHANGED <<at, iteration, errors, failures, calls, stage, results, torn, action, how,
                      monitored>>
  BY DEF Yield, work
<1>3. TypeOK'
  <2>1. buffer' \in Seq({"note", "error", "failure", "success"})
    BY <1>1, BatchesAreEvents DEF Yielding
  <2>2. seen' \in {"silent", "open", "refused", "failing", "failed", "succeeded"}
    BY <1>1 DEF Yielding
  <2> QED
    BY <1>2, <2>1, <2>2 DEF IInv, TypeOK
<1>4. Finished'
  BY <1>2 DEF IInv, Finished, GoesOn
<1>5. Streaming'
  BY <1>1, <1>2 DEF IInv, Streaming
<1> QED
  BY <1>3, <1>4, <1>5 DEF Rest

LEMMA AskStep == ASSUME IInv, Ask PROVE Rest'
<1>1. Yielding /\ at = "yielding" /\ how = "running" /\ held
  BY DEF IInv, Ask, AskEvent, AskIteration, AskCompletion, AskEnd, Streaming
<1>2. CASE AskEvent
  <2>1. /\ held' = FALSE /\ buffer # <<>>
        /\ UNCHANGED <<at, iteration, errors, failures, calls, stage, results, torn, buffer,
                        action, seen, how, monitored>>
    BY <1>2 DEF AskEvent, work
  <2>2. Yielding'
    BY <1>1, <2>1 DEF Yielding
  <2>3. TypeOK'
    BY <2>1 DEF IInv, TypeOK
  <2>4. Finished'
    BY <2>1 DEF IInv, Finished, GoesOn
  <2>5. Streaming'
    BY <1>1, <2>1, <2>2 DEF Streaming
  <2> QED
    BY <2>3, <2>4, <2>5 DEF Rest
<1>3. CASE AskIteration
  <2>1. /\ held' = FALSE /\ at' = "asking" /\ iteration' = iteration + 1
        /\ iteration + 1 < MaxIterations /\ buffer = <<>> /\ action = "continue"
        /\ UNCHANGED <<errors, failures, calls, stage, results, torn, buffer, action, seen, how,
                        monitored>>
    BY <1>3 DEF AskIteration, work
  <2>2. seen = "open"
    BY <1>1, <2>1 DEF Yielding
  <2>3. iteration' \in 0..(MaxIterations - 1)
    BY <2>1, SomeIterations DEF IInv, TypeOK
  <2>4. TypeOK'
    BY <2>1, <2>3 DEF IInv, TypeOK
  <2>5. Finished'
    BY <1>1, <2>1 DEF IInv, Finished, GoesOn
  <2>6. Streaming'
    BY <1>1, <2>1, <2>2 DEF Streaming
  <2> QED
    BY <2>4, <2>5, <2>6 DEF Rest
<1>4. CASE AskCompletion
  <2>1. /\ held' = FALSE /\ monitored' = FALSE /\ buffer' = <<"success">> /\ action' = "return"
        /\ buffer = <<>> /\ action # "return"
        /\ UNCHANGED <<at, iteration, errors, failures, calls, stage, results, torn, seen, how>>
    BY <1>4 DEF AskCompletion, work
  <2>2. seen = "open"
    BY <1>1, <2>1 DEF Yielding
  <2>3. Yielding'
    BY <2>1, <2>2 DEF Yielding
  <2>4. TypeOK'
    BY <2>1, BatchesAreEvents DEF IInv, TypeOK
  <2>5. Finished'
    BY <1>1, <2>1 DEF Finished, GoesOn
  <2>6. Streaming'
    BY <1>1, <2>1, <2>3 DEF Streaming
  <2> QED
    BY <2>4, <2>5, <2>6 DEF Rest
<1>5. CASE AskEnd
  BY <1>1, <1>5 DEF IInv, Rest, AskEnd, TypeOK, Finished, GoesOn, Streaming, work
<1> QED
  BY <1>2, <1>3, <1>4, <1>5 DEF Ask

LEMMA LeaveStep == ASSUME IInv, Leave PROVE Rest'
<1>1. /\ held' = FALSE /\ at' = "over" /\ how' = "abandoned"
      /\ UNCHANGED <<iteration, errors, failures, calls, stage, results, torn, buffer, action,
                      seen, monitored>>
  BY DEF Leave, work
<1>2. TypeOK'
  BY <1>1 DEF IInv, TypeOK
<1>3. Finished' /\ Streaming'
  BY <1>1 DEF Finished, GoesOn, Streaming
<1> QED
  BY <1>2, <1>3 DEF Rest

-----------------------------------------------------------------------------
(* Theorems                                                                *)

LEMMA InitInv == Init => IInv
<1> SUFFICES ASSUME Init PROVE IInv
  OBVIOUS
<1>1. TypeOK
  <2>1. buffer \in Seq({"note", "error", "failure", "success"})
    BY BatchesAreEvents DEF Init
  <2>2. /\ DOMAIN <<>> = {} /\ <<>> \in [{} -> Stages] /\ <<>> \in [{} -> 0..2]
    OBVIOUS
  <2>3. 0 \in 0..(MaxIterations - 1) /\ 0 \in 0..BlockerThreshold
    BY ErrorsAreRetried, SomeIterations
  <2>4. /\ stage \in [DOMAIN calls -> Stages] /\ results \in [DOMAIN calls -> 0..2]
        /\ calls \in Answers \cup {<<>>}
    BY <2>2 DEF Init
  <2> QED
    BY <2>1, <2>3, <2>4 DEF Init, TypeOK
<1>2. DOMAIN calls = {}
  BY DEF Init
<1>3. Ordered /\ Counted /\ Quiet
  BY <1>2 DEF Init, Ordered, Counted, Quiet, InFlight, At
<1>4. Finished
  BY <1>2 DEF Init, Finished, GoesOn
<1>5. Streaming
  BY DEF Init, Streaming
<1> QED
  BY <1>1, <1>3, <1>4, <1>5 DEF IInv

LEMMA NextInv == IInv /\ [Next]_vars => IInv'
<1> SUFFICES ASSUME IInv, [Next]_vars PROVE IInv'
  OBVIOUS
<1>1. Rest'
  <2>1. CASE UNCHANGED vars
    BY <2>1 DEF IInv, Rest, vars, work, stream, TypeOK, Finished, GoesOn, Streaming, Yielding
  <2> QED
    BY <2>1, StartStep, ModelFailsStep, ModelSpeaksStep, ModelCallsStep, ModelGarblesStep,
       StartGroupStep, ToolStep, GroupsEndStep, YieldStep, AskStep, LeaveStep
       DEF Next, Engine, Model
<1>2. Ordered' /\ Counted' /\ Quiet'
  BY WorkStep
<1> QED
  BY <1>1, <1>2 DEF IInv, Rest

\* The parts of the invariant that relate the stages of the calls, their
\* results, the events left to yield and what the consumer was told.
THEOREM Invariance == Spec => []IInv
BY InitInv, NextInv, PTL DEF Spec

\* Every variable keeps its type: the agent never has more than two results
\* for a call, and never more model failures in a row than the threshold.
THEOREM TypeCorrect == Spec => []TypeOK
<1>1. IInv => TypeOK
  BY DEF IInv
<1> QED
  BY <1>1, Invariance, PTL

\* Whatever the model lists, two writes of one file or two commands are
\* executed in the order listed, reads come first, and commands run alone.
THEOREM KeepsOrder == Spec => []SafeOrder
<1>1. IInv => SafeOrder
  BY OrderIsSafe DEF IInv
<1> QED
  BY <1>1, Invariance, PTL

\* The model is asked again with one result for each call it made, but for
\* those torn by an exception.
THEOREM AnswersOnce == Spec => []AnsweredOnce
<1>1. IInv => AnsweredOnce
  BY DEF IInv, AnsweredOnce, Finished, GoesOn, Counted
<1> QED
  BY <1>1, Invariance, PTL

\* No tool is at work once the generator waits for its consumer or is over.
THEOREM StaysQuiet == Spec => []Quiet
<1>1. IInv => Quiet
  BY DEF IInv
<1> QED
  BY <1>1, Invariance, PTL

-----------------------------------------------------------------------------
(* The refinement                                                          *)

\* What the consumer is told, and every end, is a step of the contract.
LEMMA EndsKeepContract ==
  ASSUME IInv, how # how' \/ seen # seen', [Next]_vars
  PROVE  Contract!Next
<1>1. CASE Yield
  <2>1. /\ at = "yielding" /\ ~held /\ buffer # <<>> /\ seen' = Told(Head(buffer)) /\ how' = how
        /\ how = "running" /\ Yielding /\ seen' # seen
    BY <1>1 DEF Yield, IInv, Streaming
  <2>2. CASE buffer = <<"error">> /\ seen = "silent"
    BY <2>1, <2>2, Buffers DEF Told, Contract!Next, Contract!Hear
  <2>3. CASE (buffer = <<"note">> \/ buffer = Stopped) /\ seen \in {"silent", "open"}
    BY <2>1, <2>3, Buffers DEF Told, Contract!Next, Contract!Hear
  <2>4. CASE buffer = Failure /\ seen = "open"
    BY <2>1, <2>4, Buffers DEF Told, Contract!Next, Contract!Hear
  <2>5. CASE buffer = <<"failure">> /\ seen = "failing"
    BY <2>1, <2>5, Buffers DEF Told, Contract!Next, Contract!Hear
  <2>6. CASE buffer = <<"success">> /\ seen = "open"
    BY <2>1, <2>6, Buffers DEF Told, Contract!Next, Contract!Hear
  <2> QED
    BY <2>1, <2>2, <2>3, <2>4, <2>5, <2>6 DEF Yielding
<1>2. CASE Throws /\ at \in {"asking", "acting"}
  BY <1>2 DEF Throws, IInv, Streaming, Contract!Next, Contract!End
<1>3. CASE AskEnd
  <2>1. /\ held /\ buffer = <<>> /\ action = "return" /\ how' = "returned" /\ seen' = seen
        /\ how = "running" /\ Yielding
    BY <1>3 DEF AskEnd, IInv, Streaming
  <2>2. seen \in {"refused", "failed", "succeeded"}
    BY <2>1, Buffers DEF Yielding
  <2> QED
    BY <2>1, <2>2 DEF Contract!Next, Contract!End
<1>4. CASE Leave
  <2>1. /\ held /\ how' = "abandoned" /\ seen' = seen /\ how = "running" /\ Yielding
    BY <1>4 DEF Leave, IInv, Streaming
  <2>2. seen # "silent"
    BY <2>1 DEF Yielding
  <2> QED
    BY <2>1, <2>2 DEF Contract!Next, Contract!End
<1>5. ASSUME NEW c \in DOMAIN calls, Tool(c)
      PROVE  Throws /\ at = "acting"
  <2>1. ASSUME NEW from, NEW to, NEW n, NEW f, Moves(c, from, to, n, f) PROVE FALSE
    BY <2>1 DEF Moves, stream
  <2>2. CASE GuardThrows(c)
    BY <2>1, <2>2 DEF GuardThrows
  <2> QED
    BY <1>5, <2>1, <2>2 DEF Tool, CallEnds, CallFails, WriteReturns, CheckEnds, CheckFails
<1>6. ModelGarbles => Throws /\ at = "asking"
  BY DEF ModelGarbles
<1>7. ~(Refuse \/ Start \/ ModelFails \/ ModelSpeaks \/ ModelCalls \/ StartGroup \/ GroupsEnd
        \/ AskEvent \/ AskIteration \/ AskCompletion \/ UNCHANGED vars)
  BY DEF Refuse, Start, ModelFails, ModelSpeaks, ModelCalls, StartGroup, GroupsEnd, AskEvent,
         AskIteration, AskCompletion, Yields, vars, stream
<1> QED
  BY <1>1, <1>2, <1>3, <1>4, <1>5, <1>6, <1>7 DEF Next, Engine, Model, Ask

\* The generator keeps the contract of an event stream: one "complete" event
\* at most, after everything else and after the error it reports, unless the
\* role was refused, and no failure once an end is announced.
THEOREM ImplementsStream == Spec => KeepsContract
<1>1. Init => Contract!Init
  BY DEF Init, Contract!Init
<1>2. IInv /\ [Next]_vars => [Contract!Next]_<<seen, how>>
  BY EndsKeepContract
<1> QED
  BY <1>1, <1>2, Invariance, PTL DEF Spec, KeepsContract, Contract!Spec

-----------------------------------------------------------------------------
(* Progress: a group can always be formed                                  *)

LEMMA Smallest ==
  ASSUME NEW S \in SUBSET Nat, S # {}
  PROVE  \E x \in S : \A y \in S : x <= y
<1>1. PICK x \in S : \A y \in S : ~ (<<y, x>> \in OpToRel(<, Nat))
  BY NatLessThanWellFounded, WFMin
<1>2. ASSUME NEW y \in S PROVE x <= y
  <2>1. ~(y < x)
    BY <1>1 DEF OpToRel
  <2> QED
    BY <2>1
<1> QED
  BY <1>2

\* The first call of the answer that writes the file of call c exists.
LEMMA FirstWriteIs ==
  ASSUME NEW a \in Seq(Call), NEW c \in DOMAIN a
  PROVE  LET f == FirstWrite(a, c) IN f \in DOMAIN a /\ a[f] = a[c] /\ IsFirst(a, f)
<1> DEFINE Same == {f \in DOMAIN a : a[f] = a[c]}
<1>1. Same \in SUBSET Nat /\ c \in Same
  OBVIOUS
<1>2. PICK f \in Same : \A g \in Same : f <= g
  <2> HIDE DEF Same
  <2> QED
    BY <1>1, Smallest
<1>3. IsFirst(a, f)
  <2> SUFFICES ASSUME NEW d \in 1..(f - 1), a[d] = a[f] PROVE FALSE
    BY DEF IsFirst
  <2>1. d \in DOMAIN a /\ d < f
    BY <1>2
  <2>2. d \in Same
    BY <1>2, <2>1
  <2> QED
    BY <1>2, <2>1, <2>2
<1>4. \E g \in DOMAIN a : a[g] = a[c] /\ IsFirst(a, g)
  BY <1>2, <1>3
<1> QED
  BY <1>4 DEF FirstWrite

\* Whatever waits, some of it comes before all the rest.
LEMMA SomeGroup ==
  ASSUME NEW a \in Seq(Call), NEW W \in SUBSET DOMAIN a, W # {}
  PROVE  NextGroup(a, W) # {}
<1> SUFFICES \E c \in W : \A d \in W : ~Earlier(a, d, c)
  BY DEF NextGroup
<1>1. \A c \in W : c \in Nat /\ Class(a, c) \in 0..3
  BY DEF Class
<1> DEFINE Classes == {Class(a, c) : c \in W}
<1>2. PICK k \in Classes : \A l \in Classes : k <= l
  <2>1. Classes \in SUBSET Nat /\ Classes # {}
    BY <1>1
  <2> HIDE DEF Classes
  <2> QED
    BY <2>1, Smallest
<1> DEFINE Low == {c \in W : Class(a, c) = k}
<1>3. Low # {} /\ Low \in SUBSET Nat /\ Low \in SUBSET W /\ k \in 0..3
  BY <1>1, <1>2
<1>4. \A d \in W : k <= Class(a, d)
  BY <1>2
<1>5. \A c \in Low : \A d \in W \ Low : ~Earlier(a, d, c)
  <2> SUFFICES ASSUME NEW c \in Low, NEW d \in W \ Low PROVE ~Earlier(a, d, c)
    OBVIOUS
  <2>1. Class(a, c) = k /\ Class(a, d) # k /\ k <= Class(a, d)
    BY <1>4
  <2>2. Class(a, d) \in 0..3
    BY <1>1
  <2> QED
    BY <2>1, <2>2, <1>3 DEF Earlier
<1>6. \A c \in Low : c \in DOMAIN a /\ Class(a, c) = k
  OBVIOUS
<1> HIDE DEF Low, Classes
<1>7. SUFFICES \E c \in Low : \A d \in Low : ~Earlier(a, d, c)
  BY <1>3, <1>5
<1>8. CASE k \in {0, 1}
  <2>1. \A c \in Low : \A d \in Low : ~Earlier(a, d, c)
    BY <1>6, <1>8 DEF Earlier
  <2> QED
    BY <1>3, <2>1
<1>9. CASE k = 2
  <2>1. PICK c \in Low : \A d \in Low : c <= d
    BY <1>3, Smallest
  <2>2. \A d \in Low : ~(d < c)
    BY <1>3, <2>1
  <2> QED
    BY <1>6, <1>9, <2>1, <2>2 DEF Earlier
<1>10. CASE k = 3
  <2> DEFINE Firsts == {FirstWrite(a, c) : c \in Low}
  <2>1. \A c \in Low : FirstWrite(a, c) \in Nat /\ a[FirstWrite(a, c)] = a[c]
    BY <1>6, FirstWriteIs
  <2>2. PICK f \in Firsts : \A g \in Firsts : f <= g
    <3>1. Firsts \in SUBSET Nat /\ Firsts # {}
      BY <1>3, <2>1
    <3> HIDE DEF Firsts
    <3> QED
      BY <3>1, Smallest
  <2> DEFINE Theirs == {c \in Low : FirstWrite(a, c) = f}
  <2>3. PICK c \in Theirs : \A d \in Theirs : c <= d
    <3>1. Theirs \in SUBSET Nat /\ Theirs # {}
      BY <1>3, <2>2
    <3> HIDE DEF Theirs
    <3> QED
      BY <3>1, Smallest
  <2>4. ASSUME NEW d \in Low PROVE ~Earlier(a, d, c)
    <3>1. c \in Low /\ Class(a, c) = 3 /\ Class(a, d) = 3
      BY <1>6, <1>10
    <3>2. f \in Nat /\ FirstWrite(a, d) \in Nat /\ f <= FirstWrite(a, d) /\ FirstWrite(a, c) = f
      BY <2>1, <2>2, <2>3
    <3>3. CASE a[d] = a[c]
      <4>1. FirstWrite(a, d) = FirstWrite(a, c)
        BY <3>3 DEF FirstWrite
      <4>2. ~(d < c)
        BY <1>3, <2>3, <3>1, <3>2, <4>1
      <4> QED
        BY <3>1, <3>3, <4>2 DEF Earlier
    <3>4. CASE a[d] # a[c]
      <4>1. ~(FirstWrite(a, d) < FirstWrite(a, c))
        BY <3>2
      <4> QED
        BY <3>1, <3>4, <4>1 DEF Earlier
    <3> QED
      BY <3>3, <3>4
  <2> QED
    BY <2>3, <2>4
<1> QED
  BY <1>3, <1>8, <1>9, <1>10

\* The generator, or its consumer, always has something to do: a model to
\* ask, a call in flight, a group to start or to end, an event to hand over
\* or to take.
Able ==
  \/ at \in {"starting", "asking"}
  \/ at = "acting" /\ (At("waiting") # {} => NextGroup(calls, At("waiting")) # {})
  \/ at = "yielding" /\ (held \/ buffer # <<>>)

\* No answer of the model, however its calls are ordered, leaves execute()
\* with calls that wait and no group to start, and no batch of events leaves
\* it with nothing to yield and nobody to go on.
THEOREM NeverStuck == Spec => [](how = "running" => Able)
<1>1. IInv /\ how = "running" => Able
  <2> SUFFICES ASSUME IInv, how = "running" PROVE Able
    OBVIOUS
  <2>1. at \in {"starting", "asking", "acting", "yielding"}
    BY DEF IInv, TypeOK, Streaming
  <2>2. CASE at = "acting"
    <3>1. calls \in Seq(Call) /\ At("waiting") \in SUBSET DOMAIN calls
      BY CallsAreNumbered DEF IInv, At
    <3> QED
      BY <2>2, <3>1, SomeGroup DEF Able
  <2>3. CASE at = "yielding"
    BY <2>3, Buffers DEF IInv, Streaming, Yielding, Able
  <2> QED
    BY <2>1, <2>2, <2>3 DEF Able
<1> QED
  BY <1>1, Invariance, PTL

-----------------------------------------------------------------------------
(* Progress: every step takes the generator nearer to its end              *)

Phase ==
  CASE at = "starting" -> 4
    [] at = "asking"   -> 3
    [] at = "acting"   -> 2
    [] at = "yielding" -> 1
    [] at = "over"     -> 0

Fewer(S, T) == S \subseteq T /\ S # T

\* Calls leave "waiting" for "running", for "checking", for "over".
CallsAdvance ==
  \/ Fewer(At("waiting")', At("waiting"))
  \/ At("waiting")' = At("waiting") /\ Fewer(At("running")', At("running"))
  \/ /\ At("waiting")' = At("waiting") /\ At("running")' = At("running")
     /\ Fewer(At("checking")', At("checking"))

\* An event is handed over, or taken; the completion is announced once.
StreamAdvances ==
  \/ action # "return" /\ action' = "return"
  \/ action' = action /\ Len(buffer') < Len(buffer)
  \/ action' = action /\ buffer' = buffer /\ held /\ ~held'

\* The lexicographic descent of (iterations left, phase, calls not yet over,
\* events not yet taken), all bounded below.
Descends ==
  \/ iteration' > iteration
  \/ iteration' = iteration /\ Phase' < Phase
  \/ UNCHANGED <<iteration, at, calls>> /\ at = "acting" /\ CallsAdvance
  \/ UNCHANGED <<iteration, at>> /\ at = "yielding" /\ StreamAdvances

LEMMA GroupAdvances == ASSUME IInv, StartGroup PROVE Descends
<1> DEFINE Group == NextGroup(calls, At("waiting"))
<1>1. /\ at = "acting" /\ UNCHANGED <<iteration, at, calls>>
      /\ At("waiting") # {}
      /\ stage' = [c \in DOMAIN calls |-> IF c \in Group THEN "running" ELSE stage[c]]
  BY DEF StartGroup
<1>2. Group # {} /\ Group \subseteq At("waiting")
  <2>1. calls \in Seq(Call) /\ At("waiting") \in SUBSET DOMAIN calls
    BY CallsAreNumbered DEF IInv, At
  <2>2. Group # {}
    BY <1>1, <2>1, SomeGroup
  <2> QED
    BY <2>2 DEF NextGroup
<1> HIDE DEF Group
<1>3. At("waiting")' = At("waiting") \ Group
  BY <1>1, <1>2 DEF At
<1>4. Fewer(At("waiting")', At("waiting"))
  BY <1>2, <1>3 DEF Fewer
<1> QED
  BY <1>1, <1>4 DEF Descends, CallsAdvance

\* One call leaves the stage it is at, for a later one.
LEMMA MoveAdvances ==
  ASSUME IInv, NEW c \in DOMAIN calls, NEW from, NEW to, NEW n, NEW f,
         Moves(c, from, to, n, f),
         \/ from = "running" /\ to \in {"checking", "over"}
         \/ from = "checking" /\ to = "over"
  PROVE  Descends
<1>1. /\ at = "acting" /\ UNCHANGED <<iteration, at, calls>>
      /\ c \in At(from) /\ stage' = [stage EXCEPT ![c] = to]
      /\ stage \in [DOMAIN calls -> Stages]
  BY DEF Moves, IInv, TypeOK
<1>2. At("waiting")' = At("waiting")
  BY <1>1 DEF At
<1>3. CASE from = "running"
  <2>1. At("running")' = At("running") \ {c}
    BY <1>1, <1>3 DEF At
  <2>2. Fewer(At("running")', At("running"))
    BY <1>1, <1>3, <2>1 DEF Fewer
  <2> QED
    BY <1>1, <1>2, <2>2 DEF Descends, CallsAdvance
<1>4. CASE from = "checking" /\ to = "over"
  <2>1. At("running")' = At("running")
    BY <1>1, <1>4 DEF At
  <2>2. At("checking")' = At("checking") \ {c}
    BY <1>1, <1>4 DEF At
  <2>3. Fewer(At("checking")', At("checking"))
    BY <1>1, <1>4, <2>2 DEF Fewer
  <2> QED
    BY <1>1, <1>2, <2>1, <2>3 DEF Descends, CallsAdvance
<1> QED
  BY <1>3, <1>4

LEMMA PhaseFalls ==
  ASSUME IInv, iteration' = iteration,
         \/ at = "starting" /\ at' \in {"asking", "yielding"}
         \/ at = "asking" /\ at' \in {"acting", "yielding", "over"}
         \/ at = "acting" /\ at' \in {"yielding", "over"}
         \/ at = "yielding" /\ at' = "over"
  PROVE  Descends
<1>1. Phase' < Phase
  BY DEF Phase
<1> QED
  BY <1>1 DEF Descends

LEMMA EveryStepDescends == IInv /\ Next => Descends
<1> SUFFICES ASSUME IInv, Next PROVE Descends
  OBVIOUS
<1>1. CASE \/ Refuse \/ Start \/ ModelFails \/ ModelSpeaks \/ ModelCalls \/ ModelGarbles
           \/ GroupsEnd
  BY <1>1, PhaseFalls DEF Refuse, Start, ModelFails, ModelSpeaks, ModelCalls, ModelGarbles,
     GroupsEnd, Throws, Yields
<1>2. CASE StartGroup
  BY <1>2, GroupAdvances
<1>3. ASSUME NEW c \in DOMAIN calls, Tool(c) PROVE Descends
  <2>1. CASE CallEnds(c)
    BY <2>1, MoveAdvances DEF CallEnds
  <2>2. CASE CallFails(c)
    BY <2>2, MoveAdvances DEF CallFails
  <2>3. CASE WriteReturns(c)
    BY <2>3, MoveAdvances DEF WriteReturns
  <2>4. CASE CheckEnds(c)
    BY <2>4, MoveAdvances DEF CheckEnds
  <2>5. CASE CheckFails(c)
    BY <2>5, MoveAdvances DEF CheckFails
  <2>6. CASE GuardThrows(c)
    <3>1. CASE Accompanied(calls, c)
      BY <2>6, <3>1, MoveAdvances DEF GuardThrows
    <3>2. CASE ~Accompanied(calls, c)
      BY <2>6, <3>2, PhaseFalls DEF GuardThrows, Throws
    <3> QED
      BY <3>1, <3>2
  <2> QED
    BY <1>3, <2>1, <2>2, <2>3, <2>4, <2>5, <2>6 DEF Tool
<1>4. CASE Yield
  <2>1. /\ UNCHANGED <<iteration, at>> /\ at = "yielding" /\ action' = action
        /\ buffer # <<>> /\ buffer' = Tail(buffer)
    BY <1>4 DEF Yield
  <2>2. Len(buffer') < Len(buffer)
    BY <2>1 DEF IInv, TypeOK
  <2> QED
    BY <2>1, <2>2 DEF Descends, StreamAdvances
<1>5. CASE Ask \/ Leave
  <2>1. at = "yielding" /\ how = "running"
    BY <1>5 DEF Ask, AskEvent, AskIteration, AskCompletion, AskEnd, Leave, IInv, Streaming
  <2>2. CASE AskEvent
    BY <2>1, <2>2 DEF AskEvent, Descends, StreamAdvances
  <2>3. CASE AskIteration
    BY <2>3 DEF AskIteration, Descends, IInv, TypeOK
  <2>4. CASE AskCompletion
    BY <2>1, <2>4 DEF AskCompletion, Descends, StreamAdvances
  <2>5. CASE AskEnd \/ Leave
    BY <2>1, <2>5, PhaseFalls DEF AskEnd, Leave
  <2> QED
    BY <1>5, <2>2, <2>3, <2>4, <2>5 DEF Ask
<1> QED
  BY <1>1, <1>2, <1>3, <1>4, <1>5 DEF Next, Engine, Model

\* execute() takes finitely many steps, whatever the model answers, the tools
\* do and the consumer asks for: the iterations are bounded and each step
\* lowers the rest.  With NeverStuck this is the safety half of StreamEnds.
THEOREM AlwaysDescends == Spec => [][Descends]_vars
<1>1. IInv /\ [Next]_vars => [Descends]_vars
  BY EveryStepDescends
<1> QED
  BY <1>1, Invariance, PTL DEF Spec

=============================================================================
