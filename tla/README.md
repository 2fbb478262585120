# Verification of prometheus-ai

TLA+ models of the parts of prometheus-ai that move credits, hand work to agents and share resources between them, the TLC runs that check them on small instances, and TLAPS proofs of what matters most for instances of every size.

`tlc -config X.cfg M` runs a model, `tlapm MProofs.tla` checks the proofs of module `M`.
PROJECT.json lists the runs, the mutated definitions each property is known to catch, the source lines behind every definition, the hazards and the theorems.

## 1. The system

A browser or API client submits a task to a session. The **api** reserves credits in Postgres and puts a job on a BullMQ queue; the **queue-worker** takes it, asks the **orchestrator** to run it, then charges or releases the credits. The orchestrator runs one `AgentLoop` per session, or a fleet of them, whose model calls go through the **model-router** and whose commands run in containers of the **sandbox-manager**. Events go back through Redis to the **socket-server**. Stripe pays credits in through a webhook of the api, and a scheduled workflow reconciles balances with their ledger.

| Component | State | Operations | Talks to | Hard because |
|---|---|---|---|---|
| Paid tasks: api `tasks.ts`, queue-worker `processor.ts`, `index.ts` | `credit_balances`, `credit_reservations`, `credit_transactions`, `tasks`, `sessions`; BullMQ jobs and the dead letter queue | submit, cancel, updateStatus; process, charge, release, close the session | Postgres, BullMQ, orchestrator | no handler uses a transaction; retries, timeouts that leave the processor running, stalled jobs, failing calls |
| Balance and ledger: `stripe.ts`, `credits.ts`, `ledger-integrity.ts` | balance row, ledger rows, processed event ids | webhook, addCredits, reconcile | Stripe, Postgres, Inngest | deliveries repeat, overlap and fail half-way; reconcile writes what it read earlier |
| Fleet: `fleet-manager.ts`, `parallel/scheduler.ts` | fleet of agents with a status each | executeTasks, pauseAgent, resumeAgent, stopAgent, stopAll | AgentLoop, Redis | controls await a publication between the loop and the status; dependencies may be circular |
| Agent loop: `agent-loop.ts` | status | executeTask, pause, resume, stop | execution engine, Redis | the status is read only between two events |
| Execution engine: `engine/execution-engine.ts`, `tool-dependency.ts` | the messages of an agent, failures in a row, events not yet yielded | execute (an async generator), tool calls in groups | model-router, tools, AgentLoop | calls side by side that write one state, exceptions out of any of them, a consumer that pauses or leaves |
| Sandbox pool: `pool.ts` over `container.ts` | pool entries, containers, idle timers | acquire, release, destroy, evict, replenish, cleanup, exec | container providers | every provider call is an await with the pool changing under it |
| Circuit breaker: `packages/utils/src/circuit-breaker.ts` | state, window of failures, successes | execute, reset | any remote service | answers arrive after the breaker changed state |
| Session control: api `sessions.ts`, `session-manager.ts`, `takeover.ts`, `task-router.ts` | the session's row, the session objects in memory with a loop each, the takeover state | pause, resume, cancel, retry, takeover, release, status; processTask; checkSessionCompletion | AgentLoop, Postgres, Redis | three processes write one row, two of them unconditionally; every task keeps the object it found, whatever the map holds later |
| Events: `pub-sub.ts`, `event-stream.ts`, socket-server | sequence numbers, streams | publish, replay | Redis | number, publication and stream entry are separate calls |
| Model router | cache, rate windows | route, fall back | providers | mostly scoring over configuration |

What makes each correct:

- *Paid tasks*: the credits reserved are those of the reservations still held, no task pays for another, a settled task was charged once (it is not always, section 5); a task that is queued ends.
- *Ledger*: an acknowledged payment was granted, once, if it says to whom and how much; the balance becomes the sum of the ledger and is never more than was paid.
- *Fleet and loops*: dependencies first, one start per task, a bounded number at a time; an answer for every task that can run; controls take effect, and only the fleet waiting on a pause may hang.
- *Sessions*: whoever holds a session can let it go; a session is closed when the rows of its tasks say that they are over, not before; whatever is asked, its tasks end or wait on a hold that can be lifted; a cancel stops the work (it does not, section 5).
- *Engine*: the calls of one answer run in a safe order; the agent gets one result for each; nothing runs while the consumer is not looking; the stream ends, and its end means what AgentLoop takes it for.
- *Sandboxes*: no container leaks by the manager's own doing; none is taken from its user, or handed to another, under a command; the warm pool is refilled. That none is shared at all does not hold (section 5).
- *Breaker*: trips at its threshold and not before, is closed only by a probe or a reset, and closes in the end.

The other parts (project-brain, mcp-gateway, web, docs, authentication, notifications, ...) are listed in PROJECT.json with the reason they are left out: they are retrieval, adapters, user interface or single-row reads and writes.

## 2. Modules

| Module | Models |
|---|---|
| `TaskCredits` | submit, cancel, updateStatus and TaskProcessor, with BullMQ around them |
| `MCTaskCredits` | instances, and the ledger property that needs sums |
| `TaskCreditsProofs` | its theorems |
| `FiniteSums` | lemmas about sums over finite sets, for the theorem about the ledger |
| `CreditLedger`, `CreditLedgerProofs` | the Stripe webhook, settlement and reconciliation over one balance |
| `AgentLoop` | operators on one loop: a record, and the loops one turn of `executeTask` may leave |
| `TaskGraph` | abstract specification: what running dependent tasks promises |
| `FleetManager`, `MCFleetManager`, `FleetManagerProofs` | executeTasks and the controls, composed with one `AgentLoop` per task; refines `TaskGraph` |
| `SessionControl`, `MCSessionControl`, `SessionControlProofs` | one session under its users' requests, its tasks and restarts, composed with one `AgentLoop` per session object |
| `ToolGroups` | which tool calls of an answer run together, and in which order |
| `EventStream` | abstract specification: what the consumer of an agent's events relies on |
| `ExecutionEngine`, `MCExecutionEngine`, `ExecutionEngineProofs` | the generator between model, tools and consumer; uses `ToolGroups`, refines `EventStream` |
| `SandboxPool`, `MCSandboxPool`, `SandboxPoolProofs` | the warm pool, with the parts of ContainerManager it shares |
| `CircuitBreaker`, `CircuitBreakerProofs` | the breaker, its callers and a service that fails and recovers |

Two conventions hold everywhere. In a handler that talks to Postgres, each SQL statement is a step, because none opens a transaction; in single-threaded in-memory code a step is everything between two awaits. A definition under a comment `mutant:` is a plausible bug, used only to show that a property would notice it.

### TaskCredits

One session of one organisation. Variables: the balance row (`balance`, `reserved`), per task its reservation (`resv`), the sums of its ledger rows (`spent`, `refunded`), its `status`, the BullMQ `job` and the dead letters; the program counters of submit requests (`sub`), cancel requests (`can`) and worker attempts (`att`).

- `Submit...` actions are `tasks.submit`: the session check, then `reserveCredits` (read, insert, increment), the task row, the job. `ReserveFault` is its swallowed exception: the task is created without a reservation.
- `Cancel...` actions are `tasks.cancel` with its `releaseCredits`.
- `Begin` to `Return` are one attempt of `_processInner`; `Consume*` and `Release*` its two settlements; `Fault` makes the next call fail and `AfterFault` says which catch block takes it, if any: what is published before the try block, and the progress reported after it, leave the attempt at once.
- `Deliver`, `Retry`, `Timeout`, `Stalled`, `Crash`: BullMQ and the worker process. A timeout does *not* stop the attempt: `withJobTimeout` races the processor and leaves it running.
- `JobFails` ends the last attempt and starts the listener that files the job; `FileJob` is the listener's `moveToDLQ`, which nobody awaits: it adds the entry (`dlq`), or its add fails and is swallowed, or its worker dies first (`lost`).

`MCTaskCredits` keeps one history variable, `claims`: how many cancel requests and attempts have found the reservation of a task active, and so set out to settle it.

### CreditLedger

One organisation, the webhook requests in progress, the tasks it settles and the reconciliations. `Lookup`, `EnsureRow`, `AddToBalance`, `InsertRow`, `Record`, `Respond` are the statements of one delivery; `Decline` is a handler that returns early because the event (one of `Unclear`) names no organisation, no known customer or no amount, and is recorded and answered all the same; `Fail` ends it anywhere, `DeliverAgain` is Stripe repeating itself, before or after the answer. `ReadBalance`, `ReadSum`, `Correct` are `reconcile()`, and `View` is a user who looks at the balance, which creates its row. The variables `refunds`, `granted`, `disturbed` and `declined` are history: no action's guard reads them. `Reserve`, `Consume`, `RecordConsumption`, `Release` are the undisturbed settlement of a task; TaskCredits has what goes wrong in one.

### FleetManager over AgentLoop

`deps` is the graph given to `executeTasks`. `NextWave` is `schedule()`, `Chunks` the tier limit; `StartChunk`, `ChunkEnds`, `FleetEnds` the awaits of `executeTasks`; `AgentSteps(t)` one turn of the loop of `t`, and of `executeFleetTask` when it returns. `call` holds what each operator is in the middle of: `PauseAgent`, `ResumeAgent`, `StopAgent` act on the loop at once and on the agent's status at `Ends`, after the publication; `StopAll` visits the agents one await at a time. `Throws` and `FleetRejects` are publications that fail. `muddled` is history: the agents on which two calls overlapped or a call threw; the properties of the controls hold for all the others, whatever happens elsewhere in the fleet.

### SessionControl over AgentLoop

`row` is the session's row; `active` the object `activeSessions` holds under its id, named after the task or request that put it there; `status` the status of each object's loop; `human` TakeoverManager's state. `tasks` and `requests` hold where each actor stands.

- `Accept` is the API's guarded UPDATE; `Ask` and `Write` the routes that read the row and then write it unconditionally (`routes/v1/sessions.ts`, retry, takeover). `Dropped` is a call to the orchestrator that fails, which the API only logs.
- `Signal`, `Stored`, `Cleaned` are `pauseSession`, `resumeSession` and `cancelSession`: the loop at once, then the row, then, for a cancel, the map. `TakenOver`, `Release`, `Released`, `Poll`, `Loaded` are the takeover, release and status handlers; `Throws` any of their awaits failing.
- `Admitted`, `Submit`, `Begin`, `Created`, `Phase`, `Turn`, `Returns` follow a task from submission through `processTask`: it looks the session up once, may create it, and calls `executeTask` on its loop for each phase. `Fails` is an attempt that ends in the worker's catch block: the row says failed, and the queue gives the task out again while it has attempts left. `CancelTask` is `tasks.cancel`, which marks the row at once, and `Dequeued` its removal of the job.
- `Checks` and `Closes` are `checkSessionCompletion`, a read and a write, which an attempt runs only when it was successful. `Restart` empties the orchestrator's memory; the worker then completes the task itself (`Fallback`).

The record of a task holds where it stands and what its row says (`entry`: none, open, ended or cancelled), which are not the same: `Reported`, what `checkSessionCompletion` takes for over, looks at the rows only. Three variables are history: `crossed`, that a hold came while a cancel was cleaning up or that a look-up replaced the object of a held session; `late`, that a task was listed behind a check that had read the others; `early`, the tasks whose row said they were over while they ran or had attempts left. `MCSessionControl` starts a run with one of several casts of actors.

### ExecutionEngine

`at` is where the generator is: before its loop, asking the model, executing calls, yielding, over. `iteration`, `errors` and `failures` are its counters. For the calls of the last answer, `stage` is where the execution of each is and `results` how many results the agent's messages hold. `buffer` and `action` are the events of the iteration not yet yielded and what follows them; `held` says that the consumer has an event and has not come back.

- `ModelFails`, `ModelSpeaks`, `ModelCalls`, `ModelGarbles` are the ways a call of the model ends: a failure that is counted, an answer without or with tool calls, and what nothing catches.
- `StartGroup` starts the next group of `ToolGroups`; `CallEnds`, `CallFails`, `WriteReturns`, `CheckEnds`, `CheckFails`, `GuardThrows` the ways one call goes on; `GroupsEnd` what follows the last: blocked, escalated or aborted, or the next iteration.
- `Yield` hands one event over; `AskEvent`, `AskIteration`, `AskCompletion`, `AskEnd` are the consumer coming back, `Leave` is `generator.return()`.

`seen` and `how` are history, what the consumer was told and how the stream ended: they are the state of `EventStream`. `torn` is history too: the calls whose guard, validation or reading of the result threw (`GuardThrows`, `CheckFails`).

### SandboxPool

`pool` and `live` are the sandboxes that the pool and the ContainerManager know, `running` the containers the provider runs; `status` is the field of the one object that the pool and `exec()` both write, `project` that of the pool's entry; `timer` the armed idle timers, `warming` the creations of `addWarmSandbox` in flight, `dying` the destroys in flight, `evicting` the loops of `evictExcess`.

`acquire()` has one production caller, `POST /sandbox/create` (`index.ts:267`), and it names no session. So no entry is ever active in the model, an idle timer and the cleanup cycle spare nobody, and a sandbox is offered whenever its status reads "ready", which `exec()` makes it at the end of every command.

Clients acquire, execute, release and destroy. Timers and the cleanup cycle may fire at any moment: time is left out. The provider may fail: `Failed` is a creation that fails and may leave a container behind, `Destroyed` a removal that may have failed, since `container.ts:557-562` and `docker.ts:244-273` swallow that and forget the container; `lapses` counts both. `MCSandboxPool` adds two history variables: `short`, that a creation failed or `evictExcess` ran, after either of which nothing replenishes the pool; and `shared`, the sandboxes handed to a client while another used them, until nobody does.

### CircuitBreaker

Time is the age of the failures in the window, aged by `Tick`. `call[c]` is a call in progress, with the outcome it will have; the breaker learns it in `OnSuccess` or `OnFailure`, whatever its state is then.

## 3. Runs

| Run | Checks | Shows |
|---|---|---|
| `task_counters` | TypeOK, ReservedWithinHeld, EachPaysItsOwn, LedgerExplainsBalance | one task with two cancel requests, a crash, a failing call at any statement and a user rewriting its status, or two tasks on one balance row: the counter never exceeds what is still held; neither task pays for the other while nothing fails and no reservation is claimed twice; and the ledger explains the balance while nothing fails |
| `task_settles` | FiledOnce, SettlerRemains, RunnerRemains, TaskEnds, ReservationSettles | through timeouts, late attempts, retries and a cancellation, tasks end and reservations settle, because somebody is left to see to each; a job is filed as dead once, and not early, unless its one filing is lost |
| `task_charged` | ChargedOnce (violated) | a failure after the charge is retried, and the retry charges again |
| `ledger_events` | TypeOK, AcknowledgedIsGranted, GrantedOnce, PaidArrives, Converges | a payment delivered, failed, overlapped, repeated, declined and pruned, beside a settlement and two reconciliations |
| `ledger_refunds` | EarnedOnly (violated) | release, then reconcile: the organisation earns the credits it had reserved |
| `fleet` | TypeOK, EndsWithAll, ControlAgrees, RespectsGraph, StopIsHeeded, FleetSettles | a chain, a cycle, a join and one task more than the tier, under two operators whose calls overlap and whose publications fail; refines TaskGraph |
| `session_holds` | TypeOK, HoldCanBeLifted, ClosedWhenDone, Settles | every kind of request, answered, lost or failing half-way, two phases, a restart, tasks cancelled and attempts retried: holds can be lifted, a session is closed only over rows that say so, and everything settles |
| `session_cancelled` | CancelStops (violated) | after the answer to a cancel, the task begins its next phase on the loop that was stopped |
| `engine` | TypeOK, SafeOrder, AnsweredOnce, Quiet, KeepsContract, StreamEnds | models, tools, guards and validations that fail or throw, a consumer that waits or leaves; refines EventStream |
| `pool_clients` | TypeOK, NoLeak, RefilledAtRest, KeptWhileEngaged, AloneWhileEngaged | two clients, timers, cleanup, evictions, failing creations and a container left running, at any moment: every container is accounted for, the warm pool is refilled, and what a client may still rely on without a session |
| `pool_shared` | ExclusiveUse (violated) | acquire hands out a sandbox in use |
| `breaker` | TypeOK, KnowsItsFailure, TripsExactly, NeverWorsens, Recovers | three callers whose answers arrive at any time |

**Bounds, and why they are enough.** Every bound is a constant of its module, named there, or one of the constraints below.

- *Paid tasks.* A task with two cancel requests and a retry has every pair of actors that can settle one reservation; two tasks are what sharing one counter takes. One crash and one fault each meet every statement, since they may come anywhere. The constraint `AloneOrCalm` of `task_counters` explores both at once: while one task is submitted, everything; with two, runs without crash, fault, user status or second cancel. Tasks, and cancel requests, are interchangeable (symmetry).
- *Ledger.* Two deliveries of one event, each of which may be declined, overlap or repeat in every way two can, and two reconciliations overwrite each other; events share nothing but the balance.
- *Fleet.* The graphs contain a chain, a self-dependency, a task behind a cycle and a runnable one, a join, and a crowd one larger than the tier, which separates chunks; a tier of two runs agents side by side. The constraint `SmallCrowds` leaves the crowd without calls, gives the join one operator whose calls succeed, and stops at one muddled agent. It cuts off only calls and failures, which no fairness demands, so it hides no liveness counterexample.
- *Sessions.* A pause during the clean-up of a cancel takes one task and two requests; a look-up that replaces a held object, and a task submitted behind a closing check, take two tasks and one request; a session closed under a task that was cancelled, or failed with an attempt left, takes two tasks with two attempts. These are the three casts. The one of two tasks and a request has one phase, one attempt and no restart (`Brief`), because what it shows needs no more. Two phases are what a cancel between phases needs, one restart meets every point.
- *Engine.* A threshold of three with four iterations has a success that resets the count and then three failures, or three failures in a row at once. Lists of up to three calls have a parallel group beside a sequential call, in every order; the list of four has two files written twice. All lists of four take longer than they show: the order is decided pair by pair.
- *Sandboxes.* Two clients are what it takes to share or to take away; four sandboxes over a pool of three reach the limit with one to spare, or with one left running by the provider, and make `evictExcess` pick several victims. Clients, and sandboxes, are interchangeable (symmetry).
- *Breaker.* Its thresholds and windows are the smallest at which one off is visible.

The proofs below hold for every value of these bounds.

**Deadlock** is allowed in the TaskCredits and SessionControl runs, where the users may have nothing left to ask and all jobs and tasks are settled, and in `engine`, where the generator ends. Elsewhere every state has a step.

**Fairness.** TaskCredits: live workers go on, BullMQ delivers and a request that began is finished; nobody is obliged to submit or cancel, and no liveness run has crashes. CreditLedger: Stripe repeats what was not answered (failures are bounded), requests and settlements go on, and the cron comes round for ever. FleetManager: the event loop runs every continuation and the engine's stream of events ends (iterations are bounded by the code); operators owe nothing. SessionControl: a request under way ends, since its awaits are answered or time out, a queued task is taken and each phase has finitely many events; nobody must make a request, and the orchestrator need not restart. ExecutionEngine: a call of the model is aborted after 120 s, the tools return: at once, or by the timeout of their request. `lsp.ts:16`, `zoekt.ts:39`, `semgrep.ts:16` and `ast-grep.ts:15` give theirs no signal, so that only the default timeouts of the runtime's `fetch()` end it (for the last two the sandbox manager's own limit on the command comes first, if it answers); and the consumer comes back or leaves (that it may be paused for long is the subject of FleetManager and SessionControl). CircuitBreaker: time passes, calls end and callers keep calling.

## 4. Proofs

| Theorem | Says |
|---|---|
| `TaskCreditsProofs!TypeCorrect`, `ReservedBounded`, `OwnCreditsOnly` | types; the reserved counter never exceeds the reservations held; it is exactly what they add up to while nothing fails and none is claimed twice |
| `TaskCreditsProofs!TrailComplete`, `PaysPerAttempt`, `PaysOnceWhenSerene` | every credit gone from the balance is in the ledger or about to be; a task pays at most once per attempt handed out, and once if nothing failed, died or timed out |
| `TaskCreditsProofs!FiledExactlyOnce`, `AlwaysOwed`, `AlwaysRun` | one filing per exhausted job, done, under way or lost; somebody is left to settle each reservation, and to run each task |
| `CreditLedgerProofs!TypeCorrect`, `AlwaysGranted`, `GrantsOnce`, `OnceSquared` | types; acknowledged payments are granted, or were declined; undisturbed ones are granted once; once balance and ledger agree, only a new grant, charge or release parts them |
| `FleetManagerProofs!TypeCorrect`, `AnswersAll`, `ImplementsGraph`, `ControlsAgree`, `StopsForGood`, `NeverStuck` | types; one answer per task that can run; executeTasks implements TaskGraph; the status of an agent says what its loop will do, unless calls overlapped on it or threw; one that was stopped takes at most two turns more; a fleet that waits has an agent to wait for that can go on or be let go |
| `SessionControlProofs!TypeCorrect`, `HoldsCanBeLifted`, `ClosedInTime`, `NeverStuck` | types; a held task can be let go, unless a hold crossed a clean-up; a session is closed only when its listed tasks are over, unless one was listed late or its row said so early; a task under way has a turn to take, or waits where a request reaches it |
| `ExecutionEngineProofs!TypeCorrect`, `KeepsOrder`, `AnswersOnce`, `StaysQuiet`, `ImplementsStream`, `NeverStuck`, `AlwaysDescends` | types; the order of the calls, for lists of any length; one result for each; no call executed behind the consumer's back; execute() implements EventStream; it can always go on, and each step brings its end nearer |
| `SandboxPoolProofs!TypeCorrect`, `NeverLeaks`, `NeverTakenAway`, `NeverHandedOver`, `StaysWarm` | types; a container is known to the pool, being destroyed, or a lapse of the provider's; a sandbox with one user is neither evicted (but by evictExcess) nor handed out under a command or before the first; the warm pool is refilled |
| `CircuitBreakerProofs!TypeCorrect`, `TripsInTime`, `AlwaysKnowsItsFailure`, `OnlyMends` | types; it trips exactly when the failures in the window reach the threshold; a breaker that is not closed knows when it failed; while the service is well, each step only brings it nearer to closed |

They hold for every value of the constants that meets the assumptions in the modules: finite sets of tasks, natural numbers of credits, positive thresholds, "nobody" not among the clients. `AlwaysRun` assumes that users do not write "queued" or "running" into a task's row themselves, which updateStatus lets them do with nobody left to run it. `PaysPerAttempt` and `PaysOnceWhenSerene` assume that there is a dearest charge. The rest assume nothing more. Each is Spec => []Inv, or a box of an action, from an inductive invariant:

- **TaskCredits.** That `reserved` is at most `Cost` times the number of held reservations is not inductive: a submit inserts its reservation one statement before it raises the counter. The invariant bounds the counter by the reservations already `Counted`, those whose submit has raised it; a submit about to raise it still has its reservation active (`Reserving`), because until the task's row exists nobody else knows of the task (`Fresh`). The bounds are cardinalities of finite sets, so the step lemmas are about gaining or losing one member. `OwnCreditsOnly` makes the bound an equation (`Exactly`): as long as each reservation has one claim at most, whoever is between the statements of a settlement is the only one there (`Sole`), so that one decrement belongs to one reservation.
- **TaskCredits, the ledger.** `LedgerExplainsBalance` is inductive with the types: a charge leaves the balance in the step that makes its attempt one of the `Unrecorded`, and is written in the step that takes it out. The sums are over sets whose size is not known, so `FiniteSums` shows that the library's fold over a finite set gives the same total in every order, and changes by as much as the function does at one point.
- **TaskCredits, attempts.** `Tally` counts: every attempt handed out was made, was lost with its worker, or holds the job, and each stall has a dead attempt of its own. `FiledExactlyOnce` follows with the entries counted wherever they are. So does that the model has as many attempts as retries, stalls and crashes can need: no bound ends a task.
- **TaskCredits, who is left.** `SettlerRemains` and `RunnerRemains` are the safety halves of the liveness properties. For the first, `Clear` says that who has passed the statement that settles a reservation finds it settled. It is true only as far as `Unhampered` says: after a failing call, a task that costs nothing, or a worker that dies after its attempt was timed out, a reservation really may be left to nobody (section 5). For the second, `Carried` says who has a task whose row says queued or running, and that once a cancel request has marked the row and may take the job away, only an attempt already at work can have set it back to running.
- **TaskCredits, what a task pays.** `ChargedOnce` does not hold. `Within` bounds what a task was charged by the number of its attempts past their consumption row; a fault, a crash or a timeout may give it several, and without the three there is one attempt at most that gets so far.
- **CreditLedger.** `TypeOK /\ Written /\ Single`: a request past the insertion, a recorded event and an acknowledged one have a row (`Written`); an undisturbed event has one request at most, and if it was granted it is recorded, or about to be by that request, while no request that will grant it meets its record (`Single`). `OnceSquared` is about single steps from a state that is `Squared`: a reconciliation that is about to write then holds the very sum the balance has.
- **FleetManager.** Seven parts. `Typed`: the types. `Started`: the agents that exist are those of the chunks so far. `Chunked`: a chunk is done with before the next starts. `Layered`: a wave waits for earlier waves only. `Acyclic`: no set whose members all wait for a member has one scheduled. `Answered`: one result for each task of the chunks past. `Called`: calls are made on agents that exist. That `schedule()` stops exactly at the tasks on or behind a cycle is shown on sets: what was run never meets a set whose members wait for one another, and what is left when no wave can be formed is such a set. `ImplementsGraph` maps each step to one of TaskGraph or to a stutter. `ControlsAgree` needs one part more, `Told`: a call in flight on an agent that is not muddled is the only one there, and the loop already has the status the agent will get when it ends. The history variable makes this a statement about each agent, so it holds for any number of operators and with publications that fail. `StopsForGood` adds `Steered`, that a pause or resume still in flight was not made on a stopped agent; with `Told` the loop of an agent marked failed has then been told to stop (`Halted`). `NeverStuck` says which agents a fleet may be waiting for when none can take a turn: by `ControlAgrees` a paused loop is shown as paused, so that resumeAgent and stopAll find it, or a call is in flight on it, or calls overlapped there.
- **SessionControl.** `Shape` (the types, and that a task at work and a handler past its signal have an object) carries the types. `HoldCanBeLifted` is not inductive, because a loop may be paused before any task waits on it: `NoneHidden` says that no loop outside the map is paused at all and that none is while a cancel cleans up, unless something crossed. It is preserved because only a pause or takeover pauses a loop, always that of the object in the map, and only a clean-up or an installed object takes an object out. `NoneMissed` extends `ClosedWhenDone` to the time between the check and the write. `NeverStuck` follows from `HoldCanBeLifted` and from the turns of a loop: one that has none left waits in a pause.
- **ExecutionEngine.** `Ordered`: a call that has left "waiting" has those of earlier groups over; that the grouping is safe is then a lemma about `ToolGroups` alone. `Counted`: the results a call has given at each stage. `Finished`: the generator goes on only when every call is over and it is not blocked. `Streaming`: for each shape the buffer may have, what the consumer has been told and what follows; from it each step is one of EventStream or a stutter. `Quiet` is part of the invariant. `NeverStuck` needs of `ToolGroups` only that some group can start while calls wait, for any list of calls; `AlwaysDescends` is a lexicographic measure, of iterations, what is left of the current one, the stages of its calls and the events not yet taken. Together they leave to fairness only that an enabled step is taken.
- **SandboxPool.** `Shape` (the types, but for what relates pool, live and running) and `NoLeak` are inductive together; that what runs unknown is at most the lapses is a cardinality that one lapse raises by one. Without sessions nothing names the user of an entry, and what protects one is indirect. `Guarded`: a sandbox in the pool with one user has no timer running, and is marked busy while its user runs a command. `Noticed`: where two clients use one sandbox, `shared` says so. From both, a step that takes a sandbox out of the pool, or hands it out, meets no such user. `StaysWarm` strengthens RefilledAtRest to all states (`Refilling`): unless `short`, the warm and the warming sandboxes are enough or the pool is full, or a destroy under way is still due to replenish it. A sandbox between two commands is counted as warm by replenishPool, and the next command takes it away unnoticed: hence `Warm`.
- **CircuitBreaker.** Types, with the record of the last failure. `TripsInTime` needs that the timestamps stay in the order they were pushed: what pruning leaves from the front is then exactly what lies in the window, so that its length is what the threshold is about. `OnlyMends` is about the steps from states in which no call in flight is going to fail, a set of states it shows to be closed under them.

Only model-checked are the liveness properties: TaskEnds, ReservationSettles, PaidArrives, Converges, StopIsHeeded, FleetSettles, Settles, StreamEnds and Recovers. They rest on fairness, which the prover does not reach. For each its safety half is proved: that nothing which must still happen is left to nobody, and what a step can and cannot undo (for PaidArrives this is AlwaysGranted). Every invariant, action property and refinement the passing runs check is also a theorem; ChargedOnce, which does not hold, has `PaysPerAttempt` and `PaysOnceWhenSerene` in its place.

## 5. What does not hold

Found while modelling. Four are runs with a counterexample: **task_charged** (a retried task is charged again), **ledger_refunds** (release and reconcile create credits), **pool_shared** (a sandbox in use is handed to a second client) and **session_cancelled** (a cancelled task goes on with its next phase). The others are left unasserted, so that what is checked can be relied on:

- two submits may reserve more than the balance (`tasks.ts:57` reads, `:79` increments);
- a task submitted while its session closes stays queued in a closed session;
- a worker charges a task whose cancellation gave the reservation back;
- two settlers that both find a reservation active decrement the counter twice, the second time at the expense of another task: `EachPaysItsOwn` is about reservations claimed once;
- a job whose attempts are used up may never reach the dead letter queue: the listener is not awaited, a failing add is logged and swallowed (`queue-worker/src/index.ts:80-99`), and the worker may die before it;
- an attempt whose first publications fail leaves its task running and its credits reserved until the next attempt, and for ever if it was the last;
- a completed task that consumed nothing keeps its reservation for ever, which is why `ReservationSettles` is checked with a charge;
- a cancelled task that a worker set back to running stays so if that worker dies and the cancellation removes the job: `TaskEnds` is checked without crashes;
- a payment whose deliveries overlap, or whose request fails between its ledger row and its record, is granted twice;
- a payment whose event names no organisation, no known customer or no amount is recorded as processed and answered 200, so that it is neither granted nor delivered again (`stripe.ts:93`, `:119`, `:331`, `:338`): `AcknowledgedIsGranted` excepts what a handler declined;
- the 50 default credits have no ledger row, so the first reconciliation takes them back; and after a charge larger than the balance it makes the balance negative;
- overlapping operator calls can leave a paused loop on an agent marked failed, which neither resumeAgent nor stopAll will touch; a late pause or resume overwrites "completed"; stopAll does not stop chunks that start later; a rejected executeTasks loses the results of agents that returned;
- a container that the provider fails to stop, to remove or to clean up after a failed creation runs on, and nobody knows of it: `NoLeak` counts these as lapses;
- no production caller of `acquire` names a session, so that a sandbox is offered to the next client, and may be evicted by its timer or the cleanup cycle, between any two commands of the client that has it: `KeptWhileEngaged` and `AloneWhileEngaged` are what is left of exclusive use;
- evictExcess may destroy a sandbox acquired since it chose it, and, choosing from a snapshot, may leave fewer warm ones than wanted, which nothing replenishes; concurrent creations take the pool over maxPoolSize;
- the row and the loop of a session agree only while requests come one at a time to a session in memory: a pause under way writes "paused" over "cancelled", and a pause before the first task is in memory leaves a running loop under a paused row;
- a hold that comes while a cancel cleans up, or before a second look-up replaces the object, can be lifted by nobody; the release of a takeover resumes a loop that someone else had paused;
- a session is closed while one of its tasks still runs, when that one was cancelled (`tasks.ts:399`) or waits for a retry behind a row that says failed (`processor.ts:295`): `ClosedWhenDone` excepts the tasks in `early`;
- `TaskRouter.currentSessionId` (`task-router.ts:139`) is one field for all the tasks it processes at once;
- a command listed after two writes of a file runs before the second of them, and tools the classification does not know, `git_commit` among them, run with the reads, before every write;
- the guard of a call in a parallel group that throws is dropped by `Promise.allSettled`: the agent gets no result for that call; a validation that throws after the result was given, or a malformed result that throws while it is read, gives it two;
- the calls of a group share one counter of failures in a row, so that a success which ends last hides any number of failures;
- the watchdog's timer is disarmed only before a successful completion and when the watchdog itself aborts: a run that is blocked or escalated, throws or is abandoned leaves it firing;
- an agent whose iterations are used up completes as a success;
- the breaker counts successes of calls begun before it was half-open;
- a command started in the background of a sandbox outlives its tool call, and a stopped agent: `Quiet` is about calls.

## 6. Not modelled

Data rather than control is left out everywhere: prompts, model answers, files, embeddings, descriptions, wording. So are events nobody in a model reads, rows written for statistics, wall-clock durations (a timer may fire at any moment) and authentication. `SessionWatchdog`, `SessionRecovery`, the dead letter replay, the credit-grant producer, `CreditTracker`, `CreditService.reserve/commit/release`, `RequestCoalescer`, `ResourceLock`, `executeSwarm`, `BillingGuard`, `BudgetGuard`, `ExecutionEngine.resume`, `streamWithAISDK`, the request methods of the checkpoint manager, `mountYjsServer`, `backpressure.ts` and the `/pool/manager` endpoints of `PoolManager` have no production caller at this commit. The sequence numbers of `pub-sub.ts` and the replay of `event-stream.ts` are not modelled because the events of the SSE route carry no id: no client ever asks for a replay.

SessionControl leaves out the worker's time limit and `tasks.updateStatus`, which TaskCredits has, the status of the object in memory and the agents' rows, which decide nothing. ExecutionEngine leaves out compression and recovery prompts, which only add messages, the sums of tokens and credits, and what the watchdog looks at (it may abort whenever it is asked).

## 7. Plan

Done, in this order: TaskCredits, CircuitBreaker, SandboxPool, AgentLoop with TaskGraph and FleetManager, CreditLedger, SessionControl, ExecutionEngine with ToolGroups and EventStream, each with its proofs.

Next, most important first:

1. **Composition**: an AgentLoop that consumes ExecutionEngine through EventStream in place of its finitely many events; TaskCredits with CreditLedger's reconciliation over one balance.
2. **PoolManager**, when something calls its endpoints: affinity holds, health checks and evictions over the same life of a sandbox, as a second implementation of what SandboxPool promises.
3. **Scheduling as an algorithm**: the critical path and levels of `scheduler.ts` against a reference definition over all graphs of three tasks.
4. **Libraries**: `HttpClient`'s breaker and the rate limiters, as what a caller could rely on; the breaker as an abstract specification both breakers are compared with.
5. **Proofs**: those of the modules above, as they are written. Runs of one component that ask related questions are merged as the project grows.
