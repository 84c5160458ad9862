# Verification of ai-mesh

TLA+ models of the parts of ai-mesh whose correctness depends on the order in
which tasks, connections and restarts meet, the TLC runs that check them, and
TLAPS proofs of what matters most. Paths are relative to the repository.

    tlc -workers 2 -config RouterScenarios.cfg MCRouterScenarios.tla
    tlapm WorkRouterProofs.tla

## 1. The system

A *coordinator* (`coordinator/`) accepts TLS connections from *agents*
(`agent/`), one per machine. An agent runs *capabilities* (`capabilities/*`):
the `llm` capability serves models with llama-server, `review` reviews the
commits of the user's repos with those models. Humans reach the mesh through
the coordinator's dashboard (HTTP and WebSocket), an OpenAI-compatible
endpoint and a CLI.

| component | state | operations | interacts with | what is hard | what makes it correct |
|---|---|---|---|---|---|
| inference router (`coordinator/src/work_router.rs`, `inference.rs`) | `in_flight`, `rest_until`, `pending_inferences`, `pending_streams`, per-task locals | pick a machine for a home command, pause review work, begin/finish, send, wait, cancel, report | registry (Ready models), connection handlers (demux of results), agents, the review capability | several mutexes taken one after the other; callers that drop the future; cancels that may be lost; results racing timeouts | a machine is never claimed twice for work; `in_flight` is true; every work request is reported; nothing stays generating for nobody |
| coordinator connections (`coordinator/src/server.rs`) | `connections` map, per-handler `node_id`, the registry's model rows | heartbeat, model status, results and chunks, early returns, cleanup | agents, registry, router | handlers of an old and a new connection of one node overlap; frames are stale or damaged; cleanup is keyed by node, not by connection | tables follow the live connection; waiting requests fail fast; a reconnect restores resident models |
| agent loop (`agent/src/main.rs`, `agent.rs`, `dispatch.rs`) | connection, capability channels | connect, startup burst, heartbeat, start capabilities, reconnect | coordinator, capabilities | order of the first frames; read timeouts at both ends | the re-report arrives after the heartbeat that clears |
| code-review runs (`capabilities/review/src/{lib,run,store,schedule}.rs`) | queue (the running request stays at its front), SQLite rows: runs, `last_reviewed_commit`, `last_scheduled_at` | enqueue, merge "tested" requests, timeslots, execute, record, restart | git, router (through the coordinator), dashboard, `all-tests.sh` | merging into a queue whose front is running; three store writes without a transaction; restarts; late requests | the bookmark never goes back and passes no commit in silence; slots and interrupted runs are made up for |
| code-review dispatch (`run.rs` dispatch_all, `lib.rs` Link and asker, `codereview/src/assign.rs`) | tasks with attempts, cloud turns, `last_progress`; `pending_work` and `tx` of the link; `questions_waiting` | hand out chunks, checks and opinions, take results, put back, give up; register, send, drain; answer a question first | router, coordinator connection, llm agents | a call that registers and sends while a new connection drains; NoWorker puts a task back; a stall clock several paths reset | a machine has one task of the run; every call comes back; the run and every question end |
| llm capability (`capabilities/llm/src/{lib,llama}.rs`) | `LOAD_GUARD` and the model in it, `LOAD_GEN`, `UNLOAD_REQUESTED`, llama-server, wanted-model file, `CURRENT_TX`, `INFLIGHT` | load, retry, unload, start of a connection, infer, cancel | agent loop, llama-server, coordinator | one guard queue for loads, unloads and starts; an unload keeps the capability's other messages waiting; a report after the guard is let go; a handle entered after its task was spawned | what is held as loaded is served and listed; wanted models come back; a cancel finds its generation |
| node registry (`coordinator/src/registry`) | SQLite tables of nodes, models, rooms, lights, ... | upserts and queries | all | one connection behind one mutex | rows follow the handlers |
| scheduler (`coordinator/src/scheduler.rs`) | none (pure) | choose a node by free memory and load | registry | ties, stale memory figures | a node that can hold the model is chosen if there is one |
| OpenAI endpoint, dashboard art, intent, voice | a stream adapter or one awaited call each | one request each | router | abandoned waits | what they leave behind is cancelled |
| cloud gateway, llm-rotation | providers and their rests | try providers in order | external services | rests that expire beside requests | a resting provider is not asked |
| effects runner (`coordinator/src/effects/{runner,les}.rs`, `http/api/{effects,lights,scenes}.rs`) | `room_effects` row, the `Notify` permit, the runner's instances, LES (what was sent last to each bulb), the light snapshot | select, clear, exclude, recall a scene, pause when a bulb goes offline, tick, send, rehydrate | registry, dashboard, lighting agent | write, notify and read are three steps; a dedup gate that compares with what was sent, not with what the bulb shows | no request is forgotten; a bulb in the effect gets its colour back |
| lights, zigbee, sensors | bulb state, retained reports, debounce | commands, reports, availability, warm-white restore | MQTT, effects | mostly translation | reports in order |
| token state file (`coordinator/src/state.rs`) | token in memory and on disk | rotate by hand, load | agents | one task writes it | nodes are not locked out |
| audio, TV, soundbar, media, eBay, chords | device or feed state | commands and polls | external devices | mostly I/O | last command wins |
| agentterm, agentwatch | terminal queues; a second dispatcher | queue, deliver | agents | delivery order | input arrives once, in order |
| wire protocol, TLS, mDNS, CLI, frontend | none or a connection | encode, sign, find | all | I/O | - |

`PROJECT.json` lists every component with its status, and under "hazards"
every place where this code is hard to test, at its line, with the properties
aimed at it; a hazard that no property covers says why.

## 2. The modules

### WorkRouter

The whole path of a request through the router. A request is one tokio task;
`pc[r]` is the await or lock region it stands before:

| `pc` | code |
|---|---|
| new, looking | before and after the candidates are read from the registry (`Look`) |
| picked | `select_control_target` / `pick_work` have let go of the router lock; a review task has been claimed by `begin` in the same lock (`PickWork`), a home command has not |
| connected | the sender is cloned from `connections` (`Connect`, `ConnectWork`) |
| committed | recorded in `in_flight` and in the pending map (`Commit`, `CommitWork`) |
| waiting | the message is in the machine's channel (`Send`); the task waits for result, error, pause or timer |
| reporting, done | a review task's `finish` and report (`Report`) |

`Control` are the callers of `dispatch_local_inference`, `Stream` those of
`dispatch_local_inference_stream`, `Work` the review tasks of
`run_work_request`. `ready` abstracts the registry, `conn` the `connections`
map, `pending` and `mail` the pending maps and the channels in them, `wire`
the messages on the way to an agent (a set: the agent spawns a task for each
message, so they are handled in any order), `machine` the requests an agent
queues or generates. `Abandon` drops a home command's future at an await: the
`InFlightGuard` runs, the lines after the await do not. `resting` is
`rest_until > now`; `RestEnds` is the clock. A machine has one connection at a
time here.

Reporting to mac1 always succeeds in the model, text and token counts are
left out, and so is the order in which the registry returns candidates of
equal size and node.

### NodeSession

One node's overlapping connections, for `handle_connection` and
`process_message` on one side and `agent/main.rs` and `LlmCapability::start` on
the other. `sess[c]` is where the handler of connection c is: reading before
its first heartbeat (`open`), between registry and `connections` lock
(`greeted`), reading (`named`), in each step of the cleanup (`unroute`,
`unlist`, `failInferences`, `failStreams`), `over`, or `aborted` by an early
return. `entry` is the connection whose sender the map holds. `lister` is the
connection whose handler last recorded the model as Ready: the registry keeps only
whether there is such a record (`listed`), who made it is a history. `inbox` are the
frames under way. `Resident` is
the model in llama-server, which outlives connections. Requests
go through the steps of `handle_cli_inference` (`Cli`) or of a streamed request
(`Streamed`). Every table is keyed by node and every handler touches only its
own node's keys, so one node is enough.
The runs have a CLI request and no streamed one: the two differ in
`FailStreams` and in what `SendFails` removes, and the whole life of a streamed
request is in WorkRouter. Device, sensor and audio messages, which
`process_message` forwards, are left out.

### ReviewRuns

The queue, runner, scheduler and store of the review capability. `queue` is
`Inner.queue`: `Take` reads its front and leaves it there, `Pop` is the
`pop_front` after the run. `step` walks through `execute_inner`: fetch and the
checks against the bookmark (`Fetch`, `NothingNew`), the review, and the three
statements that end a run (`SaveFindings`, `FinishRun`, `MoveBookmark`). A review that
finds no reviewable file goes straight to the end (`NothingReviewable`). Any other
fails (`RunFails`) or gives up some of its chunks, or none (`Reviewed`): `gap` are the commits
with changes in those chunks, any part of what it looked at. The report, a file
written first (`WriteReport`), then says that chunks could not be reviewed: `told`. The
run finishes as done and its bookmark moves all the same. `row`, `bookmark`,
`lastSlot` and `covered` are in SQLite and `told` in the report files: they survive
`Crash`, everything else does not. `Start`
is the first `start()` of a process: rows still `running` are queued again, by
their kind, and closed. A branch is its commits 1, 2, ...; `slot` counts the
timeslots that came round, `SlotDue` records the last of them before
`SlotQueued` queues its run (two awaits in the code). For a repo that has had no
scheduled run, `due` looks back one hour only: `late` says that the newest slot is
older (`HourPasses`). `covered` is a history of the commits whose findings were stored.

### ReviewLog

What the bookmark promises, as an abstract specification. That every commit it
passes was reviewed is not what the code promises: it moves over chunks that were given up.
What it promises is that none is passed in silence: a report may tell that a range was
reviewed in part (`Tell`), the findings of the commits since the bookmark are
recorded, of all but some of those it was told of (`Record`), and the bookmark moves over
commits recorded or told of (`Advance`). Queue, kinds of runs, scheduler, failures
and restarts are hidden. ReviewRuns implements it with `bookmark` for `mark`,
`covered` for `seen` and `told`; `NoGap` is what a user may rely on.

### WorkClaims

The contract between the router and whoever asks for review work, as an
abstract specification: a machine is claimed by one request at a time, never
while it rests; a claim ends with its request or because a home command takes
the machine, which then rests. WorkRouter implements its `Spec` (mapping: the
holders of a machine are `WorkOn(n)`, the machines that rest are `resting`), so
it is the guarantee of one module; ReviewDispatch contains a small coordinator
and must implement the same contract, with `FairSpec` (every claim ends), so it
is the assumption of the other.

### ReviewDispatch and TaskAssign

One review run. `loop` is where `dispatch_all` stands (top of the round,
snapshot of the workers awaited, waiting for a result), `tstate` and `attempts`
are the tasks, `queue` and `used` the `CloudPlan`, `quiet` says that
`last_progress` is longer ago than the stall limit. `call` is each caller's
`infer()`: its waiter entered (`Register`), sent (`Send`), drained (`Drain`, of
`start()`), answered or timed out. `asker` is the loop that answers questions
ahead of the run, `waiting` the count that holds the run back. `Result` is the
whole handling of a result with all it puts back, gives up or raises: a
finding of a finished review adds a check task and remembers who raised it.
`TaskAssign` is `assign()`: each waiting task in turn takes a machine that is free,
fits and, for a check, serves another model than the one that raised the
finding; `IsAssignment` says what that promises.

Prompts, diffs, parsing and the text of findings are left out: a finding is a
number, and a review raises any subset of them. That mac1 is the coordinator's
own machine, with the link as its only way to the router, is as in the code.

### LlmAgent

The llm capability of one agent. `guard` is the queue of `LOAD_GUARD` (a fair
tokio mutex): load attempts, the `start()` of a connection that wants to see what
is loaded, and an unload. `attempt` are the chains of load and retry, `gen` is
`LOAD_GEN`, `flag` is `UNLOAD_REQUESTED`, `server` the model llama-server runs,
`wanted` the file that survives a restart. `SlotFree` is the lock of the
dispatch table: one message of a capability is handled at a time, so a handler
between two of its steps keeps the others waiting. `view` is the coordinator's
row; a report on a closed connection is lost. `task`, `inflight` and `entering` are
the generations, with one permit. `overtaken` is a history variable: the next
holder of the guard began before the last one's report was out.
Layers, ports, progress and tokens are left out.

### EffectRunner

One room. `at` is where the runner is in its loop (`rehydrate` reads the rows,
`top` sees whether a tick is due, `dispatch` sends what the gate let through, `poll`
and `wait` are the two sides of its `select!`). `handlers` are requests between two
of their locks: each has written its row and has yet to exclude, pause, notify
or send a scene. `snap`, `saved`, `told` and `light` are what the dashboard
believes, what SQLite keeps, what a bulb published and what it shows; `les` is
what the runner sent. A state report arrives in the order of publication, the
agent's debounce keeps the latest one, and a bulb reports the field of the colour mode it is in
(Zigbee2MQTT, as `parse_state_report` reads it). `overdue` and `unheard` are
histories: ticks begun since a permit that still waits, and bulbs whose last
command or report was lost.

Kept of a bulb is its colour, of an effect the colour of its frame: brightness,
on and off, parameters and the effects' arithmetic are left out. An effect in
motion passes the gate with every frame; the hard case, and the one modelled,
is a frame that stays. `Once` are the effects that send a colour only when their
own frame changed (breathing, snake). Rooms share nothing but the runner's loop and its permit.

### Proof and model modules

`MCWorkRouter`, `MCNodeSession`, `MCEffectRunner` give the constants that a `.cfg`
cannot write. `MCRouterScenarios`, `MCRouterLiveness`, `MCLlmAgent` and
`MCReviewDispatch` put several small instances into one run: `Init` chooses a
scenario, which bounds what the environment does (who asks, what fails); the
code's own steps are the same in all of them.

`WorkRouterProofs`, `WorkClaimsProofs`, `NodeSessionProofs`, `ReviewRunsProofs`,
`TaskAssignProofs`, `ReviewDispatchProofs`, `LlmAgentProofs` and `EffectRunnerProofs`
hold the theorems.
Definitions commented "mutant of ..." are the plausible bugs each property was
tried on: TLC finds the property violated when the mutant replaces the
definition.

## 3. The runs

| run | instance | what it shows |
|---|---|---|
| router_scenarios | machines 1 (22 GB) and 2 (5 GB) that stay, one home command, two review tasks (symmetric); or one machine that may disconnect and lose its model, two home commands, one review task | `InFlightIsTrue`, `NoStreamLeft`, `EntryRemoval`, `WorkGoesToIdleMachine`, the types, and that the router implements WorkClaims: claims are exclusive and a machine that rests after a pause has none |
| router_liveness | one machine that may disconnect, one home command, awaited or streamed, one review task, fair | every review task is reported (`WorkIsReported`); generation for nobody stops (`UnwantedStreamsStop`) |
| router_unrecorded | one machine, one home command, one review task | *violation*: a home command that has picked a machine is not recorded yet, so a review task takes the machine too, and is not paused |
| router_abandoned | one machine, one home command, one review task | *violation*: an abandoned home command stays on the machine and no cancel is sent |
| session_overlap | two connections of a node, one load and one unload, one CLI request, at most one stale or damaged frame | `ListedOnlyInSession`, `EntryComesBack`, `FastFailure`, `ReconnectRestoresModel` |
| session_late_cleanup | the same without mishaps and requests | *violation*: an old handler's late cleanup clears the model the new connection re-reported, for good |
| review_runs | one repo, two commits, three slots of which the third is the sweep's, one failure or restart, reviews complete or in part, manual and tested requests | `FrontIsExecuting`, `RowIsExecuting`, `GapsAreTold`, that store and reports implement ReviewLog (a bookmark never goes back), `SlotIsReviewed`, `InterruptedRunsAgain` |
| review_tested_lost | one repo, two commits, tested requests in order, no trouble | *violation*: a tested commit written over the running request is popped with it |
| llm_agent | two connections, two models and an unresolvable one; four scenarios: two commands that cross and a lost connection; failed pulls and restarts; an unload after a failed pull; a request and its cancel beside an unload | `LoadedIsServed`, `RunningIsCancellable`, `LoadedIsListed`, `CancelIsHandled`, `WantedIsLoaded`, `FailedIsRetried` |
| review_dispatch | two machines of different size, three providers, one or two chunks, a finding; nine scenarios with a home command, drop-outs, lost connections, a call without answer, a question, one or two opinions | `MachineTakesOne`, `AssignmentIsSound`, `OpinionsDiffer`, `EndedIsComplete`, `CallEnds`, `RunEnds`, `QuestionEnds`, and that its coordinator is no better than WorkClaims |
| effect_runner | one bulb, an effect in each colour mode, any two of requests and mishaps (failed send, power cut, restore, lost connection, restart) | `WithinOneTick`, `LagIsNotified`, `ColourIsReclaimed` |
| effects_breathing | the same bulb, an effect that sends its colour once, one warm-white restore | *violation*: the bulb never gets the effect's colour back |

Why the bounds are enough. A pause needs a home command, a review task and a
machine; a double claim two review tasks; the choice between queueing and
pausing a second machine. Machines interact only through `Largest` and
`LastLargest` over candidates. A stale handler needs exactly one later
connection. In ReviewRuns repos share only the runner; two commits are what it
takes for a request to be late, for the bookmark to pass over one and, with
`FirstRun = 1`, for the first review not to reach the beginning; three
slots allow a night, a missed night and a sweep. `MaxTrouble = 1` puts one
crash or failure at every point.
In LlmAgent two commands cross in every order, and a failure or a restart
before, between and after them is what the guard, the generation and the wanted
file are for. In ReviewDispatch the attempts limits are 2 and the pauses of a
question 1, so that each is reached; two machines are the least where a task fits one
only and where another model can check; `AssignmentIsSound` looks at `assign()` on every
subset of listed and free machines that a reachable run could have. In
EffectRunner two events are the least in which a request meets a mishap or
another request inside the runner's loop; bulbs do not interact except through `todo`.
The proofs have none of these limits.

`CHECK_DEADLOCK FALSE`, because all these systems may rightly come to rest:
requests are used once, and what the environment does is bounded.

What is bounded by a constant is named "bound" at its declaration:
`Flaky`, `MaxConn`, `MaxChanges`, `InboxBound`, `Mishap`, `MaxCommit`, `MaxSlot`,
`MaxQueue`, `MaxTrouble`, `Kinds`, `InOrder`, `MaxCommand`, `MaxLost`, `MaxHome`,
`MaxGone`, `MaxTimeout`, `MaxQuestion`, `MaxInput`, `Faults`, `MaxEvents`; the rest
are the scenarios.

## 4. Fairness

Weak fairness only, on what tokio runs or a timer guarantees:

* WorkRouter: a request's task steps (each wait has a timer), an agent's
  handling of a message that has reached it, and the tokens of a generation.
  No fairness for reconnecting, for rests ending or for generations ending.
* NodeSession: capability start, the agent's heartbeat timer, answers, the
  handlers and their cleanup, and both ends noticing that the other has gone (EOF or read
  timeout). None for new connections, loads or request timeouts.
* ReviewRuns: the runner (a review ends: every wait in it has a limit), the
  scheduler's minute tick and the start of the process. None for pushes,
  slots, crashes or failures. That a review ends is assumed here and is
  `RunEnds` of ReviewDispatch.
* ReviewDispatch: the tasks of mac1, its clock, the client that connects again,
  a coordinator that answers what it took in and lets a machine go after a home
  command. Taken together per component, so no caller is favoured. None for home
  commands, machines coming or going, lost connections, questions or
  `TASK_TIMEOUT`: `CallEnds` and `RunEnds` do not rest on that timer.
* LlmAgent: the agent's tasks, and that a download, the health loop and a
  generation end, by their timeouts if nothing else ends them. None for commands,
  connections, cancels or restarts.
* EffectRunner: the runner's loop, handlers that have begun, reports on the way,
  bulbs acting on a command. None for requests or mishaps.

Two timing assumptions. LlmAgent's `Healthy`: the health loop sleeps a second
before its first look, in which an unload that has let go of the guard gets
through its two statements. ReviewDispatch's `Place`: the snapshot of the workers
is answered; when it is not, the code takes it for an empty one and the round is
`Place` with nobody free.

## 5. What the models say against the code's own words

1. **A home command is recorded late** (`inference.rs:151`, against
   `work_router.rs:3-5` and `:9-11`): `select_control_target` picks an idle machine and
   lets go of the router; `begin` records the command only at `:162`. A review
   task that picks in between claims the same machine: the command
   is sent to a machine busy with review work, none of which is paused.
2. **An abandoned home command goes on** (`http/api/art.rs:298`, against
   `art.rs:134-137` and `:293-297`): dropping the future sends no cancel.
3. **Late cleanup** (`server.rs:365`, against `llm/src/lib.rs:355-359`): cleanup goes
   by node id and undoes what a newer connection reported.
4. **Tested request lost** (`review/src/lib.rs:194`, against `:193` and
   `docs/code-review.md:226-228`): the running request is still at the front of the queue
   and is overwritten as if it waited.
5. **Breathing and snake never reclaim a bulb** (`effects/breathing.rs:147`,
   `snake.rs:223`, against `effects/runner.rs:513-514` and `lighting/src/lib.rs:161`):
   a stale LES entry is cleared so that the gate opens for the next tick, but these
   effects put a colour into a frame only when it differs from their last one.

Each of these is a run that TLC ends with a counterexample.

Some properties name exceptions in their statements. An **early return**
(`server.rs:300`) skips the cleanup that `:365` and `:391` describe: `FastFailure` does not
hold of its requests, and `ListedOnlyInSession` allows what its handler recorded to stay
(`aborted`). A first heartbeat dropped as stale (`:285`) leaves a handler that
records models without knowing whose: `FastFailure`, `ReconnectRestoresModel` and the second
exception of `ListedOnlyInSession`. `ReconnectRestoresModel` also asks that all
older handlers are done, which excludes 3.
`SlotIsReviewed` excepts a nightly slot taken over by a sweep's
(`schedule.rs:63`), which reviews other things, and a repo that has had no scheduled run,
whose first slot is not made up for once an hour has passed (`schedule.rs:50-58`).

Seen while modelling, without a run of their own:

* router: streamed requests are never recorded as busy (`inference.rs:200`). This is
  a limit that `docs/code-review.md:451-452` states. The theorem
  `WorkGoesToIdleMachineWithoutStreams` says what holds without them.
* llm: `load_once` lets go of the guard before it reports (`lib.rs:319-325`), so a
  later holder's report may come first and the earlier one then stands; `LoadedIsListed`
  excludes it by `overtaken`. An unload that waited for a load reports
  on the connection it came in on (`:467`), which may be closed by then. A failed download
  leaves the old server running with nothing marked as loaded; a server that dies
  later leaves its model marked. A cancel that overtakes its request finds
  nothing.
* dispatch: a call that times out leaves its request at the coordinator, and the
  task's next one runs beside it. A `NoWorker` costs no attempt, and both it (`run.rs:1226`)
  and the hand-out before it (`:1131`) reset `last_progress`: neither limit bounds a
  run that is refused over and over. Snapshot and `pick_work` read the
  same tables, so a machine listed free refuses only for something that came in between; in the
  model that is a home command, and `RunEnds` holds because home commands are bounded. Chunks given
  up do not fail the run, unless all are, so the bookmark moves over them (`run.rs:690-718`,
  `:785-786`); the report says so (`GapsAreTold`).
* effects: a lost offline or state report leaves a bulb wrongly listed until the
  next one. A bulb taken back into an effect waits for the next tick,
  though `http/state.rs:503-505` speaks of an immediate one. A tick between a manual
  command and its exclusion takes the command back once. `room_command` excludes
  no bulb, so an effect overrides it.

## 6. What is proved

For all values of the constants that satisfy the named assumptions (sets of
requests disjoint, node ids integers other than `NoNode`, candidates over
nodes and models; bounds natural numbers, `FirstRun` and `MaxCommit` positive,
`NoRun` not a request; a machine serves a named model, and providers are no
machines):

| theorem (module WorkRouterProofs) | statement |
|---|---|
| Typing | `Spec => []TypeOK` |
| EntriesTrue, OneWork, RestIsKept | `InFlightIsTrue`, `OneWorkPerMachine`, `RestingMachineHasNoWork` always hold |
| NoStreamLeak | `NoStreamLeft` always holds |
| EntriesKept | `EntryRemoval` |
| WorkGoesToIdleMachineWithoutStreams | `Stream = {}` implies `WorkGoesToIdleMachine` |

The router's inductive invariant is `RouterInv`: the three safety invariants
and `Placed`. They need one another. A claim is exclusive because the machine
is not `Busy`, which means something only if entries are true; a rest can start
with no work left only because `preempt` takes out *all* entries of the
machine; and that entries are true of a task that was paused while it was being
sent needs `Placed`: no paused task is without a claim, and no task without a
claim has a machine. `NoStreamLeak` needs `Mailbox`: what was delivered has left
`pending_streams`, and nothing is there before the task enters it. The two action
properties follow from `RouterInv` and a case split over Next.

| theorem (module ReviewRunsProofs) | statement |
|---|---|
| Typing | `Spec => []TypeOK` |
| PopsWhatItRan, NoStaleRow | `FrontIsExecuting`, `RowIsExecuting` always hold |
| NeverBack | `BookmarkNeverGoesBack` |
| NothingPassedInSilence | `GapsAreTold` |
| RunsKeepLog | `Spec => ImplementsLog` |
| NothingUntold | `ReviewLog!NoGap` always holds of store and reports |
| NeverSleptOn | `NoLostWake` always holds |

The inductive invariant is `IInv`: types, finitely many rows (so that `Start`
can list them), nobody runs before `start()`, the two invariants above,
`AheadOfBookmark` (from the check in `Fetch` until the bookmark moves the run is
ahead of it: only this run moves it), `GapIsTold` (a run that comes to `SaveFindings`
with a gap has told of its whole range in the report) and `FindingsBeforeBookmark` (from
`SaveFindings` on, all the run looked at is covered or told of). `EnqueueKeepsFront` is the
lemma on the queue: whatever is asked for, its front stays, up to the commit of
a tested request; that exception is finding 4.

*Refinement.* `WriteReport` is a `Tell`, `SaveFindings` and `NothingReviewable` are a
`Record` and `MoveBookmark` is an `Advance`, since by
`AheadOfBookmark` the bookmark is where it was when the run was fetched, by `GapIsTold`
the findings that are missing belong to a range told of, and by
`FindingsBeforeBookmark` what the bookmark passes has been stored or told; every other
step, a crash between them among these, leaves the three variables alone
(`LogStep`). `NothingUntold` follows from the log's steps only (`NoGapKept`).

| theorem | statement |
|---|---|
| WorkClaimsProofs: ClaimsSafe | whatever implements WorkClaims claims a machine for one request and never while it rests |
| WorkRouterProofs: RouterImplementsClaims | `Spec => ImplementsClaims` for WorkRouter |
| NodeSessionProofs: SessionTypes, EntryOpen, ListedInSession | `TypeOK`, `EntryOfOpenSession`, `ListedOnlyInSession` always hold |
| LlmAgentProofs: LlmTypes, LoadedServed, Cancellable, LlmListsLoaded | `TypeOK`, `LoadedIsServed`, `RunningIsCancellable`, `LoadedIsListed` always hold |
| TaskAssignProofs: AssignIsAssignment | `IsAssignment` of what `assign()` returns, for any list of tasks and any machines |
| ReviewDispatchProofs: DispatchTyping, OneTaskEach, SoundAssignment, DifferentOpinions | `TypeOK`, `MachineTakesOne`, `AssignmentIsSound`, `OpinionsDiffer` always hold |
| ReviewDispatchProofs: EndsComplete | `EndedIsComplete` always holds |
| LlmAgentProofs: GuardNeverStuck, WantedNeverDropped | `GuardMoves`, `WantedIsPursued` always hold |
| ReviewDispatchProofs: NoCallForgotten | `CallIsAwaited` always holds |
| ReviewDispatchProofs: CoordinatorKeepsClaims | `Init /\ [][Next]_vars => Claims!Spec` for ReviewDispatch: the safety half of its `ImplementsClaims` |
| EffectRunnerProofs: EffectTypes, OneTickLate, NoRequestForgotten | `TypeOK`, `WithinOneTick`, `LagIsNotified` always hold |

*Refinement.* Each step of the router maps to a step of WorkClaims or a stutter;
the case split is over Next, with `RouterInv` where a step makes a claim (the task has none yet) or ends one
(it was the machine's only one). `OneWorkPerMachine` and `RestingMachineHasNoWork` are proved (OneWork,
RestIsKept); in the runs they follow from `ImplementsClaims`.

*NodeSession.* `SessionInv` adds to the types `Numbered` (connections that
are not made yet have no handler and no frames) and `Greeting` (until a frame is dropped as
stale, a handler that does not know its node finds the startup burst's heartbeat
before anything else, so it never records a model for a node it will not clean up after).
`ListedOnlyInSession` follows the record to the handler that made it last: every handler
that ends comes through `ClearModels` first, but for the two exceptions it names.
`EntryOfOpenSession` is kept because `RemoveEntry` takes the entry of *any*
connection of the node away: the code that finding 3 is about makes this one true.

*LlmAgent.* `LoadInv`: a load attempt that pulls or starts is the head of the guard
queue and `loaded` is then empty; the attempt that is starting has its own model in
the server, unless an unload killed it; an unload past its clearing finds nothing loaded.
`LoadedIsServed` alone is not inductive, as `StartServer` and `UnloadKills`
change the server without looking at `loaded`.
`LlmTypes` bounds the generation number by counting (`Numbered`): the generation and the
commands still under way are together at most the commands sent.
`LoadedIsListed` is proved from `ListInv`: as long as no load has overtaken a
report, a failure that is not reported yet finds nothing loaded and no pull under way (`FailuresFirst`);
and a loaded model that is not listed as ready on the current connection is
still to be reported: by the `start()` of that connection that waits for the guard,
by an attempt that has not taken it yet, or by the attempt that loaded it (`Listed`).
A new connection makes the old one's row meaningless, and it cannot be current before it is made (`Reached`).

*TaskAssign.* `Assign` goes through the tasks by a recursive function. That such
a function exists and is what its definition says is `RecursionExists`, proved
for any step given as a function on a set; `InductUpTo` is induction over
1..n for a set of numbers. Both rest on the least-element principle of the naturals (an
instance of the library's well-foundedness, in its form for sets, which needs no operator as a
parameter). `Dealt` is what holds after n tasks: a review that
got nothing fits no machine still free, because free machines only become
fewer, and a check that went to its finder's model could have gone nowhere else
(`ChoiceIsSound`). `IsAssignment` is `Dealt` at the end.

*ReviewDispatch, the run.* `DispatchInv` is inductive: `RunTypes`, `RunRules` (a task not given up
has attempts left, a finding has one check, an opinion is at a provider that counts as
used), `Calls` (a call has a node; one request of it at most is awaited, and only while
it is sent), `Callers` (a task runs exactly while it has a call, the question while it is
being asked) and `RestInv` for link, machines and asker. `TypeOK` alone is not inductive: that an
answer ends the call it belongs to, and that a task handed out has no call
yet, need `Calls` and `Callers`, and that `attempts` stays in its range
needs the attempts rule. What a round hands out is `SentIsFresh` (each opinion
to a provider none has gone to) and what `Place` hands out is `PlacedApart` (each task to
a machine without one), which is `AssignIsAssignment` for a list that `NeedsListed`
shows to name no task twice. From there `MachineTakesOne` and
`OpinionsDiffer` are kept by one case per hand-out: all other steps leave a task where
it is or take it off its node (`OthersStay`).

*ReviewDispatch, coordinator and end.* `CoordinatorKeepsClaims` shows that the part of that module which stands for the
router and mac1 keeps the promise that WorkRouter is proved to keep: by `OneHeld` no two accepted requests
are at one machine, each accepted request is a claim, and a request that was withdrawn
keeps its claim until its answer. `EndsComplete` rests on `TasksInv`: the first chunk is entered
before the run can end, every finding has its check task from the moment it has a raiser,
and the run ends only with every task done, given up or never entered.

*EffectRunner.* `RunnerInv`: the types in three parts (a row without effect has no
overrides; a handler that will send has a colour), `NothingLeft` (no command of a
tick is left over outside `dispatch`), `PermitIsNear` (a runner that waits past a
permit has begun at most the tick it could not help) and `LagIsNotified`.
The last holds because every handler writes before it notifies, `notify_one`
stores its permit, and the runner reads after it took one: in the proof, one step for
each of these.

*What liveness rests on.* Four invariants, stated beside their proofs, say that where
a liveness property promises something, somebody is always left to bring it about. Fairness
then has only to let that one move; that step, and so the liveness itself,
stays with TLC.

- `NoLostWake`: the review runner never sleeps on a queued request. Between its
  look at the queue and its wait another task may queue one; the permit
  `notify_one` leaves in `queue_wake` outlives that moment.
- `GuardMoves`: everyone waiting for `LOAD_GUARD` stands in its queue, and the one at
  the front has a step to take (`CancelIsHandled`). `QueueInv` adds to the
  types that the queue names nobody twice (`Once`) and that a load chain in it is one that is
  under way; which chains a connection and a command start never meet (`ConnChains`,
  `CommandChains`).
- `WantedIsPursued`: from a restart until the first command, the wanted model is loaded or a
  `start()` or a load of it is on (`WantedIsLoaded`). `SinceStart` and `Kept` say why: only a command
  unloads or asks for another model, and a failed load goes to rest, not away.
- `CallIsAwaited`: a call waiting for its answer has its request on the
  newest connection, or the waiters are still to be drained (`CallEnds`). It
  rests on `TxBeforeDrain`: `start()` sets the new `tx` *before* it drains, so
  what is sent in between goes out on the new connection.

Only model-checked: all liveness (`WorkIsReported`, `UnwantedStreamsStop`,
`EntryComesBack`, `FastFailure`, `ReconnectRestoresModel`, `SlotIsReviewed`,
`InterruptedRunsAgain`, `CancelIsHandled`, `WantedIsLoaded`, `FailedIsRetried`,
`CallEnds`, `RunEnds`, `QuestionEnds`, `ColourIsReclaimed`, and that claims end, in the
`ImplementsClaims` of ReviewDispatch), since the prover does
not reason about fairness and ENABLED. Every invariant and every other action
property that a passing run checks is a theorem. `OneWork`, `RestIsKept`,
`NeverBack`, `NothingUntold`, `EntryOpen`, `ClaimsSafe`, `CoordinatorKeepsClaims`, `AssignIsAssignment`
and the four above state what no run lists as a property of its own. No module uses a `RECURSIVE` operator;
the recursive functions (`Assign`, `Those`, `Sent`) are reasoned about as above.

## 7. What is left

* Brightness and on/off in EffectRunner, which have gates of their own in `les.rs`.

### Not modelled

* Pure text processing (`codereview/` parse, check, dedupe, report; `chords`; the
  prompts of `intent.rs`): no state and no order; unit tests cover it.
* The cloud gateway and llm-rotation: one request tried at each provider in
  turn, over one map under one mutex; each operation is a single lock region
  with unit tests, and no two operations depend on each other.
* The token state file: one task writes it, at start and when a token is
  rotated by hand; no step of another task lies between.
* agentterm and agentwatch: a queue of files with one reader and one writer, and
  the second program that runs it, which has its own dispatcher and shares
  no state with the mesh.
* Device, sensor, audio, media and eBay capabilities, TLS, mDNS, CLI: I/O and
  translation, whose behaviour is that of the device or service.
* The type-state of `model_lifecycle.rs`, which the compiler checks, and the
  browser frontend.
