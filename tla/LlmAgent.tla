------------------------------ MODULE LlmAgent ------------------------------
(***************************************************************************)
(* The llm capability of one agent (capabilities/llm: lib.rs, llama.rs):   *)
(* loads run one at a time behind the load guard and are retried, an       *)
(* unload waits for the guard while it keeps every other message of the    *)
(* capability waiting, a restart finds the wanted model in its file, and   *)
(* generations take turns and can be cancelled by request id.              *)
(*                                                                         *)
(* A connection is a number; what is sent on one that is closed is lost.   *)
(* Each message is handled by a task of its own (agent/src/dispatch.rs),   *)
(* so messages are handled in any order, one at a time.                    *)
(***************************************************************************)
EXTENDS Naturals, Sequences, FiniteSets

CONSTANTS
    Model,        \* the models asked for
    Unknown,      \* those whose name does not resolve to a file
    NoModel,
    Req,          \* inference requests
    NoReq,
    MaxConn,      \* bound: connections made
    MaxCommand,   \* bound: loads and unloads sent
    MaxTrouble,   \* bound: failed pulls and restarts together
    MaxLost       \* bound: connections lost

ASSUME ModelAssumption == NoModel \notin Model /\ Unknown \subseteq Model
ASSUME ReqAssumption == NoReq \notin Req
ASSUME BoundAssumption == /\ MaxConn \in Nat \ {0} /\ MaxCommand \in Nat
                          /\ MaxTrouble \in Nat /\ MaxLost \in Nat

Conn == 0..MaxConn

(* A chain of load attempts: the first one and its retries.  A command     *)
(* starts at most one, a connection that finds nothing loaded one more.    *)
Chain == 1..(MaxCommand + MaxConn)
ChainOf(c) == MaxCommand + c

Message == [kind : {"load", "unload"}, n : 1..MaxCommand, model : Model, conn : Conn]
           \cup [kind : {"request", "cancel"}, q : Req, conn : Conn]

VARIABLES
    conn,     \* the newest connection
    up,       \* it is open
    view,     \* the coordinator's row of each model of this node
    sent,     \* loads and unloads sent
    inbox,    \* messages read from a connection, their handler not yet run
    starting, \* connections whose start() has not set CURRENT_TX yet
    curTx,    \* CURRENT_TX
    gen,      \* LOAD_GEN
    wanted,   \* the .wanted-model file
    guard,    \* LOAD_GUARD: its holder and those waiting, in order
    loaded,   \* what it holds
    attempt,  \* the load chains
    server,   \* LLAMA_CHILD: the model the llama-server was started with
    flag,     \* UNLOAD_REQUESTED
    unload,   \* the ModelUnload handler that is running
    task,     \* the inference tasks
    inflight, \* INFLIGHT
    entering, \* the request whose handler has not entered its handle yet
    overtaken,\* history: the guard was taken before the last holder's report was out
    trouble,
    lost

loading == <<gen, wanted, guard, loaded, attempt, server, flag, overtaken>>
tasks   == <<task, inflight, entering>>
bounds  == <<trouble, lost>>
vars    == <<conn, up, view, sent, inbox, starting, curTx, loading, unload,
             tasks, bounds>>

Asked(s) == [step : {s}, model : Model, gen : 0..MaxCommand]
AttemptStep == {"none", "spawned", "waiting", "pulling", "starting", "loaded",
                "failed", "refused", "resting"}
NoAttempt == [step |-> "none", model |-> NoModel, gen |-> 0]
Attempt == {NoAttempt} \cup UNION {Asked(s) : s \in AttemptStep \ {"none"}}

UnloadStep == {"idle", "waiting", "cleared", "flagged", "killed"}
NoUnload == [step |-> "idle", model |-> NoModel, conn |-> 0]

Waiter == ({"load"} \X Chain) \cup ({"start"} \X Conn) \cup ({"unload"} \X {0})

TypeOK ==
    /\ conn \in Conn /\ up \in BOOLEAN
    /\ view \in [Model -> {"none", "loading", "ready", "failed"}]
    /\ ~up => \A m \in Model : view[m] = "none"
    /\ sent \in 0..MaxCommand
    /\ inbox \subseteq Message
    /\ starting \subseteq Conn
    /\ curTx \in Conn
    /\ gen \in 0..MaxCommand
    /\ wanted \in Model \cup {NoModel}
    /\ guard \in Seq(Waiter)
    /\ loaded \in Model \cup {NoModel}
    /\ attempt \in [Chain -> Attempt]
    /\ server \in Model \cup {NoModel}
    /\ flag \in BOOLEAN
    /\ unload \in [step : UnloadStep, model : Model \cup {NoModel}, conn : Conn]
    /\ task \in [Req -> {"none", "queued", "running", "done"}]
    /\ inflight \subseteq Req
    /\ entering \in Req \cup {NoReq}
    /\ overtaken \in BOOLEAN
    /\ trouble \in 0..MaxTrouble /\ lost \in 0..MaxLost

Init ==
    /\ conn = 0 /\ up = FALSE
    /\ view = [m \in Model |-> "none"]
    /\ sent = 0
    /\ inbox = {}
    /\ starting = {}
    /\ curTx = 0
    /\ gen = 0
    /\ wanted = NoModel
    /\ guard = <<>>
    /\ loaded = NoModel
    /\ attempt = [c \in Chain |-> NoAttempt]
    /\ server = NoModel
    /\ flag = FALSE
    /\ unload = NoUnload
    /\ task = [q \in Req |-> "none"]
    /\ inflight = {}
    /\ entering = NoReq
    /\ overtaken = FALSE
    /\ trouble = 0 /\ lost = 0

-----------------------------------------------------------------------------
(* Helpers.                                                                *)

Open(c)  == up /\ c = conn
Holds(w) == guard # <<>> /\ Head(guard) = w

(* The per-capability lock of the dispatch table is free.                  *)
SlotFree == unload.step = "idle" /\ entering = NoReq

(* A status report on connection c, in the coordinator's row of model m.   *)
    \* mutant of Reported: a report on a closed connection is not lost
ReportedAnyway(c, m, state) == [view EXCEPT ![m] = state]
Reported(c, m, state) == IF Open(c) THEN [view EXCEPT ![m] = state] ELSE view

(* report(): it goes to whichever connection is current.                   *)
Report(m, state) == view' = Reported(curTx, m, state)

SpawnLoad(c, m, g) ==
    attempt' = [attempt EXCEPT ![c] = [step |-> "spawned", model |-> m, gen |-> g]]
GoTo(c, s) == attempt' = [attempt EXCEPT ![c].step = s]
EndOf(c)   == attempt' = [attempt EXCEPT ![c] = NoAttempt]
Join(w)    == guard' = Append(guard, w)
Release    == guard' = Tail(guard)

ReportIsOut == \A c \in Chain : attempt[c].step \notin {"loaded", "failed", "refused"}

(* The holder of the guard w takes its turn.                               *)
TakesGuard(w) == Holds(w) /\ overtaken' = (overtaken \/ ~ReportIsOut)

-----------------------------------------------------------------------------
(* The coordinator and the connection.                                     *)

Connect ==
    /\ ~up /\ conn < MaxConn
    /\ conn' = conn + 1
    /\ up' = TRUE
    /\ starting' = starting \cup {conn + 1}
    /\ UNCHANGED <<view, sent, inbox, curTx, loading, unload, tasks, bounds>>

Disconnect ==
    /\ up /\ lost < MaxLost
    /\ up' = FALSE
    /\ view' = [m \in Model |-> "none"]
    /\ lost' = lost + 1
    /\ UNCHANGED <<conn, sent, inbox, starting, curTx, loading, unload, tasks, trouble>>

(* A load of any model; an unload of one that has a row.                   *)
SendCommand(kind, m) ==
    /\ up /\ sent < MaxCommand
    /\ kind = "unload" => view[m] # "none"
    /\ sent' = sent + 1
    /\ inbox' = inbox \cup {[kind |-> kind, n |-> sent + 1, model |-> m, conn |-> conn]}
    /\ UNCHANGED <<conn, up, view, starting, curTx, loading, unload, tasks, bounds>>

Asks(q, kind) == \E msg \in inbox : msg.kind = kind /\ msg.q = q

SendRequest(q) ==
    /\ up /\ task[q] = "none" /\ \E m \in Model : view[m] = "ready"
    /\ ~\E msg \in inbox : msg.kind \in {"request", "cancel"} /\ msg.q = q
    /\ inbox' = inbox \cup {[kind |-> "request", q |-> q, conn |-> conn]}
    /\ UNCHANGED <<conn, up, view, sent, starting, curTx, loading, unload, tasks, bounds>>

SendCancel(q) ==
    /\ up /\ ~Asks(q, "cancel")
    /\ task[q] \in {"queued", "running"} \/ Asks(q, "request")
    /\ inbox' = inbox \cup {[kind |-> "cancel", q |-> q, conn |-> conn]}
    /\ UNCHANGED <<conn, up, view, sent, starting, curTx, loading, unload, tasks, bounds>>

-----------------------------------------------------------------------------
(* start(): the connection becomes the current one at once; what is loaded *)
(* is read when the guard comes free.                                      *)

StartSetsTx(c) ==
    /\ c \in starting
    /\ starting' = starting \ {c}
    /\ curTx' = c
    /\ Join(<<"start", c>>)
    /\ UNCHANGED <<conn, up, view, sent, inbox, gen, wanted, loaded, attempt,
                   server, flag, overtaken, unload, tasks, bounds>>

    \* mutant of StartReads: what is loaded is not reported again
StartReadsSilently(c) ==
    /\ TakesGuard(<<"start", c>>)
    /\ Release
    /\ IF loaded = NoModel /\ wanted # NoModel
       THEN SpawnLoad(ChainOf(c), wanted, gen) ELSE UNCHANGED attempt
    /\ UNCHANGED <<conn, up, view, sent, inbox, starting, curTx, gen, wanted,
                   loaded, server, flag, unload, tasks, bounds>>
    \* mutant of StartReads: the wanted model is not looked up
StartReadsLoaded(c) ==
    /\ TakesGuard(<<"start", c>>)
    /\ Release
    /\ view' = IF loaded = NoModel THEN view ELSE Reported(c, loaded, "ready")
    /\ UNCHANGED <<conn, up, sent, inbox, starting, curTx, gen, wanted,
                   loaded, attempt, server, flag, unload, tasks, bounds>>
StartReads(c) ==
    /\ TakesGuard(<<"start", c>>)
    /\ Release
    /\ \/ loaded # NoModel /\ view' = Reported(c, loaded, "ready") /\ UNCHANGED attempt
       \/ /\ loaded = NoModel /\ wanted # NoModel
          /\ SpawnLoad(ChainOf(c), wanted, gen)
          /\ UNCHANGED view
       \/ loaded = NoModel /\ wanted = NoModel /\ UNCHANGED <<view, attempt>>
    /\ UNCHANGED <<conn, up, sent, inbox, starting, curTx, gen, wanted, loaded,
                   server, flag, unload, tasks, bounds>>

-----------------------------------------------------------------------------
(* Handlers, each under the capability's lock.                             *)

HandleLoad(msg) ==
    /\ msg \in inbox /\ msg.kind = "load" /\ SlotFree
    /\ inbox' = inbox \ {msg}
    /\ curTx' = msg.conn
    /\ gen' = gen + 1
    /\ wanted' = msg.model
    /\ SpawnLoad(msg.n, msg.model, gen + 1)
    /\ UNCHANGED <<conn, up, view, sent, starting, guard, loaded, server, flag,
                   overtaken, unload, tasks, bounds>>

HandleUnload(msg) ==
    /\ msg \in inbox /\ msg.kind = "unload" /\ SlotFree
    /\ inbox' = inbox \ {msg}
    /\ gen' = gen + 1
    /\ wanted' = NoModel
    /\ Join(<<"unload", 0>>)
    /\ unload' = [step |-> "waiting", model |-> msg.model, conn |-> msg.conn]
    /\ UNCHANGED <<conn, up, view, sent, starting, curTx, loaded, attempt,
                   server, flag, overtaken, tasks, bounds>>

(* The guard is held for the assignment only.                              *)
UnloadClears ==
    /\ unload.step = "waiting" /\ TakesGuard(<<"unload", 0>>)
    /\ loaded' = NoModel
    /\ Release
    /\ unload' = [unload EXCEPT !.step = "cleared"]
    /\ UNCHANGED <<conn, up, view, sent, inbox, starting, curTx, gen, wanted,
                   attempt, server, flag, tasks, bounds>>

UnloadFlags ==
    /\ unload.step = "cleared"
    /\ flag' = TRUE
    /\ unload' = [unload EXCEPT !.step = "flagged"]
    /\ UNCHANGED <<conn, up, view, sent, inbox, starting, curTx, gen, wanted,
                   guard, loaded, attempt, server, overtaken, tasks, bounds>>

UnloadKills ==
    /\ unload.step = "flagged"
    /\ server' = NoModel
    /\ unload' = [unload EXCEPT !.step = "killed"]
    /\ UNCHANGED <<conn, up, view, sent, inbox, starting, curTx, gen, wanted,
                   guard, loaded, attempt, flag, overtaken, tasks, bounds>>

UnloadReports ==
    /\ unload.step = "killed"
    /\ view' = Reported(unload.conn, unload.model, "none")
    /\ unload' = NoUnload
    /\ UNCHANGED <<conn, up, sent, inbox, starting, curTx, loading, tasks, bounds>>

(* The task is spawned first and its handle is entered after.              *)
HandleRequest(q) ==
    /\ SlotFree
    /\ \E msg \in inbox : /\ msg.kind = "request" /\ msg.q = q
                          /\ inbox' = inbox \ {msg}
    /\ task' = [task EXCEPT ![q] = "queued"]
    /\ entering' = q
    /\ UNCHANGED <<conn, up, view, sent, starting, curTx, loading, unload,
                   inflight, bounds>>

EnterHandle ==
    /\ entering # NoReq
    /\ inflight' = inflight \cup {entering}
    /\ entering' = NoReq
    /\ UNCHANGED <<conn, up, view, sent, inbox, starting, curTx, loading, unload,
                   task, bounds>>

    \* mutant of HandleCancel: the handle is taken out but not aborted
CancelForgetting(q) ==
    /\ SlotFree
    /\ \E msg \in inbox : /\ msg.kind = "cancel" /\ msg.q = q
                          /\ inbox' = inbox \ {msg}
    /\ inflight' = inflight \ {q}
    /\ UNCHANGED <<conn, up, view, sent, starting, curTx, loading, unload,
                   task, entering, bounds>>
HandleCancel(q) ==
    /\ SlotFree
    /\ \E msg \in inbox : /\ msg.kind = "cancel" /\ msg.q = q
                          /\ inbox' = inbox \ {msg}
    /\ inflight' = inflight \ {q}
    /\ task' = IF q \in inflight THEN [task EXCEPT ![q] = "done"] ELSE task
    /\ UNCHANGED <<conn, up, view, sent, starting, curTx, loading, unload,
                   entering, bounds>>

-----------------------------------------------------------------------------
(* load_once() and pull_model().                                           *)

Announce(c) ==
    /\ attempt[c].step = "spawned"
    /\ Report(attempt[c].model, "loading")
    /\ Join(<<"load", c>>)
    /\ GoTo(c, "waiting")
    /\ UNCHANGED <<conn, up, sent, inbox, starting, curTx, gen, wanted, loaded,
                   server, flag, overtaken, unload, tasks, bounds>>

AlreadyLoaded(c) ==
    /\ TakesGuard(<<"load", c>>) /\ attempt[c].step = "waiting" /\ loaded = attempt[c].model
    /\ Report(loaded, "ready")
    /\ Release
    /\ EndOf(c)
    /\ UNCHANGED <<conn, up, sent, inbox, starting, curTx, gen, wanted, loaded,
                   server, flag, unload, tasks, bounds>>

    \* mutant of Pull: the model that is replaced stays marked as loaded
PullKeepingLoaded(c) ==
    /\ TakesGuard(<<"load", c>>) /\ attempt[c].step = "waiting" /\ loaded # attempt[c].model
    /\ view' = IF loaded = NoModel THEN view ELSE Reported(curTx, loaded, "none")
    /\ GoTo(c, "pulling")
    /\ UNCHANGED <<conn, up, sent, inbox, starting, curTx, gen, wanted, guard,
                   loaded, server, flag, unload, tasks, bounds>>
Pull(c) ==
    /\ TakesGuard(<<"load", c>>) /\ attempt[c].step = "waiting" /\ loaded # attempt[c].model
    /\ view' = IF loaded = NoModel THEN view ELSE Reported(curTx, loaded, "none")
    /\ loaded' = NoModel
    /\ GoTo(c, "pulling")
    /\ UNCHANGED <<conn, up, sent, inbox, starting, curTx, gen, wanted, guard,
                   server, flag, unload, tasks, bounds>>

(* The pull fails: the guard is let go, the report comes after.            *)
Fails(c, s) ==
    /\ Release
    /\ GoTo(c, s)
    /\ UNCHANGED <<conn, up, view, sent, inbox, starting, curTx, gen, wanted,
                   loaded, flag, overtaken, unload, tasks, lost>>

NotResolved(c) ==
    /\ attempt[c].step = "pulling" /\ attempt[c].model \in Unknown
    /\ Fails(c, "refused")
    /\ UNCHANGED <<server, trouble>>

(* No room on the disk, a download that breaks off: the server that was    *)
(* running is not touched.                                                 *)
DownloadFails(c) ==
    /\ attempt[c].step = "pulling" /\ attempt[c].model \notin Unknown
    /\ trouble < MaxTrouble /\ trouble' = trouble + 1
    /\ Fails(c, "failed")
    /\ UNCHANGED server

StartServer(c) ==
    /\ attempt[c].step = "pulling" /\ attempt[c].model \notin Unknown
    /\ flag' = FALSE
    /\ server' = attempt[c].model
    /\ GoTo(c, "starting")
    /\ UNCHANGED <<conn, up, view, sent, inbox, starting, curTx, gen, wanted,
                   guard, loaded, overtaken, unload, tasks, bounds>>

(* The health loop: an unload is looked for first, then an exited server.  *)
Unloaded(c) ==
    /\ attempt[c].step = "starting" /\ (flag \/ server = NoModel)
    /\ Release
    /\ EndOf(c)
    /\ UNCHANGED <<conn, up, view, sent, inbox, starting, curTx, gen, wanted,
                   loaded, server, flag, overtaken, unload, tasks, bounds>>

(* The server exits, or it is killed after the health timeout.             *)
StartupFails(c) ==
    /\ attempt[c].step = "starting" /\ ~flag /\ server # NoModel
    /\ trouble < MaxTrouble /\ trouble' = trouble + 1
    /\ server' = NoModel
    /\ Fails(c, "failed")

(* The loop sleeps a second before its first look: an unload that has let  *)
(* go of the guard before this attempt took it is through by then.         *)
    \* mutant of Healthy: the guard is not let go when the model is up
HealthyHolding(c) ==
    /\ attempt[c].step = "starting" /\ ~flag /\ server # NoModel
    /\ unload.step \in {"idle", "waiting"}
    /\ loaded' = attempt[c].model
    /\ GoTo(c, "loaded")
    /\ UNCHANGED <<conn, up, view, sent, inbox, starting, curTx, gen, wanted,
                   guard, server, flag, overtaken, unload, tasks, bounds>>
Healthy(c) ==
    /\ attempt[c].step = "starting" /\ ~flag /\ server # NoModel
    /\ unload.step \in {"idle", "waiting"}
    /\ loaded' = attempt[c].model
    /\ Release
    /\ GoTo(c, "loaded")
    /\ UNCHANGED <<conn, up, view, sent, inbox, starting, curTx, gen, wanted,
                   server, flag, overtaken, unload, tasks, bounds>>

ReportsReady(c) ==
    /\ attempt[c].step = "loaded"
    /\ Report(attempt[c].model, "ready")
    /\ EndOf(c)
    /\ UNCHANGED <<conn, up, sent, inbox, starting, curTx, gen, wanted, guard,
                   loaded, server, flag, overtaken, unload, tasks, bounds>>

    \* mutant of ReportsFailed: every failure counts as one a retry cannot cure
ReportsFailedForGood(c) ==
    /\ attempt[c].step \in {"failed", "refused"}
    /\ Report(attempt[c].model, "failed")
    /\ EndOf(c)
    /\ UNCHANGED <<conn, up, sent, inbox, starting, curTx, gen, wanted, guard,
                   loaded, server, flag, overtaken, unload, tasks, bounds>>
ReportsFailed(c) ==
    /\ attempt[c].step \in {"failed", "refused"}
    /\ Report(attempt[c].model, "failed")
    /\ IF attempt[c].step = "failed" THEN GoTo(c, "resting") ELSE EndOf(c)
    /\ UNCHANGED <<conn, up, sent, inbox, starting, curTx, gen, wanted, guard,
                   loaded, server, flag, overtaken, unload, tasks, bounds>>

(* The timer of a failed attempt.                                          *)
Retry(c) ==
    /\ attempt[c].step = "resting"
    /\ IF attempt[c].gen = gen THEN GoTo(c, "spawned") ELSE EndOf(c)
    /\ UNCHANGED <<conn, up, view, sent, inbox, starting, curTx, gen, wanted,
                   guard, loaded, server, flag, overtaken, unload, tasks, bounds>>

-----------------------------------------------------------------------------
(* Inference tasks: one permit; a task whose connection is closed is given *)
(* up only once it holds the permit.                                       *)

AcquirePermit(q) ==
    /\ task[q] = "queued" /\ \A p \in Req : task[p] # "running"
    /\ task' = [task EXCEPT ![q] = "running"]
    /\ UNCHANGED <<conn, up, view, sent, inbox, starting, curTx, loading, unload,
                   inflight, entering, bounds>>

(* Answered, failed, timed out, or the connection is closed.               *)
Finish(q) ==
    /\ task[q] = "running"
    /\ task' = [task EXCEPT ![q] = "done"]
    /\ inflight' = inflight \ {q}
    /\ UNCHANGED <<conn, up, view, sent, inbox, starting, curTx, loading, unload,
                   entering, bounds>>

-----------------------------------------------------------------------------
(* The agent stops, llama-server with it; only the file is left.           *)
Restart ==
    /\ conn > 0 /\ trouble < MaxTrouble /\ trouble' = trouble + 1
    /\ up' = FALSE
    /\ view' = [m \in Model |-> "none"]
    /\ inbox' = {} /\ starting' = {} /\ curTx' = 0
    /\ gen' = 0 /\ guard' = <<>> /\ loaded' = NoModel
    /\ attempt' = [c \in Chain |-> NoAttempt]
    /\ server' = NoModel /\ flag' = FALSE
    /\ unload' = NoUnload
    /\ task' = [q \in Req |-> IF task[q] = "none" THEN "none" ELSE "done"]
    /\ inflight' = {} /\ entering' = NoReq
    /\ overtaken' = FALSE
    /\ UNCHANGED <<conn, sent, wanted, lost>>

-----------------------------------------------------------------------------
Start(c) == StartSetsTx(c) \/ StartReads(c)

Handle ==
    \/ \E msg \in inbox : HandleLoad(msg) \/ HandleUnload(msg)
    \/ \E q \in Req : HandleRequest(q) \/ HandleCancel(q)
    \/ EnterHandle

Unload == UnloadClears \/ UnloadFlags \/ UnloadKills \/ UnloadReports

(* One step of the pull, whatever becomes of it.                           *)
PullStep(c) == NotResolved(c) \/ DownloadFails(c) \/ StartServer(c)
Startup(c)  == Unloaded(c) \/ StartupFails(c) \/ Healthy(c)
Load(c) ==
    \/ Announce(c) \/ AlreadyLoaded(c) \/ Pull(c)
    \/ PullStep(c) \/ Startup(c)
    \/ ReportsReady(c) \/ ReportsFailed(c) \/ Retry(c)

Generate(q) == AcquirePermit(q) \/ Finish(q)

Environment ==
    \/ Connect \/ Disconnect \/ Restart
    \/ \E kind \in {"load", "unload"}, m \in Model : SendCommand(kind, m)
    \/ \E q \in Req : SendRequest(q) \/ SendCancel(q)

Next ==
    \/ Environment
    \/ \E c \in Conn : Start(c)
    \/ Handle
    \/ Unload
    \/ \E c \in Chain : Load(c)
    \/ \E q \in Req : Generate(q)

(* The tasks of the agent run; a download, the health loop and a           *)
(* generation end, by their timeouts if nothing else ends them.            *)
Fairness ==
    /\ \A c \in Conn : WF_vars(Start(c))
    /\ WF_vars(Handle)
    /\ WF_vars(Unload)
    /\ \A c \in Chain : WF_vars(Load(c))
    /\ \A q \in Req : WF_vars(Generate(q))

Spec == Init /\ [][Next]_vars
FairSpec == Spec /\ Fairness

-----------------------------------------------------------------------------
(* Whatever the guard names as loaded is what llama-server runs, so a load *)
(* that is skipped as a duplicate and a re-report on reconnect speak of a  *)
(* server that is there (lib.rs, start() and load_once()).                 *)
LoadedIsServed == loaded # NoModel => server = loaded

(* A generation that holds or waits for the GPU permit is in INFLIGHT, or  *)
(* its handler is about to enter it before any cancel can be handled: a    *)
(* cancel that comes after its request always finds it.                    *)
RunningIsCancellable ==
    \A q \in Req : task[q] \in {"queued", "running"} => q \in inflight \cup {entering}

(* With nothing of the loads in progress, and the connection the agent     *)
(* reports on still open, the coordinator lists what is loaded.            *)
Quiet == /\ guard = <<>> /\ unload.step = "idle" /\ starting = {}
         /\ \A c \in Chain : attempt[c].step \in {"none", "resting"}
LoadedIsListed ==
    Quiet /\ Open(curTx) /\ ~overtaken /\ loaded # NoModel => view[loaded] = "ready"

(* A cancel is handled in the end, however long the load is that an unload *)
(* before it waits for (dispatch.rs: one handler at a time).               *)
CancelIsHandled == \A q \in Req : Asks(q, "cancel") ~> ~Asks(q, "cancel")

(* An agent that starts with a wanted model loads it, or is told otherwise *)
(* or loses its connection or stops once more (lib.rs, "Keeping a node's   *)
(* model loaded").                                                         *)
WantedIsLoaded ==
    \A m \in Model \ Unknown :
        (up /\ gen = 0 /\ wanted = m) ~> (loaded = m \/ gen > 0 \/ ~up)

(* A load that failed for a reason time can cure is tried until it         *)
(* succeeds or a newer load or unload replaces it, or the agent stops.     *)
FailedIsRetried ==
    \A c \in Chain, m \in Model \ Unknown, g \in 1..MaxCommand :
        (attempt[c] = [step |-> "failed", model |-> m, gen |-> g] /\ gen = g)
            ~> (loaded = m \/ gen # g)
=============================================================================
