----------------------------- MODULE WorkRouter -----------------------------
(***************************************************************************)
(* The coordinator's inference router: WorkState (work_router.rs) and the  *)
(* tasks that use it (inference.rs), together with the maps they share     *)
(* with the connection handlers (server.rs) and a coarse view of the       *)
(* machines.  Each request is one tokio task; a step of the model is what  *)
(* the task does between two points at which another task may run: one     *)
(* std Mutex region, or one await.                                         *)
(*                                                                         *)
(* Request ids are fresh uuids in the code, so a request of the model is   *)
(* used once and the id is the request itself.  A machine has at most one  *)
(* connection at a time here; NodeSession has overlapping ones.            *)
(***************************************************************************)
EXTENDS Integers, FiniteSets

CONSTANTS
    Node,        \* node ids; integers, because ties are broken by their order
    NoNode,      \* "no machine": Option::None for a node id
    Model,       \* model names
    AnyModel,    \* AUTO_CONTROL_MODEL, or no model asked for
    Cand,        \* the (node, model, size) triples a registry may call Ready
    Control,     \* home commands, voice, art, /v1: dispatch_local_inference
    Stream,      \* streamed /v1 requests: dispatch_local_inference_stream
    Work,        \* review tasks: run_work_request
    WantModel,   \* the model each request names, or AnyModel
    WantNode,    \* the node each work request names, or NoNode
    ControlRole, \* ModelRoles.control
    WorkRole,    \* ModelRoles.work
    Flaky        \* bound: the machines whose connection or model may be lost

Home    == Control \cup Stream
Request == Home \cup Work

ASSUME NodeAssumption ==
    Node \subseteq Int /\ NoNode \notin Node /\ Flaky \subseteq Node
ASSUME RequestAssumption ==
    Control \cap Stream = {} /\ Home \cap Work = {}
ASSUME CandAssumption ==
    /\ Cand \subseteq [node : Node, model : Model, size : Nat]
    /\ AnyModel \notin Model
ASSUME WantAssumption ==
    /\ WantModel \in [Request -> Model \cup {AnyModel}]
    /\ WantNode \in [Work -> Node \cup {NoNode}]
ASSUME RoleAssumption ==
    ControlRole \subseteq Model /\ WorkRole \subseteq Model

VARIABLES
    ready,     \* the candidates the registry holds in state Ready
    conn,      \* nodes with an entry in the connections map
    closing,   \* nodes whose entry is gone and whose requests are not failed yet
    inFlight,  \* WorkState.in_flight: request -> machine it is recorded on
    resting,   \* nodes n with rest_until[n] > now
    paused,    \* work requests whose pause channel has been fired
    pending,   \* pending_inferences / pending_streams: request -> node
    mail,      \* what the task's oneshot or stream channel holds
    pc,        \* where each request's task is
    cands,     \* the task's snapshot of candidates
    at,        \* the machine the task picked
    cut,       \* the work a control task paused and has yet to cancel
    tx,        \* the task's clone of the machine's sender
    outcome,   \* how the task ended, as reported to its caller
    wire,      \* messages on their way to each machine
    machine    \* requests each machine is holding (queued or generating)

router == <<inFlight, resting, paused>>
tables == <<pending, mail>>
local  == <<cands, at, cut, tx>>
links  == <<ready, conn, closing>>
agents == <<wire, machine>>
vars   == <<ready, conn, closing, inFlight, resting, paused, pending, mail, pc,
            cands, at, cut, tx, outcome, wire, machine>>

(* CancelInference and RequestModelInference.  They travel in order, but   *)
(* the agent spawns a task for every message it reads, so they may be      *)
(* handled in any order: the wire is a set.                                *)
Infer(r)  == [type |-> "infer", id |-> r]
Cancel(r) == [type |-> "cancel", id |-> r]
Message   == [type : {"infer", "cancel"}, id : Request]

PC == {"new", "looking", "picked", "connected", "committed", "waiting",
       "reporting", "done"}
Mail == {"none", "result", "error"}
Outcome == {"none", "finished", "failed", "preempted", "noworker", "abandoned"}

-----------------------------------------------------------------------------
(* WorkState's queries and ModelRoles.                                     *)

Busy(n) == \E r \in Request : inFlight[r] = n
BusyWithControl(n) == \E r \in Control : inFlight[r] = n
WorkOn(n) == {w \in Work : inFlight[w] = n}

IsControl(m) == IF ControlRole = {} THEN m \notin WorkRole ELSE m \in ControlRole
IsWork(m)    == WorkRole = {} \/ m \in WorkRole

(* pick_control: the candidates a home command may use, and the largest of *)
(* a set, the smaller node id winning a tie.                               *)
Usable(r) ==
    {c \in cands[r] : IF WantModel[r] = AnyModel THEN IsControl(c.model)
                                                 ELSE c.model = WantModel[r]}
Idle(S)     == {c \in S : ~Busy(c.node)}
WorkOnly(S) == {c \in S : ~BusyWithControl(c.node)}
Largest(S)  == {c \in S : \A d \in S : \/ d.size < c.size
                                       \/ d.size = c.size /\ d.node >= c.node}

(* pick_work: the candidates a work request may use, and the one           *)
(* max_by_key takes of a list sorted by node id: the last of the largest.  *)
Matching(w) ==
    {c \in cands[w] : /\ WantNode[w] \in {NoNode, c.node}
                      /\ WantModel[w] \in {AnyModel, c.model}
                      /\ IsWork(c.model)}
FreeNow(S) ==
    \* mutant of Free: pick_work forgets rest_until
    {c \in S : ~Busy(c.node)}
Free(S) == {c \in S : ~Busy(c.node) /\ c.node \notin resting}
LastLargest(S) == {c \in S : \A d \in S : \/ d.size < c.size
                                          \/ d.size = c.size /\ d.node <= c.node}

-----------------------------------------------------------------------------
TypeOK ==
    /\ ready \in SUBSET Cand
    /\ conn \in SUBSET Node
    /\ closing \in SUBSET Node
    /\ inFlight \in [Request -> Node \cup {NoNode}]
    /\ resting \in SUBSET Node
    /\ paused \in SUBSET Work
    /\ pending \in [Request -> Node \cup {NoNode}]
    /\ mail \in [Request -> Mail]
    /\ pc \in [Request -> PC]
    /\ cands \in [Request -> SUBSET Cand]
    /\ at \in [Request -> Node \cup {NoNode}]
    /\ cut \in [Request -> SUBSET Work]
    /\ tx \in [Request -> {"none", "live", "stale"}]
    /\ outcome \in [Request -> Outcome]
    /\ wire \in [Node -> SUBSET Message]
    /\ machine \in [Node -> SUBSET Request]

Init ==
    /\ ready = {}
    /\ conn = {}
    /\ closing = {}
    /\ inFlight = [r \in Request |-> NoNode]
    /\ resting = {}
    /\ paused = {}
    /\ pending = [r \in Request |-> NoNode]
    /\ mail = [r \in Request |-> "none"]
    /\ pc = [r \in Request |-> "new"]
    /\ cands = [r \in Request |-> {}]
    /\ at = [r \in Request |-> NoNode]
    /\ cut = [r \in Request |-> {}]
    /\ tx = [r \in Request |-> "none"]
    /\ outcome = [r \in Request |-> "none"]
    /\ wire = [n \in Node |-> {}]
    /\ machine = [n \in Node |-> {}]

Goto(r, label) == pc' = [pc EXCEPT ![r] = label]

FinishKeepingEntry(r, how) ==
    \* mutant of Finish: no InFlightGuard
    /\ Goto(r, "done")
    /\ outcome' = [outcome EXCEPT ![r] = how]
    /\ inFlight' = inFlight
    /\ mail' = [mail EXCEPT ![r] = "none"]
    /\ cands' = [cands EXCEPT ![r] = {}]
    /\ at' = [at EXCEPT ![r] = NoNode]
    /\ cut' = [cut EXCEPT ![r] = {}]
    /\ tx' = [tx EXCEPT ![r] = "none"]

(* The task ends: the caller has its answer, the task's variables are gone *)
(* and with them its channel and its InFlightGuard.                        *)
Finish(r, how) ==
    /\ Goto(r, "done")
    /\ outcome' = [outcome EXCEPT ![r] = how]
    /\ inFlight' = [inFlight EXCEPT ![r] = NoNode]
    /\ mail' = [mail EXCEPT ![r] = "none"]
    /\ cands' = [cands EXCEPT ![r] = {}]
    /\ at' = [at EXCEPT ![r] = NoNode]
    /\ cut' = [cut EXCEPT ![r] = {}]
    /\ tx' = [tx EXCEPT ![r] = "none"]

(* The pick uses up the snapshot and leaves a machine.                     *)
Pick(r, n) ==
    /\ at' = [at EXCEPT ![r] = n]
    /\ cands' = [cands EXCEPT ![r] = {}]
    /\ Goto(r, "picked")

(* try_send on the machine's channel: it does nothing when 128 messages    *)
(* are waiting already or when the channel is gone.                        *)
TrySendCancel(r) ==
    IF tx[r] = "live"
      THEN \/ wire' = [wire EXCEPT ![at[r]] = @ \cup {Cancel(r)}]
           \/ wire' = wire
      ELSE wire' = wire

-----------------------------------------------------------------------------
(* Steps of every task.                                                    *)

(* candidates(registry, connected_ids(connections)): Ready models on       *)
(* connected machines, read before the router is locked.                   *)
Look(r) ==
    /\ pc[r] = "new"
    /\ cands' = [cands EXCEPT ![r] = {c \in ready : c.node \in conn}]
    /\ Goto(r, "looking")
    /\ UNCHANGED <<links, router, tables, at, cut, tx, outcome, agents>>

(* pick_control under the router lock, first alternative: an idle machine. *)
PickIdle(r) ==
    /\ r \in Home
    /\ pc[r] = "looking"
    /\ \E c \in Largest(Idle(Usable(r))) : Pick(r, c.node)
    /\ UNCHANGED <<links, router, tables, cut, tx, outcome, agents>>

PreemptAnything(r) ==
    \* mutant of PickPreempting: home commands are pushed aside like work
    LET On(n) == {q \in Request : inFlight[q] = n} IN
    /\ r \in Home
    /\ pc[r] = "looking"
    /\ Idle(Usable(r)) = {}
    /\ \E c \in Largest(Usable(r)) :
          /\ Pick(r, c.node)
          /\ cut' = [cut EXCEPT ![r] = On(c.node)]
          /\ paused' = paused \cup On(c.node)
          /\ resting' = resting \cup {c.node}
          /\ inFlight' = [q \in Request |->
                            IF q \in On(c.node) THEN NoNode ELSE inFlight[q]]
    /\ UNCHANGED <<links, tables, tx, outcome, agents>>

PreemptUnpaused(r) ==
    \* mutant of PickPreempting: the work is removed, its pause never fires
    /\ r \in Home
    /\ pc[r] = "looking"
    /\ Idle(Usable(r)) = {}
    /\ \E c \in Largest(WorkOnly(Usable(r))) :
          /\ Pick(r, c.node)
          /\ cut' = [cut EXCEPT ![r] = WorkOn(c.node)]
          /\ resting' = resting \cup {c.node}
          /\ inFlight' = [q \in Request |->
                            IF q \in WorkOn(c.node) THEN NoNode ELSE inFlight[q]]
    /\ UNCHANGED <<links, paused, tables, tx, outcome, agents>>

(* Second alternative, with preempt() in the same lock: the machine's work *)
(* leaves in_flight, its pause is fired, the machine rests.                *)
PickPreempting(r) ==
    /\ r \in Home
    /\ pc[r] = "looking"
    /\ Idle(Usable(r)) = {}
    /\ \E c \in Largest(WorkOnly(Usable(r))) :
          /\ Pick(r, c.node)
          /\ cut' = [cut EXCEPT ![r] = WorkOn(c.node)]
          /\ paused' = paused \cup WorkOn(c.node)
          /\ resting' = resting \cup {c.node}
          /\ inFlight' = [q \in Request |->
                            IF q \in WorkOn(c.node) THEN NoNode ELSE inFlight[q]]
    /\ UNCHANGED <<links, tables, tx, outcome, agents>>

(* Third alternative: every usable machine answers a home command already. *)
PickQueueing(r) ==
    /\ r \in Home
    /\ pc[r] = "looking"
    /\ WorkOnly(Usable(r)) = {}
    /\ \E c \in Largest(Usable(r)) : Pick(r, c.node)
    /\ UNCHANGED <<links, router, tables, cut, tx, outcome, agents>>

(* No candidate at all: the caller gets an error.                          *)
PickNothing(r) ==
    /\ r \in Home
    /\ pc[r] = "looking"
    /\ Usable(r) = {}
    /\ Finish(r, "failed")
    /\ UNCHANGED <<links, resting, paused, pending, agents>>

(* The rest of select_control_target, under the connections lock: cancel   *)
(* what was paused (try_send, so a cancel may be lost), take the sender.   *)
Connect(r) ==
    /\ r \in Home
    /\ pc[r] = "picked"
    /\ at[r] \in conn
    /\ \E sent \in SUBSET cut[r] :
          wire' = [wire EXCEPT ![at[r]] = @ \cup {Cancel(w) : w \in sent}]
    /\ cut' = [cut EXCEPT ![r] = {}]
    /\ tx' = [tx EXCEPT ![r] = "live"]
    /\ Goto(r, "connected")
    /\ UNCHANGED <<links, router, tables, cands, at, outcome, machine>>

(* The machine is gone: the work stays paused, the caller gets an error.   *)
ConnectFails(r) ==
    /\ r \in Home
    /\ pc[r] = "picked"
    /\ at[r] \notin conn
    /\ Finish(r, "failed")
    /\ UNCHANGED <<links, resting, paused, pending, agents>>

CommitUnrecorded(r) ==
    \* mutant of Commit: no home command calls begin()
    /\ r \in Home
    /\ pc[r] = "connected"
    /\ pending' = [pending EXCEPT ![r] = at[r]]
    /\ Goto(r, "committed")
    /\ UNCHANGED <<links, router, mail, local, outcome, agents>>

(* dispatch_local_inference_with_tools: begin() with its guard, then the   *)
(* pending_inferences entry.  dispatch_local_inference_stream registers    *)
(* the stream only: it never calls begin().                                *)
Commit(r) ==
    /\ r \in Home
    /\ pc[r] = "connected"
    /\ pending' = [pending EXCEPT ![r] = at[r]]
    /\ inFlight' = IF r \in Control THEN [inFlight EXCEPT ![r] = at[r]]
                                    ELSE inFlight
    /\ Goto(r, "committed")
    /\ UNCHANGED <<links, resting, paused, mail, local, outcome, agents>>

(* run_work_request: pick_work and begin() in one router lock.             *)
PickWork(w) ==
    /\ w \in Work
    /\ pc[w] = "looking"
    /\ \E c \in LastLargest(Free(Matching(w))) :
          /\ Pick(w, c.node)
          /\ inFlight' = [inFlight EXCEPT ![w] = c.node]
    /\ UNCHANGED <<links, resting, paused, tables, cut, tx, outcome, agents>>

(* Nothing matches, or all of it is busy or resting: NoWorker.             *)
NoWorker(w) ==
    /\ w \in Work
    /\ pc[w] = "looking"
    /\ Free(Matching(w)) = {}
    /\ cands' = [cands EXCEPT ![w] = {}]
    /\ outcome' = [outcome EXCEPT ![w] = "noworker"]
    /\ Goto(w, "reporting")
    /\ UNCHANGED <<links, router, tables, at, cut, tx, agents>>

ConnectWorkOrWait(w) ==
    \* mutant of ConnectWork: a machine that is gone is not reported
    /\ w \in Work
    /\ pc[w] = "picked"
    /\ at[w] \in conn
    /\ tx' = [tx EXCEPT ![w] = "live"]
    /\ Goto(w, "connected")
    /\ UNCHANGED <<links, router, tables, cands, at, cut, outcome, agents>>

(* The lookup in the connections map.                                      *)
ConnectWork(w) ==
    /\ w \in Work
    /\ pc[w] = "picked"
    /\ IF at[w] \in conn
         THEN /\ tx' = [tx EXCEPT ![w] = "live"]
              /\ Goto(w, "connected")
              /\ UNCHANGED outcome
         ELSE /\ outcome' = [outcome EXCEPT ![w] = "noworker"]
              /\ Goto(w, "reporting")
              /\ UNCHANGED tx
    /\ UNCHANGED <<links, router, tables, cands, at, cut, agents>>

CommitWork(w) ==
    /\ w \in Work
    /\ pc[w] = "connected"
    /\ pending' = [pending EXCEPT ![w] = at[w]]
    /\ Goto(w, "committed")
    /\ UNCHANGED <<links, router, mail, local, outcome, agents>>

(* agent_tx.send(RequestModelInference).  A clone of a dead connection's   *)
(* sender may still take the message (its writer has not failed yet): the  *)
(* message is lost.                                                        *)
Send(r) ==
    /\ pc[r] = "committed"
    /\ wire' = IF tx[r] = "live" THEN [wire EXCEPT ![at[r]] = @ \cup {Infer(r)}]
                                 ELSE wire
    /\ Goto(r, "waiting")
    /\ UNCHANGED <<links, router, tables, local, outcome, machine>>

(* ... or it fails because the writer is gone: the pending entry goes too. *)
SendFails(r) ==
    /\ r \in Home
    /\ pc[r] = "committed"
    /\ tx[r] = "stale"
    /\ pending' = [pending EXCEPT ![r] = NoNode]
    /\ Finish(r, "failed")
    /\ UNCHANGED <<links, resting, paused, agents>>

SendWorkFails(w) ==
    /\ w \in Work
    /\ pc[w] = "committed"
    /\ tx[w] = "stale"
    /\ pending' = [pending EXCEPT ![w] = NoNode]
    /\ outcome' = [outcome EXCEPT ![w] = "failed"]
    /\ Goto(w, "reporting")
    /\ UNCHANGED <<links, router, mail, local, agents>>

-----------------------------------------------------------------------------
(* A home command waits.                                                   *)

Answered(r) ==
    /\ r \in Control
    /\ pc[r] = "waiting"
    /\ mail[r] # "none"
    /\ Finish(r, IF mail[r] = "result" THEN "finished" ELSE "failed")
    /\ UNCHANGED <<links, resting, paused, pending, agents>>

(* INFERENCE_TIMEOUT_SECS: the entry goes and the machine is told.         *)
TimedOut(r) ==
    /\ r \in Control
    /\ pc[r] = "waiting"
    /\ mail[r] = "none"
    /\ pending' = [pending EXCEPT ![r] = NoNode]
    /\ TrySendCancel(r)
    /\ Finish(r, "failed")
    /\ UNCHANGED <<links, resting, paused, machine>>

(* The caller drops the future at an await: art.rs after its own, shorter  *)
(* timeout, axum when the HTTP client hangs up.  Only the guard runs.      *)
Abandon(r) ==
    /\ r \in Home
    /\ \/ pc[r] = "committed"
       \/ pc[r] = "waiting" /\ r \in Control
    /\ Finish(r, "abandoned")
    /\ UNCHANGED <<links, resting, paused, pending, agents>>

(* The SSE adapter stops on a terminal message, a closed channel, a client *)
(* that hung up or the emitter's deadline, and takes its entry away.       *)
StreamEnds(s) ==
    /\ s \in Stream
    /\ pc[s] = "waiting"
    /\ pending' = [pending EXCEPT ![s] = NoNode]
    /\ Finish(s, IF mail[s] = "result" THEN "finished" ELSE "failed")
    /\ UNCHANGED <<links, resting, paused, agents>>

-----------------------------------------------------------------------------
(* A work request waits: the select loop of run_work_request.              *)

WorkStops(w, how) ==
    /\ w \in Work
    /\ pc[w] = "waiting"
    /\ outcome' = [outcome EXCEPT ![w] = how]
    /\ Goto(w, "reporting")

WorkPaused(w) ==
    /\ w \in paused
    /\ WorkStops(w, "preempted")
    /\ pending' = [pending EXCEPT ![w] = NoNode]
    /\ TrySendCancel(w)
    /\ UNCHANGED <<links, router, mail, local, machine>>

WorkTimedOutLeavingEntry(w) ==
    \* mutant of WorkTimedOut: pending_streams.remove is forgotten
    /\ mail[w] = "none"
    /\ WorkStops(w, "failed")
    /\ TrySendCancel(w)
    /\ UNCHANGED <<links, router, tables, local, machine>>

(* WORK_FIRST_TOKEN_SECS or WORK_TOKEN_GAP_SECS without a token.           *)
WorkTimedOut(w) ==
    /\ mail[w] = "none"
    /\ WorkStops(w, "failed")
    /\ pending' = [pending EXCEPT ![w] = NoNode]
    /\ TrySendCancel(w)
    /\ UNCHANGED <<links, router, mail, local, machine>>

WorkAnswered(w) ==
    /\ mail[w] # "none"
    /\ WorkStops(w, IF mail[w] = "result" THEN "finished" ELSE "failed")
    /\ UNCHANGED <<links, router, tables, local, agents>>

(* The demux dropped the sender without a terminal message.                *)
WorkClosed(w) ==
    /\ pending[w] = NoNode
    /\ mail[w] = "none"
    /\ WorkStops(w, "failed")
    /\ UNCHANGED <<links, router, tables, local, agents>>

(* origin.send(outcome); the guard is dropped when the function returns.   *)
Report(w) ==
    /\ w \in Work
    /\ pc[w] = "reporting"
    /\ Finish(w, outcome[w])
    /\ paused' = paused \ {w}
    /\ UNCHANGED <<links, resting, pending, agents>>

-----------------------------------------------------------------------------
(* The connection handlers (server.rs), as far as the router sees them.    *)

(* The first heartbeat of a new connection: no model of this node is known *)
(* to be loaded any more, and the node gets an entry.                      *)
Register(n) ==
    /\ n \notin conn
    /\ conn' = conn \cup {n}
    /\ ready' = {c \in ready : c.node # n}
    /\ UNCHANGED <<closing, router, tables, pc, local, outcome, agents>>

(* ModelStatus: a model becomes Ready, or stops being it.                  *)
ModelReady(c) ==
    /\ c.node \in conn /\ c \notin ready
    /\ ready' = ready \cup {c}
    /\ UNCHANGED <<conn, closing, router, tables, pc, local, outcome, agents>>

ModelGone(c) ==
    /\ c \in ready /\ c.node \in Flaky
    /\ ready' = ready \ {c}
    /\ UNCHANGED <<conn, closing, router, tables, pc, local, outcome, agents>>

(* The connection closes: the entry and the node's models go.  The agent   *)
(* cancels its generations when its connection closes (tx.closed()).       *)
Disconnect(n) ==
    /\ n \in conn /\ n \in Flaky
    /\ conn' = conn \ {n}
    /\ ready' = {c \in ready : c.node # n}
    /\ closing' = closing \cup {n}
    /\ tx' = [r \in Request |-> IF at[r] = n /\ tx[r] = "live" THEN "stale"
                                                              ELSE tx[r]]
    /\ wire' = [wire EXCEPT ![n] = {}]
    /\ machine' = [machine EXCEPT ![n] = {}]
    /\ UNCHANGED <<router, tables, pc, cands, at, cut, outcome>>

(* ... and then everything pending on it fails.  A stream's channel may be *)
(* full, and then the error is lost with the entry.                        *)
FailPending(n) ==
    /\ n \in closing
    /\ closing' = closing \ {n}
    /\ pending' = [r \in Request |-> IF pending[r] = n THEN NoNode ELSE pending[r]]
    /\ \E full \in SUBSET {r \in Stream \cup Work : pending[r] = n} :
          mail' = [r \in Request |-> IF /\ pending[r] = n /\ r \notin full
                                          /\ pc[r] # "done"
                                       THEN "error" ELSE mail[r]]
    /\ UNCHANGED <<ready, conn, router, pc, local, outcome, agents>>

(* REST_AFTER_PREEMPT has passed.                                          *)
RestEnds(n) ==
    /\ n \in resting
    /\ resting' = resting \ {n}
    /\ UNCHANGED <<links, inFlight, paused, tables, pc, local, outcome, agents>>

-----------------------------------------------------------------------------
(* The machines, coarsely: a request is held from its arrival until it is  *)
(* answered or cancelled; a cancel for a request not (yet) held is lost.   *)

Receive(n, m) ==
    /\ m \in wire[n]
    /\ wire' = [wire EXCEPT ![n] = @ \ {m}]
    /\ machine' = [machine EXCEPT ![n] = IF m.type = "infer" THEN @ \cup {m.id}
                                                             ELSE @ \ {m.id}]
    /\ UNCHANGED <<links, router, tables, pc, local, outcome>>

(* ModelInferenceResult: the pending entry is taken out and its channel    *)
(* gets the result; a stream's full channel loses it.                      *)
MachineAnswers(n, r) ==
    /\ r \in machine[n]
    /\ machine' = [machine EXCEPT ![n] = @ \ {r}]
    /\ pending' = [pending EXCEPT ![r] = NoNode]
    /\ IF pending[r] = NoNode \/ pc[r] = "done"
         THEN mail' = mail
         ELSE \E m \in (IF r \in Control THEN Mail \ {"none"} ELSE Mail) :
                 mail' = [mail EXCEPT ![r] = m]
    /\ UNCHANGED <<links, router, pc, local, outcome, wire>>

ChunkIgnored(n, r) ==
    \* mutant of ChunkUnwanted: a chunk without a listener is dropped
    /\ r \in machine[n] \ Control
    /\ pending[r] = NoNode \/ pc[r] = "done"
    /\ pending' = [pending EXCEPT ![r] = NoNode]
    /\ UNCHANGED <<links, router, mail, pc, local, outcome, agents>>

(* ModelInferenceChunk.  One that is delivered only restarts a timer; the  *)
(* others are answered with a cancel: nobody listens any more, or the      *)
(* listener is STREAM_CHANNEL_CAP chunks behind.                           *)
ChunkUnwanted(n, r) ==
    /\ r \in machine[n] \ Control
    /\ pending[r] = NoNode \/ pc[r] = "done"
    /\ pending' = [pending EXCEPT ![r] = NoNode]
    /\ wire' = [wire EXCEPT ![n] = @ \cup {Cancel(r)}]
    /\ UNCHANGED <<links, router, mail, pc, local, outcome, machine>>

ChunkOverflows(n, r) ==
    /\ r \in machine[n] \ Control
    /\ pending[r] # NoNode /\ pc[r] # "done"
    /\ pending' = [pending EXCEPT ![r] = NoNode]
    /\ wire' = [wire EXCEPT ![n] = @ \cup {Cancel(r)}]
    /\ UNCHANGED <<links, router, mail, pc, local, outcome, machine>>

-----------------------------------------------------------------------------
(* What a task does by itself: every wait in it has a timer, so one of     *)
(* these is enabled until the task is done.                                *)
TaskStep(r) ==
    \/ Look(r)
    \/ PickIdle(r) \/ PickPreempting(r) \/ PickQueueing(r) \/ PickNothing(r)
    \/ Connect(r) \/ ConnectFails(r) \/ Commit(r)
    \/ PickWork(r) \/ NoWorker(r) \/ ConnectWork(r) \/ CommitWork(r)
    \/ Send(r) \/ SendFails(r) \/ SendWorkFails(r)
    \/ Answered(r) \/ TimedOut(r) \/ StreamEnds(r)
    \/ WorkPaused(r) \/ WorkTimedOut(r) \/ WorkAnswered(r) \/ WorkClosed(r)
    \/ Report(r)

Link(n) == Register(n) \/ Disconnect(n) \/ FailPending(n) \/ RestEnds(n)

Machine(n) ==
    \/ \E m \in wire[n] : Receive(n, m)
    \/ \E r \in machine[n] : \/ MachineAnswers(n, r)
                             \/ ChunkUnwanted(n, r)
                             \/ ChunkOverflows(n, r)

Next ==
    \/ \E r \in Request : TaskStep(r) \/ Abandon(r)
    \/ \E n \in Node : Link(n) \/ Machine(n)
    \/ \E c \in Cand : ModelReady(c) \/ ModelGone(c)

(* Tokio runs every task that can run; the writer and the agent keep       *)
(* reading a connection that is up; a machine that generates produces      *)
(* tokens.  Nothing is assumed of how long a generation takes, of lost     *)
(* connections coming back, or of rests ending.                            *)
AgentFairness ==
    /\ \A n \in Node : \A m \in Message : WF_vars(Receive(n, m))
    /\ \A n \in Node : \A r \in Stream \cup Work : WF_vars(ChunkUnwanted(n, r))
Fairness == AgentFairness /\ \A r \in Request : WF_vars(TaskStep(r))

Spec == Init /\ [][Next]_vars
FairSpec == Spec /\ Fairness

-----------------------------------------------------------------------------
(* Properties.                                                             *)

(* A machine is claimed for at most one review task at a time.  The claim  *)
(* and the look at in_flight it rests on are one router lock; every other  *)
(* way into and out of in_flight must leave it so.                         *)
OneWorkPerMachine ==
    \A w, v \in Work :
        inFlight[w] # NoNode /\ inFlight[w] = inFlight[v] => w = v

(* in_flight tells the truth about every task that uses begin(): while a   *)
(* home command waits for a machine, and from the claim of a review task   *)
(* to its report unless a home command paused it, the request is recorded  *)
(* on the machine it uses; before and after it is not recorded at all.  A  *)
(* leak would keep the machine from review work for ever, a hole would     *)
(* send it a second generation.                                            *)
InFlightIsTrue ==
    /\ \A r \in Control :
          inFlight[r] = IF pc[r] \in {"committed", "waiting"} THEN at[r] ELSE NoNode
    /\ \A s \in Stream : inFlight[s] = NoNode
    /\ \A w \in Work :
          inFlight[w] = IF \/ pc[w] \in {"new", "looking", "done"}
                           \/ w \in paused
                          THEN NoNode ELSE at[w]

(* While a machine rests after a home command paused its work, no review   *)
(* task is recorded on it: preempt() has taken out all there was, and      *)
(* pick_work does not come back before the rest is over.                   *)
RestingMachineHasNoWork ==
    \A n \in resting : WorkOn(n) = {}

(* A review task that has been reported leaves nothing in pending_streams, *)
(* whichever of pause, timeout, result, error, lost connection or full     *)
(* channel ended it, and in whichever order they came.                     *)
NoStreamLeft ==
    \A w \in Work : pc[w] \in {"reporting", "done"} => pending[w] = NoNode

(* An entry leaves in_flight only when its own task ends, or because a     *)
(* home command paused it; then it was review work, its pause is fired and *)
(* the machine rests.  A home command is never pushed aside.               *)
KeepsEntries ==
    \A r \in Request :
        inFlight[r] # NoNode /\ inFlight'[r] # inFlight[r]
          => \/ pc'[r] = "done"
             \/ r \in Work /\ r \in paused' /\ inFlight[r] \in resting'
EntryRemoval == [][KeepsEntries]_vars

(* Every review task mac1 sends is answered, once the coordinator looks at *)
(* it: a pause, a lost connection, a lost message or a stream killed for   *)
(* falling behind never leaves it waiting for ever.                        *)
WorkIsReported ==
    \A w \in Work : (pc[w] = "looking") ~> (pc[w] = "done")

(* A machine does not go on generating for a streamed or review request    *)
(* that is over: both cancels may have been lost (try_send) or may have    *)
(* overtaken the request they cancel, but the next token finds no listener *)
(* and is answered with another cancel.                                    *)
UnwantedStreamsStop ==
    \A n \in Node : \A r \in Stream \cup Work :
        (pc[r] = "done" /\ r \in machine[n]) ~> (r \notin machine[n])

(* "Work requests only ever go to a machine that is idle and not resting"  *)
(* (work_router.rs, module comment): when a review task picks a machine,   *)
(* no home command has been sent to it and is still being answered.        *)
WorkGoesToIdleMachine ==
    [][\A w \in Work, h \in Home :
          pc[w] = "looking" /\ pc'[w] = "picked" /\ pc[h] = "waiting"
            => at'[w] # at[h]]_vars

(* "Home commands first": a home command takes an idle machine, and "if    *)
(* none is idle but one is busy only with review work, that work is        *)
(* paused", so that none waits behind a review step (work_router.rs,       *)
(* module comment).                                                        *)
HomeCommandsFirst ==
    \A h \in Control : pc[h] = "waiting" => WorkOn(at[h]) = {}

(* "Abandoning the wait early is safe", so a curation request "can't tie   *)
(* up a node's one-inference-at-a-time slot" (art.rs): a home command its  *)
(* caller gave up on is not left on a machine without a cancel on its way. *)
AbandonedRequestIsCancelled ==
    \A n \in Node : \A r \in Control :
        outcome[r] = "abandoned" /\ r \in machine[n] => Cancel(r) \in wire[n]

(* What the router promises to those who send review work.                 *)
Claims == INSTANCE WorkClaims WITH
    Worker <- Node, Claimant <- Work,
    holder <- [n \in Node |-> WorkOn(n)], rests <- resting

(* Every step of the router, the connections and the machines is a claim,  *)
(* a release, a home command taking a machine or the end of a rest, or     *)
(* leaves the claims alone.                                                *)
ImplementsClaims == Claims!Spec
=============================================================================
