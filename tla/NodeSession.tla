----------------------------- MODULE NodeSession -----------------------------
(***************************************************************************)
(* The coordinator's side of one node's connections (handle_connection and *)
(* process_message, server.rs), the agent's side of them (agent/main.rs,   *)
(* LlmCapability::start), and the tables they share: the connections map,  *)
(* the node's models in the registry, and the pending requests.            *)
(*                                                                         *)
(* Every table is keyed by the node's id and every handler touches only    *)
(* the keys of its own node, so one node stands for all.  The node makes   *)
(* connections 1, 2, ...; the handler of an old one may still be running   *)
(* when the node is already talking to the next.                           *)
(***************************************************************************)
EXTENDS Naturals, Sequences

CONSTANTS
    MaxConn,     \* bound: connections the agent makes
    MaxChanges,  \* bound: loads and unloads of the model that end
    InboxBound,  \* bound: frames under way beyond which no more are begun
    Mishap,      \* bound: what may go wrong with one frame of a behaviour
    Cli,         \* requests of handle_cli_inference (mesh infer)
    Streamed     \* requests in pending_streams

Conn == 1..MaxConn
Request == Cli \cup Streamed

ASSUME BoundAssumption ==
    /\ MaxConn \in Nat \ {0} /\ InboxBound \in Nat \ {0} /\ MaxChanges \in Nat
    /\ Mishap \subseteq {"stale", "bad"}
ASSUME RequestAssumption ==
    Cli \cap Streamed = {} /\ Request \cap {"heartbeat", "ready", "gone", "bad"} = {}

VARIABLES
    sess,      \* where the handler of each connection is
    entry,     \* whose sender the connections map holds for the node; 0: none
    lister,    \* the connection whose handler last recorded the node's model
               \* Ready; 0: the registry has none
    pend,      \* the requests in pending_inferences and pending_streams
    agent,     \* the connection the agent is using; 0: none
    last,      \* the connections it has made
    started,   \* the llm capability's start() has run for this connection
    changes,   \* the loads and unloads of the model that have ended
    inbox,     \* frames from the agent the handler has not read
    serving,   \* requests the agent is working on
    pc,        \* where the task of each request is
    route,     \* the connection whose sender the task cloned
    reply,     \* what the task has been told
    mishap     \* what has gone wrong with a frame so far

server  == <<sess, entry, lister, pend>>
node    == <<agent, last, started, changes, serving>>
tasks   == <<pc, route, reply>>
vars    == <<sess, entry, lister, pend, agent, last, started, changes, inbox,
             serving, pc, route, reply, mishap>>

(* A handler: reading without and with a node_id ("greeted" lies between   *)
(* the registry and the connections lock of its first heartbeat); then the *)
(* cleanup, named for what comes next; "aborted" is an early return.       *)
Phase == {"unused", "open", "greeted", "named", "unroute", "unlist",
          "failInferences", "failStreams", "over", "aborted"}
FrameWithoutUnload ==
    \* mutant of Frame: a protocol that has no Unloaded status
    {"heartbeat", "ready", "bad"} \cup Request

(* Frames of the agent; a request stands for its ModelInferenceResult, and *)
(* "bad" for a frame that is too long, fails its HMAC or does not parse.   *)
Frame == {"heartbeat", "ready", "gone", "bad"} \cup Request

listed     == lister # 0
Reading(c) == sess[c] \in {"open", "named"}
Ended(c)   == sess[c] \in {"unused", "over", "aborted"}
Resident   == changes % 2 = 1   \* in the node's llama-server
Alone(c)   == \A d \in Conn \ {c} : Ended(d)

TypeOK ==
    /\ sess \in [Conn -> Phase]
    /\ entry \in 0..MaxConn
    /\ lister \in 0..MaxConn
    /\ pend \in SUBSET Request
    /\ agent \in 0..MaxConn
    /\ last \in 0..MaxConn
    /\ started \in BOOLEAN
    /\ changes \in 0..MaxChanges
    /\ inbox \in [Conn -> Seq(Frame)]
    /\ serving \in SUBSET Request
    /\ pc \in [Request -> {"new", "selected", "routed", "registered", "waiting", "failed"}]
    /\ route \in [Request -> 0..MaxConn]
    /\ reply \in [Request -> {"none", "answered", "failed", "timedout"}]
    /\ mishap \in {"none"} \cup Mishap

Init ==
    /\ sess = [c \in Conn |-> "unused"]
    /\ entry = 0
    /\ lister = 0
    /\ pend = {}
    /\ agent = 0
    /\ last = 0
    /\ started = FALSE
    /\ changes = 0
    /\ inbox = [c \in Conn |-> <<>>]
    /\ serving = {}
    /\ pc = [r \in Request |-> "new"]
    /\ route = [r \in Request |-> 0]
    /\ reply = [r \in Request |-> "none"]
    /\ mishap = "none"

Write(c, f) == inbox' = [inbox EXCEPT ![c] = Append(@, f)]
Room == agent # 0 /\ Len(inbox[agent]) < InboxBound

-----------------------------------------------------------------------------
(* The agent.                                                              *)

ConnectCapabilitiesFirst ==
    \* mutant of Connect: the capabilities start before the startup burst
    /\ agent = 0 /\ last < MaxConn
    /\ last' = last + 1
    /\ agent' = last + 1
    /\ started' = TRUE
    /\ sess' = [sess EXCEPT ![last + 1] = "open"]
    /\ inbox' = [inbox EXCEPT ![last + 1] = IF Resident THEN <<"ready", "heartbeat">>
                                                       ELSE <<"heartbeat">>]
    /\ UNCHANGED <<entry, lister, pend, changes, serving, tasks, mishap>>

(* A new connection: the startup burst puts the first heartbeat on the     *)
(* channel before anything else can.                                       *)
Connect ==
    /\ agent = 0 /\ last < MaxConn
    /\ last' = last + 1
    /\ agent' = last + 1
    /\ started' = FALSE
    /\ sess' = [sess EXCEPT ![last + 1] = "open"]
    /\ Write(last + 1, "heartbeat")
    /\ UNCHANGED <<entry, lister, pend, changes, serving, tasks, mishap>>

(* LlmCapability::start: a resident model is reported again.               *)
Start ==
    /\ agent # 0 /\ ~started
    /\ started' = TRUE
    /\ IF Resident THEN Write(agent, "ready") ELSE UNCHANGED inbox
    /\ UNCHANGED <<server, agent, last, changes, serving, tasks, mishap>>

Heartbeat ==
    /\ agent # 0 /\ inbox[agent] = <<>>
    /\ Write(agent, "heartbeat")
    /\ UNCHANGED <<server, node, tasks, mishap>>

(* A load or an unload ends.  The report goes to the connection start() or *)
(* the command brought; before start() that is an older one, and it is     *)
(* lost.  (LlmCapability's own races are not here.)                        *)
LoadDone ==
    /\ ~Resident /\ changes < MaxChanges
    /\ changes' = changes + 1
    /\ IF started THEN Room /\ Write(agent, "ready") ELSE UNCHANGED inbox
    /\ UNCHANGED <<server, agent, last, started, serving, tasks, mishap>>

UnloadDone ==
    /\ Resident /\ changes < MaxChanges
    /\ started /\ Room
    /\ changes' = changes + 1
    /\ Write(agent, "gone")
    /\ UNCHANGED <<server, agent, last, started, serving, tasks, mishap>>

(* run_inference ends, with an output or an error.                         *)
AgentAnswers(r) ==
    /\ r \in serving
    /\ serving' = serving \ {r}
    /\ Write(agent, r)
    /\ UNCHANGED <<server, agent, last, started, changes, tasks, mishap>>

(* A frame of a newer protocol, or a damaged one.                          *)
AgentSendsBadFrame ==
    /\ Room
    /\ mishap = "none" /\ mishap' \in Mishap \cap {"bad"}
    /\ Write(agent, "bad")
    /\ UNCHANGED <<server, node, tasks>>

(* EOF, a write error, or no frame for the agent's read timeout: what was  *)
(* under way may be lost, and the generations are dropped with the tx.     *)
AgentLeaves ==
    /\ agent # 0
    /\ agent' = 0
    /\ started' = FALSE
    /\ serving' = {}
    /\ \E k \in 0..Len(inbox[agent]) :
          inbox' = [inbox EXCEPT ![agent] = SubSeq(@, 1, k)]
    /\ UNCHANGED <<server, last, changes, tasks, mishap>>

-----------------------------------------------------------------------------
(* The handler of connection c reads a frame.                              *)

Reads(c, f) ==
    /\ Reading(c)
    /\ inbox[c] # <<>> /\ Head(inbox[c]) = f
    /\ inbox' = [inbox EXCEPT ![c] = Tail(@)]

(* The first heartbeat, under the registry lock: models are cleared ...    *)
FirstHeartbeat(c) ==
    /\ sess[c] = "open"
    /\ Reads(c, "heartbeat")
    /\ sess' = [sess EXCEPT ![c] = "greeted"]
    /\ lister' = 0
    /\ UNCHANGED <<entry, pend, node, tasks, mishap>>

(* ... then, under the connections lock, the node is routed to c.          *)
Routed(c) ==
    /\ sess[c] = "greeted"
    /\ sess' = [sess EXCEPT ![c] = "named"]
    /\ entry' = c
    /\ UNCHANGED <<lister, pend, node, inbox, tasks, mishap>>

LaterHeartbeatRoutesNothing(c) ==
    \* mutant of LaterHeartbeat: only the first heartbeat routes the node
    /\ sess[c] = "named"
    /\ Reads(c, "heartbeat")
    /\ UNCHANGED <<sess, entry, lister, pend, node, tasks, mishap>>

LaterHeartbeat(c) ==
    /\ sess[c] = "named"
    /\ Reads(c, "heartbeat")
    /\ entry' = c
    /\ UNCHANGED <<sess, lister, pend, node, tasks, mishap>>

ReadyStatus(c) ==
    /\ Reads(c, "ready")
    /\ lister' = c
    /\ UNCHANGED <<sess, entry, pend, node, tasks, mishap>>

UnloadedStatus(c) ==
    /\ Reads(c, "gone")
    /\ lister' = 0
    /\ UNCHANGED <<sess, entry, pend, node, tasks, mishap>>

Result(c, r) ==
    /\ Reads(c, r)
    /\ pend' = pend \ {r}
    /\ reply' = IF r \in pend THEN [reply EXCEPT ![r] = "answered"] ELSE reply
    /\ UNCHANGED <<sess, entry, lister, node, pc, route, mishap>>

(* FrameVerifyError::Stale: the frame is skipped, the connection lives on. *)
StaleFrame(c) ==
    /\ mishap = "none" /\ mishap' \in Mishap \cap {"stale"}
    /\ \E f \in Frame : Reads(c, f)
    /\ UNCHANGED <<server, node, tasks>>

(* Err(ServerError::Json) or a failed HMAC: the handler returns at once.   *)
Abort(c) ==
    /\ Reads(c, "bad")
    /\ sess' = [sess EXCEPT ![c] = "aborted"]
    /\ UNCHANGED <<entry, lister, pend, node, tasks, mishap>>

(* The loop is left: EOF or the read timeout (nothing more to read), a     *)
(* frame that is too long, or a reply its writer can no longer take.       *)
Leave(c) ==
    /\ Reading(c)
    /\ \/ agent # c
       \/ \A i \in 1..Len(inbox[c]) : i = 1 => inbox[c][i] = "bad"
    /\ sess' = [sess EXCEPT ![c] = IF sess[c] = "named" THEN "unroute" ELSE "over"]
    /\ inbox' = [inbox EXCEPT ![c] = <<>>]
    /\ UNCHANGED <<entry, lister, pend, node, tasks, mishap>>

-----------------------------------------------------------------------------
(* The cleanup of connection c: four locks, one after the other.           *)

KeepModels(c) ==
    \* mutant of ClearModels: clear_node_models is left to the next heartbeat
    /\ sess[c] = "unlist"
    /\ sess' = [sess EXCEPT ![c] = "failInferences"]
    /\ UNCHANGED <<entry, lister, pend, node, inbox, tasks, mishap>>

FailNothing(c) ==
    \* mutant of FailInferences: requests wait for their own timeout
    /\ sess[c] = "failInferences"
    /\ sess' = [sess EXCEPT ![c] = "failStreams"]
    /\ UNCHANGED <<entry, lister, pend, node, inbox, tasks, mishap>>

RemoveEntry(c) ==
    /\ sess[c] = "unroute"
    /\ sess' = [sess EXCEPT ![c] = "unlist"]
    /\ entry' = 0
    /\ UNCHANGED <<lister, pend, node, inbox, tasks, mishap>>

ClearModels(c) ==
    /\ sess[c] = "unlist"
    /\ sess' = [sess EXCEPT ![c] = "failInferences"]
    /\ lister' = 0
    /\ UNCHANGED <<entry, pend, node, inbox, tasks, mishap>>

Fail(S) ==
    /\ pend' = pend \ S
    /\ reply' = [r \in Request |-> IF r \in pend \cap S THEN "failed" ELSE reply[r]]

FailInferences(c) ==
    /\ sess[c] = "failInferences"
    /\ sess' = [sess EXCEPT ![c] = "failStreams"]
    /\ Fail(Cli)
    /\ UNCHANGED <<entry, lister, node, inbox, pc, route, mishap>>

FailStreams(c) ==
    /\ sess[c] = "failStreams"
    /\ sess' = [sess EXCEPT ![c] = "over"]
    /\ Fail(Streamed)
    /\ UNCHANGED <<entry, lister, node, inbox, pc, route, mishap>>

-----------------------------------------------------------------------------
(* The task of a request to this node.                                     *)

Goto(r, label) == pc' = [pc EXCEPT ![r] = label]

(* The registry says the model is Ready here.                              *)
Select(r) ==
    /\ pc[r] = "new" /\ listed
    /\ Goto(r, "selected")
    /\ UNCHANGED <<server, node, inbox, route, reply, mishap>>

(* The sender is cloned, or "dropped from connections map".                *)
TakeSender(r) ==
    /\ pc[r] = "selected"
    /\ IF entry # 0
         THEN Goto(r, "routed") /\ route' = [route EXCEPT ![r] = entry]
         ELSE Goto(r, "failed") /\ UNCHANGED route
    /\ UNCHANGED <<server, node, inbox, reply, mishap>>

Enter(r) ==
    /\ pc[r] = "routed"
    /\ Goto(r, "registered")
    /\ pend' = pend \cup {r}
    /\ UNCHANGED <<sess, entry, lister, node, inbox, route, reply, mishap>>

(* The message reaches the agent, or a connection it has left.             *)
Send(r) ==
    /\ pc[r] = "registered"
    /\ Goto(r, "waiting")
    /\ serving' = IF agent = route[r] THEN serving \cup {r} ELSE serving
    /\ UNCHANGED <<server, agent, last, started, changes, inbox, route, reply, mishap>>

(* The writer of that connection has ended.  handle_cli_inference takes    *)
(* the node out of the connections map as well.                            *)
SendFails(r) ==
    /\ pc[r] = "registered" /\ agent # route[r]
    /\ Goto(r, "failed")
    /\ pend' = pend \ {r}
    /\ entry' = IF r \in Cli THEN 0 ELSE entry
    /\ UNCHANGED <<sess, lister, node, inbox, route, reply, mishap>>

(* GENERATE_TIMEOUT_SECS, or the SSE emitter's deadline.                   *)
TimesOut(r) ==
    /\ pc[r] = "waiting" /\ reply[r] = "none"
    /\ reply' = [reply EXCEPT ![r] = "timedout"]
    /\ pend' = pend \ {r}
    /\ UNCHANGED <<sess, entry, lister, node, inbox, pc, route, mishap>>

-----------------------------------------------------------------------------
Agent == \/ Connect \/ Start \/ Heartbeat \/ LoadDone \/ UnloadDone
         \/ AgentSendsBadFrame \/ AgentLeaves
         \/ \E r \in Request : AgentAnswers(r)

Handle(c) == \/ FirstHeartbeat(c) \/ Routed(c) \/ LaterHeartbeat(c)
             \/ ReadyStatus(c) \/ UnloadedStatus(c)
             \/ \E r \in Request : Result(c, r)
             \/ Abort(c)
Cleanup(c) == \/ RemoveEntry(c) \/ ClearModels(c)
              \/ FailInferences(c) \/ FailStreams(c)
Task(r) == Select(r) \/ TakeSender(r) \/ Enter(r) \/ Send(r) \/ SendFails(r)

Next == \/ Agent
        \/ \E c \in Conn : Handle(c) \/ StaleFrame(c) \/ Leave(c) \/ Cleanup(c)
        \/ \E r \in Request : Task(r) \/ TimesOut(r)

(* Tokio runs what can run; the agent's capabilities start, its heartbeat  *)
(* timer goes on; a generation ends; a handler whose agent has gone, and an agent whose handler has    *)
(* ended, notice it (EOF or their read timeouts).  Nothing is assumed of   *)
(* new connections, of loads, or of the timeouts of requests.              *)
Fairness ==
    /\ WF_vars(Start) /\ WF_vars(Heartbeat)
    /\ \A r \in Request : WF_vars(AgentAnswers(r)) /\ WF_vars(Task(r))
    /\ \A c \in Conn : WF_vars(Handle(c)) /\ WF_vars(Cleanup(c))
    /\ \A c \in Conn : WF_vars(agent # c /\ Leave(c))
    /\ \A c \in Conn : WF_vars(agent = c /\ Ended(c) /\ AgentLeaves)

Spec == Init /\ [][Next]_vars
FairSpec == Spec /\ Fairness

-----------------------------------------------------------------------------
(* Properties.                                                             *)

(* The connections map never holds the sender of a handler that has gone   *)
(* through its cleanup: however the handlers of two connections            *)
(* interleave, the last to write the entry is one that will still take it  *)
(* away.  (One that returned early is the exception: it never does.)       *)
EntryOfOpenSession ==
    entry # 0 => sess[entry] \in {"named", "unroute", "aborted"}

(* A model the registry offers was recorded by a handler that will still   *)
(* take it back: it knows its node, and has not come to clear_node_models  *)
(* yet.  Two exceptions, in which the offer outlives the session: the      *)
(* handler returned early, past its cleanup; or the greeting was dropped   *)
(* as stale, and the handler records models, and ends, without ever        *)
(* learning whose they are.                                                *)
ListedOnlyInSession ==
    listed =>
        \/ sess[lister] \in {"named", "unroute", "unlist"}
        \/ sess[lister] = "aborted"
        \/ mishap = "stale" /\ sess[lister] \in {"open", "over"}

(* An older connection's cleanup, and a failed send of mesh infer, take    *)
(* the entry of a newer connection out of the connections map; as long as  *)
(* that connection lives, the node is routed to it again.                  *)
EntryComesBack ==
    \A c \in Conn :
        agent = c /\ sess[c] = "named" ~> entry = c \/ agent # c \/ sess[c] # "named"

(* A request is never left to its own timeout (300 s) by a connection that *)
(* closes: one that was sent to the node of a working handler is answered, *)
(* or failed by the cleanup.                                               *)
FastFailure ==
    \A r \in Request : \A c \in Conn :
        pc[r] = "waiting" /\ route[r] = c /\ sess[c] = "named"
          ~> reply[r] # "none" \/ sess[c] = "aborted" \/ mishap = "stale"

(* A model that stayed loaded through a reconnect is Ready again for the   *)
(* coordinator: the first heartbeat clears it before the re-report, never  *)
(* after -- provided the handlers of all older connections are done.       *)
ReconnectRestoresModel ==
    \A c \in Conn :
        agent = c /\ sess[c] = "open" /\ Resident /\ Alone(c)
          ~> (listed /\ sess[c] = "named") \/ agent # c \/ ~Resident \/ mishap = "stale"

(* llm/lib.rs, start(): re-reporting on every (re)connect is there so that *)
(* "a model still resident in llama-server" does not "vanish from the      *)
(* dashboard until the next explicit load".                                *)
ResidentModelIsListed ==
    \A c \in Conn :
        agent = c /\ Resident ~> listed \/ agent # c \/ ~Resident
=============================================================================
