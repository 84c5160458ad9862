------------------------- MODULE NodeSessionProofs -------------------------
(***************************************************************************)
(* The invariants of one node's sessions, for any number of connections,   *)
(* frames under way and requests.                                          *)
(***************************************************************************)
EXTENDS NodeSession, TLAPS

(* The kinds of frames, without what Frame is made of.                     *)
LEMMA FrameFacts ==
    /\ "heartbeat" \in Frame /\ "ready" \in Frame
    /\ "gone" \in Frame /\ "bad" \in Frame
    /\ Request \subseteq Frame
BY DEF Frame

(* A frame that is written, or read, leaves well-formed inboxes.           *)
LEMMA WriteTypes ==
    ASSUME inbox \in [Conn -> Seq(Frame)],
           NEW c \in Conn, NEW f \in Frame, Write(c, f)
    PROVE  inbox' \in [Conn -> Seq(Frame)]
<1>1. Append(inbox[c], f) \in Seq(Frame)
  OBVIOUS
<1>2. QED
  BY <1>1 DEF Write

LEMMA ReadTypes ==
    ASSUME inbox \in [Conn -> Seq(Frame)],
           NEW c \in Conn, NEW f, Reads(c, f)
    PROVE  inbox' \in [Conn -> Seq(Frame)]
<1>1. Tail(inbox[c]) \in Seq(Frame)
  BY DEF Reads
<1>2. QED
  BY <1>1 DEF Reads

(* Type correctness, for every step of the agent, of the handlers of all   *)
(* its connections and of the request tasks.                               *)
THEOREM SessionTypes == Spec => []TypeOK
<1> USE BoundAssumption
<1>1. Init => TypeOK
  <2>1. <<>> \in Seq(Frame)
    OBVIOUS
  <2>2. 0 \in 0..MaxConn /\ 0 \in 0..MaxChanges
    OBVIOUS
  <2>3. ASSUME Init
        PROVE  /\ sess \in [Conn -> Phase]
               /\ inbox \in [Conn -> Seq(Frame)]
    BY <2>1, <2>3 DEF Init, Phase
  <2>4. ASSUME Init
        PROVE  /\ pc \in [Request -> {"new", "selected", "routed", "registered",
                                      "waiting", "failed"}]
               /\ route \in [Request -> 0..MaxConn]
               /\ reply \in [Request -> {"none", "answered", "failed", "timedout"}]
    BY <2>2, <2>4 DEF Init
  <2> QED
    BY <2>2, <2>3, <2>4 DEF Init, TypeOK
<1>2. TypeOK /\ [Next]_vars => TypeOK'
  <2> SUFFICES ASSUME TypeOK, [Next]_vars
               PROVE  TypeOK'
    OBVIOUS
  <2> USE DEF TypeOK, server, node, tasks
  <2>1. ASSUME Connect
        PROVE  TypeOK'
    <3>1. last + 1 \in Conn /\ last + 1 \in 0..MaxConn
      BY <2>1 DEF Connect, Conn
    <3>2. inbox' \in [Conn -> Seq(Frame)]
      BY <2>1, <3>1, FrameFacts, WriteTypes DEF Connect
    <3> QED
      BY <2>1, <3>1, <3>2 DEF Connect, Phase
  <2>2. ASSUME Start
        PROVE  TypeOK'
    <3>1. agent = 0 \/ agent \in Conn
      BY <2>2 DEF Start, Conn
    <3>2. inbox' \in [Conn -> Seq(Frame)]
      BY <2>2, <3>1, FrameFacts, WriteTypes DEF Start
    <3> QED
      BY <2>2, <3>1, <3>2 DEF Start
  <2>3. ASSUME Heartbeat
        PROVE  TypeOK'
    <3>1. agent = 0 \/ agent \in Conn
      BY <2>3 DEF Heartbeat, Conn
    <3>2. inbox' \in [Conn -> Seq(Frame)]
      BY <2>3, <3>1, FrameFacts, WriteTypes DEF Heartbeat
    <3> QED
      BY <2>3, <3>1, <3>2 DEF Heartbeat
  <2>4. ASSUME LoadDone
        PROVE  TypeOK'
    <3>1. agent = 0 \/ agent \in Conn
      BY <2>4 DEF LoadDone, Room, Conn
    <3>2. inbox' \in [Conn -> Seq(Frame)]
      BY <2>4, <3>1, FrameFacts, WriteTypes DEF LoadDone, Room
    <3> QED
      BY <2>4, <3>1, <3>2 DEF LoadDone, Room, Resident
  <2>5. ASSUME UnloadDone
        PROVE  TypeOK'
    <3>1. agent = 0 \/ agent \in Conn
      BY <2>5 DEF UnloadDone, Room, Conn
    <3>2. inbox' \in [Conn -> Seq(Frame)]
      BY <2>5, <3>1, FrameFacts, WriteTypes DEF UnloadDone, Room
    <3> QED
      BY <2>5, <3>1, <3>2 DEF UnloadDone, Room, Resident
  <2>6. ASSUME AgentSendsBadFrame
        PROVE  TypeOK'
    <3>1. agent = 0 \/ agent \in Conn
      BY <2>6 DEF AgentSendsBadFrame, Room, Conn
    <3>2. inbox' \in [Conn -> Seq(Frame)]
      BY <2>6, <3>1, FrameFacts, WriteTypes DEF AgentSendsBadFrame, Room
    <3> QED
      BY <2>6, <3>1, <3>2 DEF AgentSendsBadFrame, Room
  <2>7. ASSUME AgentLeaves
        PROVE  TypeOK'
    <3>1. PICK k \in 0..Len(inbox[agent]) :
             inbox' = [inbox EXCEPT ![agent] = SubSeq(@, 1, k)]
      BY <2>7 DEF AgentLeaves
    <3>2. agent \in Conn
      BY <2>7 DEF AgentLeaves, Conn
    <3>3. SubSeq(inbox[agent], 1, k) \in Seq(Frame)
      BY <3>2
    <3>4. inbox' \in [Conn -> Seq(Frame)]
      BY <3>1, <3>2, <3>3
    <3> QED
      BY <2>7, <3>4, 0 \in 0..MaxConn DEF AgentLeaves
  <2>8. ASSUME NEW r \in Request, AgentAnswers(r)
        PROVE  TypeOK'
    <3>1. agent = 0 \/ agent \in Conn
      BY <2>8 DEF AgentAnswers, Conn
    <3>2. inbox' \in [Conn -> Seq(Frame)]
      <4>1. r \in Frame /\ Write(agent, r)
        BY <2>8, FrameFacts DEF AgentAnswers
      <4>2. CASE agent \in Conn
        BY <4>1, <4>2, WriteTypes
      <4>3. CASE agent = 0
        <5>1. agent \notin DOMAIN inbox
          BY <4>3 DEF Conn
        <5> QED
          BY <4>1, <5>1 DEF Write
      <4> QED
        BY <3>1, <4>2, <4>3
    <3> QED
      BY <2>8, <3>1, <3>2 DEF AgentAnswers
  <2>9. ASSUME NEW c \in Conn, FirstHeartbeat(c)
        PROVE  TypeOK'
    <3>1. inbox' \in [Conn -> Seq(Frame)]
      BY <2>9, ReadTypes DEF FirstHeartbeat
    <3> QED
      BY <2>9, <3>1, 0 \in 0..MaxConn DEF FirstHeartbeat, Phase
  <2>10. ASSUME NEW c \in Conn, Routed(c)
        PROVE  TypeOK'
    BY <2>10 DEF Routed, Phase, Conn
  <2>11. ASSUME NEW c \in Conn, LaterHeartbeat(c)
        PROVE  TypeOK'
    <3>1. inbox' \in [Conn -> Seq(Frame)]
      BY <2>11, ReadTypes DEF LaterHeartbeat
    <3> QED
      BY <2>11, <3>1 DEF LaterHeartbeat, Phase, Conn
  <2>12. ASSUME NEW c \in Conn, ReadyStatus(c)
        PROVE  TypeOK'
    <3>1. inbox' \in [Conn -> Seq(Frame)]
      BY <2>12, ReadTypes DEF ReadyStatus
    <3> QED
      BY <2>12, <3>1 DEF ReadyStatus, Phase, Conn
  <2>13. ASSUME NEW c \in Conn, UnloadedStatus(c)
        PROVE  TypeOK'
    <3>1. inbox' \in [Conn -> Seq(Frame)]
      BY <2>13, ReadTypes DEF UnloadedStatus
    <3> QED
      BY <2>13, <3>1, 0 \in 0..MaxConn DEF UnloadedStatus, Phase
  <2>14. ASSUME NEW c \in Conn, NEW r \in Request, Result(c, r)
        PROVE  TypeOK'
    <3>1. inbox' \in [Conn -> Seq(Frame)]
      BY <2>14, ReadTypes DEF Result
    <3> QED
      BY <2>14, <3>1 DEF Result, Phase
  <2>15. ASSUME NEW c \in Conn, Abort(c)
        PROVE  TypeOK'
    <3>1. inbox' \in [Conn -> Seq(Frame)]
      BY <2>15, ReadTypes DEF Abort
    <3> QED
      BY <2>15, <3>1 DEF Abort, Phase
  <2>16. ASSUME NEW c \in Conn, StaleFrame(c)
        PROVE  TypeOK'
    <3>1. inbox' \in [Conn -> Seq(Frame)]
      BY <2>16, ReadTypes DEF StaleFrame
    <3> QED
      BY <2>16, <3>1 DEF StaleFrame, Phase
  <2>17. ASSUME NEW c \in Conn, Leave(c)
        PROVE  TypeOK'
    BY <2>17 DEF Leave, Phase
  <2>18. ASSUME NEW c \in Conn, RemoveEntry(c)
        PROVE  TypeOK'
    BY <2>18 DEF RemoveEntry, Phase
  <2>19. ASSUME NEW c \in Conn, ClearModels(c)
        PROVE  TypeOK'
    BY <2>19, 0 \in 0..MaxConn DEF ClearModels, Phase
  <2>20. ASSUME NEW c \in Conn, FailInferences(c)
        PROVE  TypeOK'
    BY <2>20 DEF FailInferences, Fail, Phase
  <2>21. ASSUME NEW c \in Conn, FailStreams(c)
        PROVE  TypeOK'
    BY <2>21 DEF FailStreams, Fail, Phase
  <2>22. ASSUME NEW r \in Request, Select(r)
        PROVE  TypeOK'
    BY <2>22 DEF Select, Goto
  <2>23. ASSUME NEW r \in Request, TakeSender(r)
        PROVE  TypeOK'
    BY <2>23 DEF TakeSender, Goto
  <2>24. ASSUME NEW r \in Request, Enter(r)
        PROVE  TypeOK'
    BY <2>24 DEF Enter, Goto
  <2>25. ASSUME NEW r \in Request, Send(r)
        PROVE  TypeOK'
    BY <2>25 DEF Send, Goto
  <2>26. ASSUME NEW r \in Request, SendFails(r)
        PROVE  TypeOK'
    BY <2>26 DEF SendFails, Goto
  <2>27. ASSUME NEW r \in Request, TimesOut(r)
        PROVE  TypeOK'
    BY <2>27 DEF TimesOut
  <2>28. CASE UNCHANGED vars
    BY <2>28 DEF vars
  <2> QED
    BY <2>1, <2>2, <2>3, <2>4, <2>5, <2>6, <2>7, <2>8, <2>9, <2>10, <2>11,
       <2>12, <2>13, <2>14, <2>15, <2>16, <2>17, <2>18, <2>19, <2>20,
       <2>21, <2>22, <2>23, <2>24, <2>25, <2>26, <2>27, <2>28
    DEF Next, Agent, Handle, Cleanup, Task
<1>3. QED
  BY <1>1, <1>2, PTL DEF Spec


(* Connections are made in order: those the agent has not made yet have no *)
(* handler and no frames, and it uses none of them.                        *)
Numbered ==
    /\ agent \leq last
    /\ \A c \in Conn : c > last => sess[c] = "unused" /\ inbox[c] = <<>>

(* Until a frame is dropped as stale, a handler that does not know its     *)
(* node yet finds the startup burst's heartbeat before anything else.      *)
Greeting ==
    mishap # "stale" =>
        \A c \in Conn : sess[c] = "open" =>
            /\ agent = c => inbox[c] # <<>>
            /\ inbox[c] # <<>> => Head(inbox[c]) = "heartbeat"

SessionInv ==
    TypeOK /\ Numbered /\ Greeting /\ EntryOfOpenSession /\ ListedOnlyInSession

(* What an append and a cut leave of the head of a sequence.               *)
LEMMA HeadOfAppend ==
    ASSUME NEW S, NEW s \in Seq(S), NEW f \in S
    PROVE  /\ Append(s, f) # <<>>
           /\ s # <<>> => Head(Append(s, f)) = Head(s)
           /\ s = <<>> => Head(Append(s, f)) = f
OBVIOUS

LEMMA HeadOfCut ==
    ASSUME NEW S, NEW s \in Seq(S), NEW k \in 0..Len(s), SubSeq(s, 1, k) # <<>>
    PROVE  s # <<>> /\ Head(SubSeq(s, 1, k)) = Head(s)
OBVIOUS

(* A frame on the agent's connection never overtakes the greeting.         *)
LEMMA WriteKeeps ==
    ASSUME TypeOK, Numbered, Greeting, NEW f \in Frame, Write(agent, f),
           UNCHANGED <<agent, last, sess>>, mishap' # "stale" => mishap # "stale"
    PROVE  Numbered' /\ Greeting'
<1>1. CASE agent \notin Conn
  <2>1. inbox' = inbox
    BY <1>1 DEF Write, TypeOK
  <2> QED
    BY <2>1 DEF Numbered, Greeting
<1>2. CASE agent \in Conn
  <2>1. /\ inbox' = [inbox EXCEPT ![agent] = Append(inbox[agent], f)]
        /\ inbox[agent] \in Seq(Frame)
        /\ \A c \in Conn \ {agent} : inbox'[c] = inbox[c]
        /\ inbox'[agent] = Append(inbox[agent], f)
    BY <1>2 DEF Write, TypeOK
  <2>2. Numbered'
    BY <1>2, <2>1 DEF Numbered, TypeOK, Conn
  <2>3. ASSUME mishap' # "stale", NEW c \in Conn, sess'[c] = "open"
        PROVE  /\ agent' = c => inbox'[c] # <<>>
               /\ inbox'[c] # <<>> => Head(inbox'[c]) = "heartbeat"
    BY <1>2, <2>1, <2>3, HeadOfAppend DEF Greeting
  <2> QED
    BY <2>2, <2>3 DEF Greeting
<1> QED
  BY <1>1, <1>2

(* A handler that knows its node, or reads the heartbeat, may read on.     *)
LEMMA ReadKeeps ==
    ASSUME TypeOK, Numbered, Greeting, NEW d \in Conn, NEW f, Reads(d, f),
           UNCHANGED <<agent, last>>, sess' = [sess EXCEPT ![d] = sess'[d]],
           sess'[d] # "open" \/ mishap' = "stale", mishap' # "stale" => mishap # "stale"
    PROVE  Numbered' /\ Greeting'
<1>1. /\ sess[d] # "unused"
      /\ \A c \in Conn \ {d} : inbox'[c] = inbox[c] /\ sess'[c] = sess[c]
  BY DEF Reads, Reading, TypeOK
<1> QED
  BY <1>1 DEF Numbered, Greeting, TypeOK

LEMMA NumberedGreetingKept ==
    ASSUME TypeOK, Numbered, Greeting, [Next]_vars
    PROVE  Numbered' /\ Greeting'
<1> USE BoundAssumption DEF server, node, tasks
<1>1. CASE Connect
  <2> DEFINE new == last + 1
  <2>1. /\ new \in Conn /\ last \in Nat /\ agent' = new /\ last' = new
        /\ \A c \in Conn \ {new} : inbox'[c] = inbox[c] /\ sess'[c] = sess[c]
        /\ sess'[new] = "open" /\ inbox'[new] = Append(inbox[new], "heartbeat")
        /\ inbox[new] = <<>> /\ mishap' = mishap
    BY <1>1 DEF Connect, Write, TypeOK, Conn, Numbered
  <2>2. inbox'[new] # <<>> /\ Head(inbox'[new]) = "heartbeat"
    BY <2>1
  <2>3. Numbered'
    BY <2>1 DEF Numbered, Conn
  <2>4. ASSUME mishap' # "stale", NEW c \in Conn, sess'[c] = "open", c # new
        PROVE  /\ agent' # c
               /\ inbox'[c] # <<>> => Head(inbox'[c]) = "heartbeat"
    BY <2>1, <2>4 DEF Greeting
  <2> QED
    BY <2>2, <2>3, <2>4 DEF Greeting
<1>2. CASE Start
  <2>1. CASE Resident
    BY <1>2, <2>1, WriteKeeps, FrameFacts DEF Start
  <2>2. CASE ~Resident
    BY <1>2, <2>2 DEF Start, Numbered, Greeting
  <2> QED
    BY <2>1, <2>2
<1>3. CASE Heartbeat
  BY <1>3, WriteKeeps, FrameFacts DEF Heartbeat
<1>4. CASE LoadDone
  <2>1. CASE started
    BY <1>4, <2>1, WriteKeeps, FrameFacts DEF LoadDone
  <2>2. CASE ~started
    BY <1>4, <2>2 DEF LoadDone, Numbered, Greeting
  <2> QED
    BY <2>1, <2>2
<1>5. CASE UnloadDone
  BY <1>5, WriteKeeps, FrameFacts DEF UnloadDone
<1>6. CASE AgentSendsBadFrame
  <2>1. mishap # "stale"
    BY <1>6 DEF AgentSendsBadFrame
  <2> QED
    BY <1>6, <2>1, WriteKeeps, FrameFacts DEF AgentSendsBadFrame
<1>7. CASE AgentLeaves
  <2>1. PICK k \in 0..Len(inbox[agent]) :
           inbox' = [inbox EXCEPT ![agent] = SubSeq(@, 1, k)]
    BY <1>7 DEF AgentLeaves
  <2>2. /\ agent \in Conn /\ last \in Nat /\ inbox[agent] \in Seq(Frame)
        /\ inbox'[agent] = SubSeq(inbox[agent], 1, k)
        /\ \A c \in Conn \ {agent} : inbox'[c] = inbox[c]
        /\ agent' = 0 /\ UNCHANGED <<sess, last, mishap>>
    BY <1>7, <2>1 DEF AgentLeaves, TypeOK, Conn
  <2>3. Numbered'
    BY <2>2 DEF Numbered, Conn
  <2>4. inbox'[agent] # <<>> => /\ inbox[agent] # <<>>
                                /\ Head(inbox'[agent]) = Head(inbox[agent])
    BY <2>2, HeadOfCut
  <2>5. ASSUME mishap' # "stale", NEW c \in Conn, sess'[c] = "open"
        PROVE  /\ agent' # c
               /\ inbox'[c] # <<>> => Head(inbox'[c]) = "heartbeat"
    <3>1. agent' # c
      BY <2>2 DEF Conn
    <3>2. sess[c] = "open" /\ mishap # "stale"
      BY <2>2, <2>5
    <3>3. inbox[c] # <<>> => Head(inbox[c]) = "heartbeat"
      BY <3>2 DEF Greeting
    <3>4. inbox'[c] # <<>> => Head(inbox'[c]) = "heartbeat"
      BY <2>2, <2>4, <3>3
    <3> QED
      BY <3>1, <3>4
  <2> QED
    BY <2>3, <2>5 DEF Greeting
<1>8. ASSUME NEW r \in Request, AgentAnswers(r)
      PROVE  Numbered' /\ Greeting'
  BY <1>8, WriteKeeps, FrameFacts DEF AgentAnswers
<1>9. ASSUME NEW c \in Conn, FirstHeartbeat(c)
      PROVE  Numbered' /\ Greeting'
  <2>1. sess' = [sess EXCEPT ![c] = sess'[c]] /\ sess'[c] # "open"
    BY <1>9 DEF FirstHeartbeat, TypeOK
  <2> QED
    BY <1>9, <2>1, ReadKeeps DEF FirstHeartbeat
<1>10. ASSUME NEW c \in Conn, Routed(c)
       PROVE  Numbered' /\ Greeting'
  BY <1>10 DEF Routed, Numbered, Greeting, TypeOK
<1>11. ASSUME NEW c \in Conn, NEW f, Reads(c, f), f # "heartbeat" \/ sess[c] = "named",
              UNCHANGED <<sess, agent, last, mishap>>
       PROVE  Numbered' /\ Greeting'
  <2>1. sess' = [sess EXCEPT ![c] = sess'[c]]
    BY <1>11 DEF TypeOK
  <2>2. sess'[c] # "open" \/ mishap' = "stale"
    BY <1>11 DEF Greeting, Reads
  <2> QED
    BY <1>11, <2>1, <2>2, ReadKeeps
<1>12. ASSUME NEW c \in Conn, LaterHeartbeat(c) \/ ReadyStatus(c) \/ UnloadedStatus(c)
       PROVE  Numbered' /\ Greeting'
  BY <1>11, <1>12 DEF LaterHeartbeat, ReadyStatus, UnloadedStatus
<1>13. ASSUME NEW c \in Conn, NEW r \in Request, Result(c, r)
       PROVE  Numbered' /\ Greeting'
  <2>1. r # "heartbeat"
    BY RequestAssumption
  <2> QED
    BY <1>11, <1>13, <2>1 DEF Result
<1>14. ASSUME NEW c \in Conn, StaleFrame(c)
       PROVE  Numbered' /\ Greeting'
  <2>1. PICK f \in Frame : Reads(c, f)
    BY <1>14 DEF StaleFrame
  <2>2. sess' = [sess EXCEPT ![c] = sess'[c]] /\ mishap' = "stale"
    BY <1>14 DEF StaleFrame, TypeOK
  <2> QED
    BY <1>14, <2>1, <2>2, ReadKeeps DEF StaleFrame
<1>15. ASSUME NEW c \in Conn, Abort(c)
       PROVE  Numbered' /\ Greeting'
  <2>1. sess' = [sess EXCEPT ![c] = sess'[c]] /\ sess'[c] # "open"
    BY <1>15 DEF Abort, TypeOK
  <2> QED
    BY <1>15, <2>1, ReadKeeps DEF Abort
<1>16. ASSUME NEW c \in Conn, Leave(c)
       PROVE  Numbered' /\ Greeting'
  <2>1. /\ sess[c] # "unused" /\ sess'[c] # "open" /\ inbox'[c] = <<>>
        /\ \A d \in Conn \ {c} : sess'[d] = sess[d] /\ inbox'[d] = inbox[d]
    BY <1>16 DEF Leave, Reading, TypeOK
  <2> QED
    BY <1>16, <2>1 DEF Leave, Numbered, Greeting
<1>17. ASSUME NEW c \in Conn, Cleanup(c)
       PROVE  Numbered' /\ Greeting'
  BY <1>17 DEF Cleanup, RemoveEntry, ClearModels, FailInferences, FailStreams,
               Numbered, Greeting, TypeOK
<1>18. ASSUME NEW r \in Request, Task(r) \/ TimesOut(r)
       PROVE  Numbered' /\ Greeting'
  BY <1>18 DEF Task, Select, TakeSender, Enter, Send, SendFails, TimesOut,
               Numbered, Greeting
<1>19. CASE UNCHANGED vars
  BY <1>19 DEF vars, Numbered, Greeting
<1> QED
  BY <1>1, <1>2, <1>3, <1>4, <1>5, <1>6, <1>7, <1>8, <1>9, <1>10, <1>12,
     <1>13, <1>14, <1>15, <1>16, <1>17, <1>18, <1>19
  DEF Next, Agent, Handle

(* The last to write the connections map still has its cleanup to do.      *)
LEMMA EntryKept ==
    ASSUME TypeOK, Numbered, EntryOfOpenSession, [Next]_vars
    PROVE  EntryOfOpenSession'
<1> USE BoundAssumption DEF server, node, tasks, EntryOfOpenSession
<1>1. entry \in Conn \/ entry = 0
  BY DEF TypeOK, Conn
<1>2. CASE Connect
  <2>1. entry # last + 1
    BY <1>1, <1>2 DEF Numbered, Connect, Conn, TypeOK
  <2> QED
    BY <1>1, <1>2, <2>1 DEF Connect, TypeOK
<1>3. CASE Agent /\ ~Connect
  BY <1>3 DEF Agent, Start, Heartbeat, LoadDone, UnloadDone, AgentSendsBadFrame,
              AgentLeaves, AgentAnswers
<1>4. ASSUME NEW c \in Conn, Handle(c)
      PROVE  EntryOfOpenSession'
  BY <1>1, <1>4 DEF Handle, FirstHeartbeat, Routed, LaterHeartbeat, ReadyStatus,
                    UnloadedStatus, Result, Abort, Reads, Reading, TypeOK
<1>5. ASSUME NEW c \in Conn, StaleFrame(c) \/ Leave(c) \/ Cleanup(c)
      PROVE  EntryOfOpenSession'
  BY <1>1, <1>5 DEF StaleFrame, Leave, Reading, Cleanup, RemoveEntry, ClearModels,
                    FailInferences, FailStreams, TypeOK
<1>6. ASSUME NEW r \in Request, Task(r) \/ TimesOut(r)
      PROVE  EntryOfOpenSession'
  BY <1>6 DEF Task, Select, TakeSender, Enter, Send, SendFails, TimesOut
<1>7. CASE UNCHANGED vars
  BY <1>7 DEF vars
<1> QED
  BY <1>2, <1>3, <1>4, <1>5, <1>6, <1>7 DEF Next

(* A handler that records a model knows its node, unless it missed the     *)
(* greeting; and it takes the models away before it is over, unless it     *)
(* returns early.                                                          *)
LEMMA ListedKept ==
    ASSUME TypeOK, Numbered, Greeting, ListedOnlyInSession, [Next]_vars
    PROVE  ListedOnlyInSession'
<1> USE BoundAssumption DEF server, node, tasks, ListedOnlyInSession, listed
<1>1. lister \in Conn \/ lister = 0
  BY DEF TypeOK, Conn
<1>2. CASE Connect
  <2>1. last + 1 \in Conn /\ sess[last + 1] = "unused"
    BY <1>2 DEF Numbered, Connect, Conn, TypeOK
  <2>2. lister # 0 => lister # last + 1
    BY <1>1, <2>1
  <2> QED
    BY <1>1, <1>2, <2>1, <2>2 DEF Connect, TypeOK
<1>3. CASE Agent /\ ~Connect
  BY <1>3 DEF Agent, Start, Heartbeat, LoadDone, UnloadDone, AgentSendsBadFrame,
              AgentLeaves, AgentAnswers
<1>4. ASSUME NEW c \in Conn, ReadyStatus(c)
      PROVE  ListedOnlyInSession'
  <2>1. mishap # "stale" => sess[c] = "named"
    BY <1>4 DEF ReadyStatus, Reads, Reading, Greeting
  <2>2. sess[c] \in {"open", "named"}
    BY <1>4 DEF ReadyStatus, Reads, Reading
  <2> QED
    BY <1>4, <2>1, <2>2 DEF ReadyStatus
<1>5. ASSUME NEW c \in Conn, Handle(c), ~ReadyStatus(c)
      PROVE  ListedOnlyInSession'
  BY <1>1, <1>5 DEF Handle, FirstHeartbeat, Routed, LaterHeartbeat,
                    UnloadedStatus, Result, Abort, Reads, Reading, TypeOK
<1>6. ASSUME NEW c \in Conn, StaleFrame(c)
      PROVE  ListedOnlyInSession'
  BY <1>6 DEF StaleFrame
<1>7. ASSUME NEW c \in Conn, Leave(c)
      PROVE  ListedOnlyInSession'
  BY <1>1, <1>7 DEF Leave, Reading, TypeOK
<1>8. ASSUME NEW c \in Conn, Cleanup(c)
      PROVE  ListedOnlyInSession'
  BY <1>1, <1>8 DEF Cleanup, RemoveEntry, ClearModels, FailInferences, FailStreams, TypeOK
<1>9. ASSUME NEW r \in Request, Task(r) \/ TimesOut(r)
      PROVE  ListedOnlyInSession'
  BY <1>9 DEF Task, Select, TakeSender, Enter, Send, SendFails, TimesOut
<1>10. CASE UNCHANGED vars
  BY <1>10 DEF vars
<1> QED
  BY <1>2, <1>3, <1>4, <1>5, <1>6, <1>7, <1>8, <1>9, <1>10 DEF Next

LEMMA SessionInvariant == Spec => []SessionInv
<1>1. Init => Numbered /\ Greeting /\ EntryOfOpenSession /\ ListedOnlyInSession
  BY BoundAssumption DEF Init, Numbered, Greeting, EntryOfOpenSession, ListedOnlyInSession, listed
<1>2. TypeOK /\ TypeOK' /\ SessionInv /\ [Next]_vars => SessionInv'
  BY NumberedGreetingKept, EntryKept, ListedKept DEF SessionInv
<1>3. Init /\ TypeOK => SessionInv
  BY <1>1 DEF SessionInv
<1>4. QED
  BY <1>2, <1>3, SessionTypes, PTL DEF Spec

(* The entry of the connections map belongs to a handler that will still   *)
(* remove it, however the handlers of the node's connections interleave.   *)
THEOREM EntryOpen == Spec => []EntryOfOpenSession
BY SessionInvariant, PTL DEF SessionInv

(* A listed model was recorded by a handler that will still clear it; one  *)
(* that returned early, and one whose greeting was dropped as stale, are   *)
(* the only exceptions.                                                    *)
THEOREM ListedInSession == Spec => []ListedOnlyInSession
BY SessionInvariant, PTL DEF SessionInv
=============================================================================
