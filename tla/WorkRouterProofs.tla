-------------------------- MODULE WorkRouterProofs --------------------------
(***************************************************************************)
(* What WorkRouter's runs check on small instances, proved for every set   *)
(* of machines, candidates and requests.                                   *)
(***************************************************************************)
EXTENDS WorkRouter, TLAPS

(* The requests' kinds and the two messages are what the type invariant    *)
(* says they are.                                                          *)
LEMMA MessageTypes ==
    \A r \in Request : Infer(r) \in Message /\ Cancel(r) \in Message
  BY DEF Infer, Cancel, Message

(* Type correctness of the router, the tasks and the maps they share, for  *)
(* every step of every task, connection handler and machine.               *)
THEOREM Typing == Spec => []TypeOK
<1> USE NodeAssumption, CandAssumption, WantAssumption
    DEF Home, Request, PC, Mail, Outcome
<1>1. Init => TypeOK
  BY DEF Init, TypeOK
<1>2. TypeOK /\ [Next]_vars => TypeOK'
  <2> SUFFICES ASSUME TypeOK, [Next]_vars
               PROVE  TypeOK'
    OBVIOUS
  <2> USE DEF TypeOK, links, router, tables, local, agents
  <2>1. ASSUME NEW r \in Request, Look(r)
        PROVE  TypeOK'
    BY <2>1 DEF Look, Goto
  <2>2. ASSUME NEW r \in Request, PickIdle(r)
        PROVE  TypeOK'
    BY <2>2 DEF PickIdle, Pick, Goto, Largest, Idle, Usable
  <2>3. ASSUME NEW r \in Request, PickPreempting(r)
        PROVE  TypeOK'
    <3>1. PICK c \in Cand : /\ Pick(r, c.node)
                           /\ cut' = [cut EXCEPT ![r] = WorkOn(c.node)]
                           /\ paused' = paused \cup WorkOn(c.node)
                           /\ resting' = resting \cup {c.node}
                           /\ inFlight' = [q \in Request |->
                                IF q \in WorkOn(c.node) THEN NoNode ELSE inFlight[q]]
      BY <2>3 DEF PickPreempting, Largest, WorkOnly, Usable
    <3>2. c.node \in Node /\ WorkOn(c.node) \in SUBSET Work
      BY DEF WorkOn
    <3>3. UNCHANGED <<links, tables, tx, outcome, agents>>
      BY <2>3 DEF PickPreempting
    <3>4. paused' \in SUBSET Work /\ resting' \in SUBSET Node
      BY <3>1, <3>2
    <3>5. cut' \in [Request -> SUBSET Work]
      BY <3>1, <3>2
    <3>6. inFlight' \in [Request -> Node \cup {NoNode}]
      BY <3>1
    <3> QED
      BY <3>1, <3>2, <3>3, <3>4, <3>5, <3>6 DEF Pick, Goto
  <2>4. ASSUME NEW r \in Request, PickQueueing(r)
        PROVE  TypeOK'
    BY <2>4 DEF PickQueueing, Pick, Goto, Largest, Usable
  <2>5. ASSUME NEW r \in Request, PickNothing(r)
        PROVE  TypeOK'
    BY <2>5 DEF PickNothing, Finish, Goto
  <2>6. ASSUME NEW r \in Request, Connect(r)
        PROVE  TypeOK'
    <3>1. PICK sent \in SUBSET cut[r] :
             wire' = [wire EXCEPT ![at[r]] = @ \cup {Cancel(w) : w \in sent}]
      BY <2>6 DEF Connect
    <3>2. {Cancel(w) : w \in sent} \in SUBSET Message
      BY MessageTypes
    <3>3. wire' \in [Node -> SUBSET Message]
      BY <3>1, <3>2
    <3> QED
      BY <2>6, <3>3 DEF Connect, Goto
  <2>7. ASSUME NEW r \in Request, ConnectFails(r)
        PROVE  TypeOK'
    BY <2>7 DEF ConnectFails, Finish, Goto
  <2>8. ASSUME NEW r \in Request, Commit(r)
        PROVE  TypeOK'
    BY <2>8 DEF Commit, Goto
  <2>9. ASSUME NEW r \in Request, PickWork(r)
        PROVE  TypeOK'
    BY <2>9 DEF PickWork, Pick, Goto, LastLargest, Free, Matching
  <2>10. ASSUME NEW r \in Request, NoWorker(r)
        PROVE  TypeOK'
    BY <2>10 DEF NoWorker, Goto
  <2>11. ASSUME NEW r \in Request, ConnectWork(r)
        PROVE  TypeOK'
    BY <2>11 DEF ConnectWork, Goto
  <2>12. ASSUME NEW r \in Request, CommitWork(r)
        PROVE  TypeOK'
    BY <2>12 DEF CommitWork, Goto
  <2>13. ASSUME NEW r \in Request, Send(r)
        PROVE  TypeOK'
    <3>1. wire' \in [Node -> SUBSET Message]
      BY <2>13, MessageTypes DEF Send
    <3> QED
      BY <2>13, <3>1 DEF Send, Goto
  <2>14. ASSUME NEW r \in Request, SendFails(r)
        PROVE  TypeOK'
    BY <2>14 DEF SendFails, Finish, Goto
  <2>15. ASSUME NEW r \in Request, SendWorkFails(r)
        PROVE  TypeOK'
    BY <2>15 DEF SendWorkFails, Goto
  <2>16. ASSUME NEW r \in Request, Answered(r)
        PROVE  TypeOK'
    BY <2>16 DEF Answered, Finish, Goto
  <2>17. ASSUME NEW r \in Request, TimedOut(r)
        PROVE  TypeOK'
    <3>1. wire' \in [Node -> SUBSET Message]
      BY <2>17, MessageTypes DEF TimedOut, TrySendCancel
    <3> QED
      BY <2>17, <3>1 DEF TimedOut, Finish, Goto
  <2>18. ASSUME NEW r \in Request, StreamEnds(r)
        PROVE  TypeOK'
    BY <2>18 DEF StreamEnds, Finish, Goto
  <2>19. ASSUME NEW r \in Request, WorkPaused(r)
        PROVE  TypeOK'
    <3>1. wire' \in [Node -> SUBSET Message]
      BY <2>19, MessageTypes DEF WorkPaused, TrySendCancel
    <3> QED
      BY <2>19, <3>1 DEF WorkPaused, WorkStops, Goto
  <2>20. ASSUME NEW r \in Request, WorkTimedOut(r)
        PROVE  TypeOK'
    <3>1. wire' \in [Node -> SUBSET Message]
      BY <2>20, MessageTypes DEF WorkTimedOut, TrySendCancel
    <3> QED
      BY <2>20, <3>1 DEF WorkTimedOut, WorkStops, Goto
  <2>21. ASSUME NEW r \in Request, WorkAnswered(r)
        PROVE  TypeOK'
    BY <2>21 DEF WorkAnswered, WorkStops, Goto
  <2>22. ASSUME NEW r \in Request, WorkClosed(r)
        PROVE  TypeOK'
    BY <2>22 DEF WorkClosed, WorkStops, Goto
  <2>23. ASSUME NEW r \in Request, Report(r)
        PROVE  TypeOK'
    BY <2>23 DEF Report, Finish, Goto
  <2>24. ASSUME NEW r \in Request, Abandon(r)
        PROVE  TypeOK'
    BY <2>24 DEF Abandon, Finish, Goto
  <2>25. ASSUME NEW n \in Node, Register(n)
        PROVE  TypeOK'
    BY <2>25 DEF Register
  <2>26. ASSUME NEW n \in Node, Disconnect(n)
        PROVE  TypeOK'
    BY <2>26 DEF Disconnect
  <2>27. ASSUME NEW n \in Node, FailPending(n)
        PROVE  TypeOK'
    BY <2>27 DEF FailPending
  <2>28. ASSUME NEW n \in Node, RestEnds(n)
        PROVE  TypeOK'
    BY <2>28 DEF RestEnds
  <2>29. ASSUME NEW n \in Node, NEW m \in wire[n], Receive(n, m)
        PROVE  TypeOK'
    BY <2>29 DEF Receive, Message
  <2>30. ASSUME NEW n \in Node, NEW r \in machine[n], MachineAnswers(n, r)
        PROVE  TypeOK'
    BY <2>30 DEF MachineAnswers
  <2>31. ASSUME NEW n \in Node, NEW r \in machine[n], ChunkUnwanted(n, r)
        PROVE  TypeOK'
    <3>1. wire' \in [Node -> SUBSET Message]
      BY <2>31, MessageTypes DEF ChunkUnwanted
    <3> QED
      BY <2>31, <3>1 DEF ChunkUnwanted
  <2>32. ASSUME NEW n \in Node, NEW r \in machine[n], ChunkOverflows(n, r)
        PROVE  TypeOK'
    <3>1. wire' \in [Node -> SUBSET Message]
      BY <2>32, MessageTypes DEF ChunkOverflows
    <3> QED
      BY <2>32, <3>1 DEF ChunkOverflows
  <2>33. ASSUME NEW c \in Cand, ModelReady(c)
        PROVE  TypeOK'
    BY <2>33 DEF ModelReady
  <2>34. ASSUME NEW c \in Cand, ModelGone(c)
        PROVE  TypeOK'
    BY <2>34 DEF ModelGone
  <2>35. CASE UNCHANGED vars
    BY <2>35 DEF vars
  <2>36. QED
    BY <2>1, <2>2, <2>3, <2>4, <2>5, <2>6, <2>7, <2>8, <2>9, <2>10,
       <2>11, <2>12, <2>13, <2>14, <2>15, <2>16, <2>17, <2>18, <2>19, <2>20,
       <2>21, <2>22, <2>23, <2>24, <2>25, <2>26, <2>27, <2>28, <2>29, <2>30,
       <2>31, <2>32, <2>33, <2>34, <2>35
    DEF Next, TaskStep, Link, Machine
<1>3. QED
  BY <1>1, <1>2, PTL DEF Spec

(***************************************************************************)
(* The router.  in_flight is only meaningful together with where each task *)
(* is: a task that has not picked yet, or is over, has no machine, and     *)
(* only a task between the two can have been paused.                       *)
(***************************************************************************)
Placed ==
    /\ \A r \in Request : pc[r] \in {"new", "looking", "done"} => at[r] = NoNode
    /\ \A w \in paused : pc[w] \notin {"new", "looking", "done"}

RouterInv ==
    /\ Placed
    /\ InFlightIsTrue
    /\ OneWorkPerMachine
    /\ RestingMachineHasNoWork

(* in_flight agrees with every task (InFlightIsTrue), a machine has one    *)
(* review task at most (OneWorkPerMachine) and none while it rests after a *)
(* home command (RestingMachineHasNoWork), for any number of each.         *)
THEOREM RouterSafe == Spec => []RouterInv
<1> USE NodeAssumption, RequestAssumption, CandAssumption
    DEF Home, Request, PC
<1>1. Init => RouterInv
  BY DEF Init, RouterInv, Placed, InFlightIsTrue, OneWorkPerMachine,
         RestingMachineHasNoWork
<1>2. TypeOK /\ RouterInv /\ [Next]_vars => RouterInv'
  <2> SUFFICES ASSUME TypeOK, RouterInv, [Next]_vars
               PROVE  RouterInv'
    OBVIOUS
  <2> USE DEF TypeOK, RouterInv, Placed, InFlightIsTrue, OneWorkPerMachine,
              RestingMachineHasNoWork, WorkOn, router, local
  <2>1. ASSUME NEW r \in Request, Look(r)
        PROVE  RouterInv'
    BY <2>1 DEF Look, Goto
  <2>2. ASSUME NEW r \in Request, PickIdle(r)
        PROVE  RouterInv'
    <3>1. PICK c \in Cand : Pick(r, c.node)
      BY <2>2 DEF PickIdle, Largest, Idle, Usable
    <3> QED
      BY <2>2, <3>1 DEF PickIdle, Pick, Goto
  <2>3. ASSUME NEW r \in Request, PickPreempting(r)
        PROVE  RouterInv'
    <3>1. PICK c \in Cand : /\ Pick(r, c.node)
                           /\ paused' = paused \cup WorkOn(c.node)
                           /\ resting' = resting \cup {c.node}
                           /\ inFlight' = [q \in Request |->
                                IF q \in WorkOn(c.node) THEN NoNode ELSE inFlight[q]]
      BY <2>3 DEF PickPreempting, Largest, WorkOnly, Usable
    <3>2. r \in Home /\ r \notin Work /\ pc[r] = "looking" /\ c.node \in Node
      BY <2>3, RequestAssumption DEF PickPreempting
    <3>3. Placed'
      BY <3>1, <3>2 DEF Pick, Goto, WorkOn
    <3>4. InFlightIsTrue'
      BY <3>1, <3>2, RequestAssumption DEF Pick, Goto, WorkOn
    <3>5. OneWorkPerMachine'
      BY <3>1, <3>2
    <3>6. RestingMachineHasNoWork'
      BY <3>1, <3>2 DEF WorkOn
    <3> QED
      BY <3>3, <3>4, <3>5, <3>6
  <2>4. ASSUME NEW r \in Request, PickQueueing(r)
        PROVE  RouterInv'
    <3>1. PICK c \in Cand : Pick(r, c.node)
      BY <2>4 DEF PickQueueing, Largest, Usable
    <3> QED
      BY <2>4, <3>1 DEF PickQueueing, Pick, Goto
  <2>5. ASSUME NEW r \in Request, PickNothing(r)
        PROVE  RouterInv'
    BY <2>5 DEF PickNothing, Finish, Goto
  <2>6. ASSUME NEW r \in Request, Connect(r)
        PROVE  RouterInv'
    BY <2>6 DEF Connect, Goto
  <2>7. ASSUME NEW r \in Request, ConnectFails(r)
        PROVE  RouterInv'
    BY <2>7 DEF ConnectFails, Finish, Goto
  <2>8. ASSUME NEW r \in Request, Commit(r)
        PROVE  RouterInv'
    BY <2>8 DEF Commit, Goto
  <2>9. ASSUME NEW r \in Request, PickWork(r)
        PROVE  RouterInv'
    BY <2>9 DEF PickWork, Pick, Goto, LastLargest, Free, Matching, Busy
  <2>10. ASSUME NEW r \in Request, NoWorker(r)
        PROVE  RouterInv'
    BY <2>10 DEF NoWorker, Goto
  <2>11. ASSUME NEW r \in Request, ConnectWork(r)
        PROVE  RouterInv'
    BY <2>11 DEF ConnectWork, Goto
  <2>12. ASSUME NEW r \in Request, CommitWork(r)
        PROVE  RouterInv'
    BY <2>12 DEF CommitWork, Goto
  <2>13. ASSUME NEW r \in Request, Send(r)
        PROVE  RouterInv'
    BY <2>13 DEF Send, Goto
  <2>14. ASSUME NEW r \in Request, SendFails(r)
        PROVE  RouterInv'
    BY <2>14 DEF SendFails, Finish, Goto
  <2>15. ASSUME NEW r \in Request, SendWorkFails(r)
        PROVE  RouterInv'
    BY <2>15 DEF SendWorkFails, Goto
  <2>16. ASSUME NEW r \in Request, Answered(r)
        PROVE  RouterInv'
    BY <2>16 DEF Answered, Finish, Goto
  <2>17. ASSUME NEW r \in Request, TimedOut(r)
        PROVE  RouterInv'
    BY <2>17 DEF TimedOut, Finish, Goto
  <2>18. ASSUME NEW r \in Request, StreamEnds(r)
        PROVE  RouterInv'
    BY <2>18 DEF StreamEnds, Finish, Goto
  <2>19. ASSUME NEW r \in Request, WorkPaused(r)
        PROVE  RouterInv'
    BY <2>19 DEF WorkPaused, WorkStops, Goto
  <2>20. ASSUME NEW r \in Request, WorkTimedOut(r)
        PROVE  RouterInv'
    BY <2>20 DEF WorkTimedOut, WorkStops, Goto
  <2>21. ASSUME NEW r \in Request, WorkAnswered(r)
        PROVE  RouterInv'
    BY <2>21 DEF WorkAnswered, WorkStops, Goto
  <2>22. ASSUME NEW r \in Request, WorkClosed(r)
        PROVE  RouterInv'
    BY <2>22 DEF WorkClosed, WorkStops, Goto
  <2>23. ASSUME NEW r \in Request, Report(r)
        PROVE  RouterInv'
    BY <2>23 DEF Report, Finish, Goto
  <2>24. ASSUME NEW r \in Request, Abandon(r)
        PROVE  RouterInv'
    BY <2>24 DEF Abandon, Finish, Goto
  <2>25. ASSUME NEW n \in Node, Register(n)
        PROVE  RouterInv'
    BY <2>25 DEF Register
  <2>26. ASSUME NEW n \in Node, Disconnect(n)
        PROVE  RouterInv'
    BY <2>26 DEF Disconnect
  <2>27. ASSUME NEW n \in Node, FailPending(n)
        PROVE  RouterInv'
    BY <2>27 DEF FailPending
  <2>28. ASSUME NEW n \in Node, RestEnds(n)
        PROVE  RouterInv'
    BY <2>28 DEF RestEnds
  <2>29. ASSUME NEW n \in Node, NEW m \in wire[n], Receive(n, m)
        PROVE  RouterInv'
    BY <2>29 DEF Receive
  <2>30. ASSUME NEW n \in Node, NEW r \in machine[n], MachineAnswers(n, r)
        PROVE  RouterInv'
    BY <2>30 DEF MachineAnswers
  <2>31. ASSUME NEW n \in Node, NEW r \in machine[n], ChunkUnwanted(n, r)
        PROVE  RouterInv'
    BY <2>31 DEF ChunkUnwanted
  <2>32. ASSUME NEW n \in Node, NEW r \in machine[n], ChunkOverflows(n, r)
        PROVE  RouterInv'
    BY <2>32 DEF ChunkOverflows
  <2>33. ASSUME NEW c \in Cand, ModelReady(c)
        PROVE  RouterInv'
    BY <2>33 DEF ModelReady
  <2>34. ASSUME NEW c \in Cand, ModelGone(c)
        PROVE  RouterInv'
    BY <2>34 DEF ModelGone
  <2>35. CASE UNCHANGED vars
    BY <2>35 DEF vars
  <2>36. QED
    BY <2>1, <2>2, <2>3, <2>4, <2>5, <2>6, <2>7, <2>8, <2>9, <2>10,
       <2>11, <2>12, <2>13, <2>14, <2>15, <2>16, <2>17, <2>18, <2>19, <2>20,
       <2>21, <2>22, <2>23, <2>24, <2>25, <2>26, <2>27, <2>28, <2>29, <2>30,
       <2>31, <2>32, <2>33, <2>34, <2>35
    DEF Next, TaskStep, Link, Machine
<1>3. QED
  BY <1>1, <1>2, Typing, PTL DEF Spec

(* What the router entries say of each task is true.                       *)
THEOREM EntriesTrue == Spec => []InFlightIsTrue
<1>1. RouterInv => InFlightIsTrue
  BY DEF RouterInv
<1>2. QED
  BY <1>1, RouterSafe, PTL

(* No two review tasks are ever recorded on the same machine.              *)
THEOREM OneWork == Spec => []OneWorkPerMachine
<1>1. RouterInv => OneWorkPerMachine
  BY DEF RouterInv
<1>2. QED
  BY <1>1, RouterSafe, PTL

(* A machine that rests after a home command has no review task.           *)
THEOREM RestIsKept == Spec => []RestingMachineHasNoWork
<1>1. RouterInv => RestingMachineHasNoWork
  BY DEF RouterInv
<1>2. QED
  BY <1>1, RouterSafe, PTL

(***************************************************************************)
(* The channels.  A task's entry in pending_inferences or pending_streams  *)
(* is taken out by whoever answers it, so an entry and an answer are never *)
(* there together, and neither is there before the task has put its entry  *)
(* in.                                                                     *)
(***************************************************************************)
Mailbox ==
    /\ \A r \in Request : mail[r] # "none" => pending[r] = NoNode
    /\ \A r \in Request : pc[r] \in {"new", "looking", "picked", "connected"}
                            => pending[r] = NoNode /\ mail[r] = "none"

(* However a review task ends, its pending_streams entry is gone by the    *)
(* time it is reported (NoStreamLeft).                                     *)
THEOREM NoStreamLeak == Spec => []NoStreamLeft
<1> USE NodeAssumption, RequestAssumption
    DEF Home, Request, PC, Mail
<1> DEFINE Inv == Mailbox /\ NoStreamLeft
<1>1. Init => Inv
  BY DEF Init, Mailbox, NoStreamLeft
<1>2. TypeOK /\ Inv /\ [Next]_vars => Inv'
  <2> SUFFICES ASSUME TypeOK, Inv, [Next]_vars
               PROVE  Inv'
    OBVIOUS
  <2> USE DEF TypeOK, Mailbox, NoStreamLeft, tables, local
  <2>1. ASSUME NEW r \in Request, Look(r)
        PROVE  Inv'
    BY <2>1 DEF Look, Goto
  <2>2. ASSUME NEW r \in Request, PickIdle(r)
        PROVE  Inv'
    BY <2>2 DEF PickIdle, Pick, Goto, Largest, Idle, Usable
  <2>3. ASSUME NEW r \in Request, PickPreempting(r)
        PROVE  Inv'
    BY <2>3 DEF PickPreempting, Pick, Goto
  <2>4. ASSUME NEW r \in Request, PickQueueing(r)
        PROVE  Inv'
    BY <2>4 DEF PickQueueing, Pick, Goto, Largest, Usable
  <2>5. ASSUME NEW r \in Request, PickNothing(r)
        PROVE  Inv'
    BY <2>5 DEF PickNothing, Finish, Goto
  <2>6. ASSUME NEW r \in Request, Connect(r)
        PROVE  Inv'
    BY <2>6 DEF Connect, Goto
  <2>7. ASSUME NEW r \in Request, ConnectFails(r)
        PROVE  Inv'
    BY <2>7 DEF ConnectFails, Finish, Goto
  <2>8. ASSUME NEW r \in Request, Commit(r)
        PROVE  Inv'
    BY <2>8 DEF Commit, Goto
  <2>9. ASSUME NEW r \in Request, PickWork(r)
        PROVE  Inv'
    BY <2>9 DEF PickWork, Pick, Goto, LastLargest, Free, Matching, Busy
  <2>10. ASSUME NEW r \in Request, NoWorker(r)
        PROVE  Inv'
    BY <2>10 DEF NoWorker, Goto
  <2>11. ASSUME NEW r \in Request, ConnectWork(r)
        PROVE  Inv'
    BY <2>11 DEF ConnectWork, Goto
  <2>12. ASSUME NEW r \in Request, CommitWork(r)
        PROVE  Inv'
    BY <2>12 DEF CommitWork, Goto
  <2>13. ASSUME NEW r \in Request, Send(r)
        PROVE  Inv'
    BY <2>13 DEF Send, Goto
  <2>14. ASSUME NEW r \in Request, SendFails(r)
        PROVE  Inv'
    BY <2>14 DEF SendFails, Finish, Goto
  <2>15. ASSUME NEW r \in Request, SendWorkFails(r)
        PROVE  Inv'
    BY <2>15 DEF SendWorkFails, Goto
  <2>16. ASSUME NEW r \in Request, Answered(r)
        PROVE  Inv'
    BY <2>16 DEF Answered, Finish, Goto
  <2>17. ASSUME NEW r \in Request, TimedOut(r)
        PROVE  Inv'
    BY <2>17 DEF TimedOut, Finish, Goto
  <2>18. ASSUME NEW r \in Request, StreamEnds(r)
        PROVE  Inv'
    BY <2>18 DEF StreamEnds, Finish, Goto
  <2>19. ASSUME NEW r \in Request, WorkPaused(r)
        PROVE  Inv'
    BY <2>19 DEF WorkPaused, WorkStops, Goto
  <2>20. ASSUME NEW r \in Request, WorkTimedOut(r)
        PROVE  Inv'
    BY <2>20 DEF WorkTimedOut, WorkStops, Goto
  <2>21. ASSUME NEW r \in Request, WorkAnswered(r)
        PROVE  Inv'
    BY <2>21 DEF WorkAnswered, WorkStops, Goto
  <2>22. ASSUME NEW r \in Request, WorkClosed(r)
        PROVE  Inv'
    BY <2>22 DEF WorkClosed, WorkStops, Goto
  <2>23. ASSUME NEW r \in Request, Report(r)
        PROVE  Inv'
    BY <2>23 DEF Report, Finish, Goto
  <2>24. ASSUME NEW r \in Request, Abandon(r)
        PROVE  Inv'
    BY <2>24 DEF Abandon, Finish, Goto
  <2>25. ASSUME NEW n \in Node, Register(n)
        PROVE  Inv'
    BY <2>25 DEF Register
  <2>26. ASSUME NEW n \in Node, Disconnect(n)
        PROVE  Inv'
    BY <2>26 DEF Disconnect
  <2>27. ASSUME NEW n \in Node, FailPending(n)
        PROVE  Inv'
    BY <2>27 DEF FailPending
  <2>28. ASSUME NEW n \in Node, RestEnds(n)
        PROVE  Inv'
    BY <2>28 DEF RestEnds
  <2>29. ASSUME NEW n \in Node, NEW m \in wire[n], Receive(n, m)
        PROVE  Inv'
    BY <2>29 DEF Receive
  <2>30. ASSUME NEW n \in Node, NEW r \in machine[n], MachineAnswers(n, r)
        PROVE  Inv'
    BY <2>30 DEF MachineAnswers
  <2>31. ASSUME NEW n \in Node, NEW r \in machine[n], ChunkUnwanted(n, r)
        PROVE  Inv'
    BY <2>31 DEF ChunkUnwanted
  <2>32. ASSUME NEW n \in Node, NEW r \in machine[n], ChunkOverflows(n, r)
        PROVE  Inv'
    BY <2>32 DEF ChunkOverflows
  <2>33. ASSUME NEW c \in Cand, ModelReady(c)
        PROVE  Inv'
    BY <2>33 DEF ModelReady
  <2>34. ASSUME NEW c \in Cand, ModelGone(c)
        PROVE  Inv'
    BY <2>34 DEF ModelGone
  <2>35. CASE UNCHANGED vars
    BY <2>35 DEF vars
  <2>36. QED
    BY <2>1, <2>2, <2>3, <2>4, <2>5, <2>6, <2>7, <2>8, <2>9, <2>10,
       <2>11, <2>12, <2>13, <2>14, <2>15, <2>16, <2>17, <2>18, <2>19, <2>20,
       <2>21, <2>22, <2>23, <2>24, <2>25, <2>26, <2>27, <2>28, <2>29, <2>30,
       <2>31, <2>32, <2>33, <2>34, <2>35
    DEF Next, TaskStep, Link, Machine
<1>3. QED
  BY <1>1, <1>2, Typing, PTL DEF Spec

(* What an entry in in_flight may suffer: an entry goes when its task ends *)
(* or when a home command pauses it, and then it was review work, its      *)
(* pause is fired and its machine rests.  A home command keeps its entry.  *)
THEOREM EntriesKept == Spec => EntryRemoval
<1> USE NodeAssumption, RequestAssumption, CandAssumption
    DEF Home, Request, PC
<1>1. TypeOK /\ RouterInv /\ [Next]_vars => [KeepsEntries]_vars
  <2> SUFFICES ASSUME TypeOK, RouterInv, [Next]_vars
               PROVE  KeepsEntries
    BY DEF KeepsEntries, vars
  <2> USE DEF KeepsEntries, TypeOK, RouterInv, Placed, InFlightIsTrue, WorkOn, router, local
  <2>1. ASSUME NEW r \in Request, Look(r)
        PROVE  KeepsEntries
    BY <2>1 DEF Look, Goto
  <2>2. ASSUME NEW r \in Request, PickIdle(r)
        PROVE  KeepsEntries
    <3>1. PICK c \in Cand : Pick(r, c.node)
      BY <2>2 DEF PickIdle, Largest, Idle, Usable
    <3> QED
      BY <2>2, <3>1 DEF PickIdle, Pick, Goto
  <2>3. ASSUME NEW r \in Request, PickPreempting(r)
        PROVE  KeepsEntries
    <3>1. PICK c \in Cand : /\ paused' = paused \cup WorkOn(c.node)
                           /\ resting' = resting \cup {c.node}
                           /\ inFlight' = [q \in Request |->
                                IF q \in WorkOn(c.node) THEN NoNode ELSE inFlight[q]]
      BY <2>3 DEF PickPreempting, Largest, WorkOnly, Usable
    <3> QED
      BY <3>1
  <2>4. ASSUME NEW r \in Request, PickQueueing(r)
        PROVE  KeepsEntries
    <3>1. PICK c \in Cand : Pick(r, c.node)
      BY <2>4 DEF PickQueueing, Largest, Usable
    <3> QED
      BY <2>4, <3>1 DEF PickQueueing, Pick, Goto
  <2>5. ASSUME NEW r \in Request, PickNothing(r)
        PROVE  KeepsEntries
    BY <2>5 DEF PickNothing, Finish, Goto
  <2>6. ASSUME NEW r \in Request, Connect(r)
        PROVE  KeepsEntries
    BY <2>6 DEF Connect, Goto
  <2>7. ASSUME NEW r \in Request, ConnectFails(r)
        PROVE  KeepsEntries
    BY <2>7 DEF ConnectFails, Finish, Goto
  <2>8. ASSUME NEW r \in Request, Commit(r)
        PROVE  KeepsEntries
    BY <2>8 DEF Commit, Goto
  <2>9. ASSUME NEW r \in Request, PickWork(r)
        PROVE  KeepsEntries
    BY <2>9 DEF PickWork, Pick, Goto, LastLargest, Free, Matching, Busy
  <2>10. ASSUME NEW r \in Request, NoWorker(r)
        PROVE  KeepsEntries
    BY <2>10 DEF NoWorker, Goto
  <2>11. ASSUME NEW r \in Request, ConnectWork(r)
        PROVE  KeepsEntries
    BY <2>11 DEF ConnectWork, Goto
  <2>12. ASSUME NEW r \in Request, CommitWork(r)
        PROVE  KeepsEntries
    BY <2>12 DEF CommitWork, Goto
  <2>13. ASSUME NEW r \in Request, Send(r)
        PROVE  KeepsEntries
    BY <2>13 DEF Send, Goto
  <2>14. ASSUME NEW r \in Request, SendFails(r)
        PROVE  KeepsEntries
    BY <2>14 DEF SendFails, Finish, Goto
  <2>15. ASSUME NEW r \in Request, SendWorkFails(r)
        PROVE  KeepsEntries
    BY <2>15 DEF SendWorkFails, Goto
  <2>16. ASSUME NEW r \in Request, Answered(r)
        PROVE  KeepsEntries
    BY <2>16 DEF Answered, Finish, Goto
  <2>17. ASSUME NEW r \in Request, TimedOut(r)
        PROVE  KeepsEntries
    BY <2>17 DEF TimedOut, Finish, Goto
  <2>18. ASSUME NEW r \in Request, StreamEnds(r)
        PROVE  KeepsEntries
    BY <2>18 DEF StreamEnds, Finish, Goto
  <2>19. ASSUME NEW r \in Request, WorkPaused(r)
        PROVE  KeepsEntries
    BY <2>19 DEF WorkPaused, WorkStops, Goto
  <2>20. ASSUME NEW r \in Request, WorkTimedOut(r)
        PROVE  KeepsEntries
    BY <2>20 DEF WorkTimedOut, WorkStops, Goto
  <2>21. ASSUME NEW r \in Request, WorkAnswered(r)
        PROVE  KeepsEntries
    BY <2>21 DEF WorkAnswered, WorkStops, Goto
  <2>22. ASSUME NEW r \in Request, WorkClosed(r)
        PROVE  KeepsEntries
    BY <2>22 DEF WorkClosed, WorkStops, Goto
  <2>23. ASSUME NEW r \in Request, Report(r)
        PROVE  KeepsEntries
    BY <2>23 DEF Report, Finish, Goto
  <2>24. ASSUME NEW r \in Request, Abandon(r)
        PROVE  KeepsEntries
    BY <2>24 DEF Abandon, Finish, Goto
  <2>25. ASSUME NEW n \in Node, Register(n)
        PROVE  KeepsEntries
    BY <2>25 DEF Register
  <2>26. ASSUME NEW n \in Node, Disconnect(n)
        PROVE  KeepsEntries
    BY <2>26 DEF Disconnect
  <2>27. ASSUME NEW n \in Node, FailPending(n)
        PROVE  KeepsEntries
    BY <2>27 DEF FailPending
  <2>28. ASSUME NEW n \in Node, RestEnds(n)
        PROVE  KeepsEntries
    BY <2>28 DEF RestEnds
  <2>29. ASSUME NEW n \in Node, NEW m \in wire[n], Receive(n, m)
        PROVE  KeepsEntries
    BY <2>29 DEF Receive
  <2>30. ASSUME NEW n \in Node, NEW r \in machine[n], MachineAnswers(n, r)
        PROVE  KeepsEntries
    BY <2>30 DEF MachineAnswers
  <2>31. ASSUME NEW n \in Node, NEW r \in machine[n], ChunkUnwanted(n, r)
        PROVE  KeepsEntries
    BY <2>31 DEF ChunkUnwanted
  <2>32. ASSUME NEW n \in Node, NEW r \in machine[n], ChunkOverflows(n, r)
        PROVE  KeepsEntries
    BY <2>32 DEF ChunkOverflows
  <2>33. ASSUME NEW c \in Cand, ModelReady(c)
        PROVE  KeepsEntries
    BY <2>33 DEF ModelReady
  <2>34. ASSUME NEW c \in Cand, ModelGone(c)
        PROVE  KeepsEntries
    BY <2>34 DEF ModelGone
  <2>35. CASE UNCHANGED vars
    BY <2>35 DEF vars
  <2>36. QED
    BY <2>1, <2>2, <2>3, <2>4, <2>5, <2>6, <2>7, <2>8, <2>9, <2>10,
       <2>11, <2>12, <2>13, <2>14, <2>15, <2>16, <2>17, <2>18, <2>19, <2>20,
       <2>21, <2>22, <2>23, <2>24, <2>25, <2>26, <2>27, <2>28, <2>29, <2>30,
       <2>31, <2>32, <2>33, <2>34, <2>35
    DEF Next, TaskStep, Link, Machine
<1>2. QED
  BY <1>1, Typing, RouterSafe, PTL DEF Spec, EntryRemoval

(* "Work requests only ever go to a machine that is idle", as far as it    *)
(* holds: with no streamed request about, a review task never picks a      *)
(* machine that has been sent a home command still being answered.  (A     *)
(* streamed request is not counted as busy: docs/code-review.md, limits.)  *)
THEOREM WorkGoesToIdleMachineWithoutStreams ==
  ASSUME Stream = {}
  PROVE  Spec => WorkGoesToIdleMachine
<1> USE NodeAssumption, RequestAssumption, CandAssumption
    DEF Home, Request, PC
<1> DEFINE Idled == \A w \in Work, h \in Home :
              pc[w] = "looking" /\ pc'[w] = "picked" /\ pc[h] = "waiting"
                => at'[w] # at[h]
<1>1. TypeOK /\ RouterInv /\ [Next]_vars => [Idled]_vars
  <2> SUFFICES ASSUME TypeOK, RouterInv, [Next]_vars
               PROVE  Idled
    OBVIOUS
  <2> USE DEF TypeOK, RouterInv, InFlightIsTrue, router, local
  <2>1. ASSUME NEW r \in Request, Look(r)
        PROVE  Idled
    BY <2>1 DEF Look, Goto
  <2>2. ASSUME NEW r \in Request, PickIdle(r)
        PROVE  Idled
    BY <2>2 DEF PickIdle, Pick, Goto
  <2>3. ASSUME NEW r \in Request, PickPreempting(r)
        PROVE  Idled
    BY <2>3 DEF PickPreempting, Pick, Goto
  <2>4. ASSUME NEW r \in Request, PickQueueing(r)
        PROVE  Idled
    BY <2>4 DEF PickQueueing, Pick, Goto
  <2>5. ASSUME NEW r \in Request, PickNothing(r)
        PROVE  Idled
    BY <2>5 DEF PickNothing, Finish, Goto
  <2>6. ASSUME NEW r \in Request, Connect(r)
        PROVE  Idled
    BY <2>6 DEF Connect, Goto
  <2>7. ASSUME NEW r \in Request, ConnectFails(r)
        PROVE  Idled
    BY <2>7 DEF ConnectFails, Finish, Goto
  <2>8. ASSUME NEW r \in Request, Commit(r)
        PROVE  Idled
    BY <2>8 DEF Commit, Goto
  <2>9. ASSUME NEW r \in Request, PickWork(r)
        PROVE  Idled
    <3>1. PICK c \in Cand : Pick(r, c.node) /\ ~Busy(c.node)
      BY <2>9 DEF PickWork, LastLargest, Free, Matching
    <3>2. ASSUME NEW h \in Home, pc[h] = "waiting"
          PROVE  at[h] # c.node
      BY <3>1, <3>2 DEF Busy
    <3> QED
      BY <3>1, <3>2 DEF Pick, Goto
  <2>10. ASSUME NEW r \in Request, NoWorker(r)
        PROVE  Idled
    BY <2>10 DEF NoWorker, Goto
  <2>11. ASSUME NEW r \in Request, ConnectWork(r)
        PROVE  Idled
    BY <2>11 DEF ConnectWork, Goto
  <2>12. ASSUME NEW r \in Request, CommitWork(r)
        PROVE  Idled
    BY <2>12 DEF CommitWork, Goto
  <2>13. ASSUME NEW r \in Request, Send(r)
        PROVE  Idled
    BY <2>13 DEF Send, Goto
  <2>14. ASSUME NEW r \in Request, SendFails(r)
        PROVE  Idled
    BY <2>14 DEF SendFails, Finish, Goto
  <2>15. ASSUME NEW r \in Request, SendWorkFails(r)
        PROVE  Idled
    BY <2>15 DEF SendWorkFails, Goto
  <2>16. ASSUME NEW r \in Request, Answered(r)
        PROVE  Idled
    BY <2>16 DEF Answered, Finish, Goto
  <2>17. ASSUME NEW r \in Request, TimedOut(r)
        PROVE  Idled
    BY <2>17 DEF TimedOut, Finish, Goto
  <2>18. ASSUME NEW r \in Request, StreamEnds(r)
        PROVE  Idled
    BY <2>18 DEF StreamEnds, Finish, Goto
  <2>19. ASSUME NEW r \in Request, WorkPaused(r)
        PROVE  Idled
    BY <2>19 DEF WorkPaused, WorkStops, Goto
  <2>20. ASSUME NEW r \in Request, WorkTimedOut(r)
        PROVE  Idled
    BY <2>20 DEF WorkTimedOut, WorkStops, Goto
  <2>21. ASSUME NEW r \in Request, WorkAnswered(r)
        PROVE  Idled
    BY <2>21 DEF WorkAnswered, WorkStops, Goto
  <2>22. ASSUME NEW r \in Request, WorkClosed(r)
        PROVE  Idled
    BY <2>22 DEF WorkClosed, WorkStops, Goto
  <2>23. ASSUME NEW r \in Request, Report(r)
        PROVE  Idled
    BY <2>23 DEF Report, Finish, Goto
  <2>24. ASSUME NEW r \in Request, Abandon(r)
        PROVE  Idled
    BY <2>24 DEF Abandon, Finish, Goto
  <2>25. ASSUME NEW n \in Node, Register(n)
        PROVE  Idled
    BY <2>25 DEF Register
  <2>26. ASSUME NEW n \in Node, Disconnect(n)
        PROVE  Idled
    BY <2>26 DEF Disconnect
  <2>27. ASSUME NEW n \in Node, FailPending(n)
        PROVE  Idled
    BY <2>27 DEF FailPending
  <2>28. ASSUME NEW n \in Node, RestEnds(n)
        PROVE  Idled
    BY <2>28 DEF RestEnds
  <2>29. ASSUME NEW n \in Node, NEW m \in wire[n], Receive(n, m)
        PROVE  Idled
    BY <2>29 DEF Receive
  <2>30. ASSUME NEW n \in Node, NEW r \in machine[n], MachineAnswers(n, r)
        PROVE  Idled
    BY <2>30 DEF MachineAnswers
  <2>31. ASSUME NEW n \in Node, NEW r \in machine[n], ChunkUnwanted(n, r)
        PROVE  Idled
    BY <2>31 DEF ChunkUnwanted
  <2>32. ASSUME NEW n \in Node, NEW r \in machine[n], ChunkOverflows(n, r)
        PROVE  Idled
    BY <2>32 DEF ChunkOverflows
  <2>33. ASSUME NEW c \in Cand, ModelReady(c)
        PROVE  Idled
    BY <2>33 DEF ModelReady
  <2>34. ASSUME NEW c \in Cand, ModelGone(c)
        PROVE  Idled
    BY <2>34 DEF ModelGone
  <2>35. CASE UNCHANGED vars
    BY <2>35 DEF vars
  <2>36. QED
    BY <2>1, <2>2, <2>3, <2>4, <2>5, <2>6, <2>7, <2>8, <2>9, <2>10,
       <2>11, <2>12, <2>13, <2>14, <2>15, <2>16, <2>17, <2>18, <2>19, <2>20,
       <2>21, <2>22, <2>23, <2>24, <2>25, <2>26, <2>27, <2>28, <2>29, <2>30,
       <2>31, <2>32, <2>33, <2>34, <2>35
    DEF Next, TaskStep, Link, Machine
<1>2. QED
  BY <1>1, Typing, RouterSafe, PTL DEF Spec, WorkGoesToIdleMachine

-----------------------------------------------------------------------------
(* WorkRouter implements WorkClaims: what its clients may count on.         *)

(* The mapped holders change only with a work request's entry.             *)
LEMMA HoldersKept ==
  ASSUME \A w \in Work : inFlight'[w] = inFlight[w]
  PROVE  [n \in Node |-> WorkOn(n)]' = [n \in Node |-> WorkOn(n)]
  BY DEF WorkOn

(* Every step of a task, a connection handler or a machine is a step of    *)
(* the claims under the mapping, or leaves them alone.                     *)
LEMMA ClaimStep ==
  ASSUME TypeOK, RouterInv, [Next]_vars
  PROVE  [Claims!Next]_(Claims!claims)
<1> USE NodeAssumption, RequestAssumption, CandAssumption
    DEF Home, Request, PC
<1> DEFINE Hold == [n \in Node |-> WorkOn(n)]
           Kept == (\A w \in Work : inFlight'[w] = inFlight[w]) /\ resting' = resting
<1>1. Kept => [Claims!Next]_(Claims!claims)
  BY HoldersKept DEF Claims!claims
<1> USE DEF TypeOK, router, local, tables
<1>2. ASSUME NEW r \in Request, PickPreempting(r)
      PROVE  [Claims!Next]_(Claims!claims)
  <2>1. PICK c \in Cand :
           /\ resting' = resting \cup {c.node}
           /\ inFlight' = [q \in Request |->
                             IF q \in WorkOn(c.node) THEN NoNode ELSE inFlight[q]]
    BY <1>2 DEF PickPreempting, Largest, WorkOnly, Usable
  <2>2. c.node \in Node
    OBVIOUS
  <2>3. Hold' = [Hold EXCEPT ![c.node] = {}]
    <3>1. \A n \in Node : WorkOn(n)' = IF n = c.node THEN {} ELSE WorkOn(n)
      BY <2>1, <2>2 DEF WorkOn
    <3> QED
      BY <3>1, Zenon
  <2>4. Claims!PushAside(c.node)
    BY <2>1, <2>3 DEF Claims!PushAside
  <2> QED
    BY <2>2, <2>4 DEF Claims!Next
<1>3. ASSUME NEW w \in Request, PickWork(w)
      PROVE  [Claims!Next]_(Claims!claims)
  <2>1. PICK c \in Cand : /\ ~Busy(c.node) /\ c.node \notin resting
                          /\ inFlight' = [inFlight EXCEPT ![w] = c.node]
    BY <1>3 DEF PickWork, LastLargest, Free, Matching
  <2>2. c.node \in Node /\ w \in Work /\ resting' = resting
    BY <1>3 DEF PickWork
  <2>3. inFlight[w] = NoNode
    BY <1>3 DEF PickWork, RouterInv, InFlightIsTrue
  <2>4. WorkOn(c.node) = {}
    BY <2>1 DEF Busy, WorkOn
  <2>5. Hold' = [Hold EXCEPT ![c.node] = {w}]
    <3>1. \A n \in Node : WorkOn(n)' = IF n = c.node THEN {w} ELSE WorkOn(n)
      BY <2>1, <2>2, <2>3, <2>4 DEF WorkOn
    <3> QED
      BY <3>1, Zenon
  <2>6. Claims!Claim(w, c.node)
    BY <2>1, <2>2, <2>4, <2>5 DEF Claims!Claim
  <2> QED
    BY <2>2, <2>6 DEF Claims!Next
<1>4. ASSUME NEW w \in Request, Report(w)
      PROVE  [Claims!Next]_(Claims!claims)
  <2>1. w \in Work /\ resting' = resting /\ inFlight' = [inFlight EXCEPT ![w] = NoNode]
    BY <1>4 DEF Report, Finish
  <2>2. CASE inFlight[w] = NoNode
    BY <1>1, <2>1, <2>2
  <2>3. CASE inFlight[w] # NoNode
    <3>1. inFlight[w] \in Node
      BY <2>1, <2>3
    <3>2. WorkOn(inFlight[w]) = {w}
      BY <2>1, <2>3 DEF RouterInv, OneWorkPerMachine, WorkOn
    <3>3. Hold' = [Hold EXCEPT ![inFlight[w]] = {}]
      <4>1. \A n \in Node : WorkOn(n)' = IF n = inFlight[w] THEN {} ELSE WorkOn(n)
        BY <2>1, <3>1, <3>2 DEF WorkOn
      <4> QED
        BY <4>1, Zenon
    <3>4. Claims!Release(inFlight[w])
      BY <2>1, <3>1, <3>2, <3>3 DEF Claims!Release
    <3> QED
      BY <3>1, <3>4 DEF Claims!Next
  <2> QED
    BY <2>2, <2>3
<1>5. ASSUME NEW n \in Node, RestEnds(n)
      PROVE  [Claims!Next]_(Claims!claims)
  <2>1. resting' = resting \ {n} /\ inFlight' = inFlight
    BY <1>5 DEF RestEnds
  <2>2. Claims!RestOver(n)
    BY <2>1, HoldersKept DEF Claims!RestOver
  <2> QED
    BY <2>2 DEF Claims!Next
<1>6. ASSUME NEW r \in Request, Look(r)
      PROVE  Kept
  BY <1>6 DEF Look
<1>7. ASSUME NEW r \in Request, PickIdle(r)
      PROVE  Kept
  BY <1>7 DEF PickIdle
<1>8. ASSUME NEW r \in Request, PickQueueing(r)
      PROVE  Kept
  BY <1>8 DEF PickQueueing
<1>9. ASSUME NEW r \in Request, PickNothing(r)
      PROVE  Kept
  BY <1>9 DEF PickNothing, Finish
<1>10. ASSUME NEW r \in Request, Connect(r)
      PROVE  Kept
  BY <1>10 DEF Connect
<1>11. ASSUME NEW r \in Request, ConnectFails(r)
      PROVE  Kept
  BY <1>11 DEF ConnectFails, Finish
<1>12. ASSUME NEW r \in Request, Commit(r)
      PROVE  Kept
  BY <1>12 DEF Commit
<1>13. ASSUME NEW r \in Request, NoWorker(r)
      PROVE  Kept
  BY <1>13 DEF NoWorker
<1>14. ASSUME NEW r \in Request, ConnectWork(r)
      PROVE  Kept
  BY <1>14 DEF ConnectWork
<1>15. ASSUME NEW r \in Request, CommitWork(r)
      PROVE  Kept
  BY <1>15 DEF CommitWork
<1>16. ASSUME NEW r \in Request, Send(r)
      PROVE  Kept
  BY <1>16 DEF Send
<1>17. ASSUME NEW r \in Request, SendFails(r)
      PROVE  Kept
  BY <1>17 DEF SendFails, Finish
<1>18. ASSUME NEW r \in Request, SendWorkFails(r)
      PROVE  Kept
  BY <1>18 DEF SendWorkFails
<1>19. ASSUME NEW r \in Request, Answered(r)
      PROVE  Kept
  BY <1>19 DEF Answered, Finish
<1>20. ASSUME NEW r \in Request, TimedOut(r)
      PROVE  Kept
  BY <1>20 DEF TimedOut, Finish
<1>21. ASSUME NEW r \in Request, StreamEnds(r)
      PROVE  Kept
  BY <1>21 DEF StreamEnds, Finish
<1>22. ASSUME NEW r \in Request, WorkPaused(r)
      PROVE  Kept
  BY <1>22 DEF WorkPaused, WorkStops
<1>23. ASSUME NEW r \in Request, WorkTimedOut(r)
      PROVE  Kept
  BY <1>23 DEF WorkTimedOut, WorkStops
<1>24. ASSUME NEW r \in Request, WorkAnswered(r)
      PROVE  Kept
  BY <1>24 DEF WorkAnswered, WorkStops
<1>25. ASSUME NEW r \in Request, WorkClosed(r)
      PROVE  Kept
  BY <1>25 DEF WorkClosed, WorkStops
<1>26. ASSUME NEW r \in Request, Abandon(r)
      PROVE  Kept
  BY <1>26 DEF Abandon, Finish
<1>27. ASSUME NEW n \in Node, Register(n)
      PROVE  Kept
  BY <1>27 DEF Register
<1>28. ASSUME NEW n \in Node, Disconnect(n)
      PROVE  Kept
  BY <1>28 DEF Disconnect
<1>29. ASSUME NEW n \in Node, FailPending(n)
      PROVE  Kept
  BY <1>29 DEF FailPending
<1>30. ASSUME NEW n \in Node, NEW m \in wire[n], Receive(n, m)
      PROVE  Kept
  BY <1>30 DEF Receive
<1>31. ASSUME NEW n \in Node, NEW r \in machine[n], MachineAnswers(n, r)
      PROVE  Kept
  BY <1>31 DEF MachineAnswers
<1>32. ASSUME NEW n \in Node, NEW r \in machine[n], ChunkUnwanted(n, r)
      PROVE  Kept
  BY <1>32 DEF ChunkUnwanted
<1>33. ASSUME NEW n \in Node, NEW r \in machine[n], ChunkOverflows(n, r)
      PROVE  Kept
  BY <1>33 DEF ChunkOverflows
<1>34. ASSUME NEW c \in Cand, ModelReady(c)
      PROVE  Kept
  BY <1>34 DEF ModelReady
<1>35. ASSUME NEW c \in Cand, ModelGone(c)
      PROVE  Kept
  BY <1>35 DEF ModelGone
<1>36. CASE UNCHANGED vars
  BY <1>1, <1>36 DEF vars
<1> QED
  BY <1>1, <1>2, <1>3, <1>4, <1>5, <1>6, <1>7, <1>8, <1>9, <1>10, <1>11,
     <1>12, <1>13, <1>14, <1>15, <1>16, <1>17, <1>18, <1>19, <1>20, <1>21,
     <1>22, <1>23, <1>24, <1>25, <1>26, <1>27, <1>28, <1>29, <1>30, <1>31,
     <1>32, <1>33, <1>34, <1>35, <1>36
  DEF Next, TaskStep, Link, Machine

(* Whatever the tasks, the connections and the machines do, the router is  *)
(* an implementation of WorkClaims.                                        *)
THEOREM RouterImplementsClaims == Spec => ImplementsClaims
<1>1. Init => Claims!Init
  <2> SUFFICES ASSUME Init
               PROVE  Claims!Init
    OBVIOUS
  <2>1. \A n \in Node : WorkOn(n) = {}
    BY NodeAssumption DEF Init, WorkOn, Request
  <2> QED
    BY <2>1 DEF Init, Claims!Init
<1>2. QED
  BY <1>1, ClaimStep, Typing, RouterSafe, PTL DEF Spec, ImplementsClaims, Claims!Spec
=============================================================================
