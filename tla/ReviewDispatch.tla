--------------------------- MODULE ReviewDispatch ---------------------------
(***************************************************************************)
(* How one review run hands out its tasks (capabilities/review/src/run.rs, *)
(* dispatch_all), over the link to the coordinator (lib.rs, Link), beside  *)
(* the questions that are answered ahead of it (lib.rs asker, ask.rs).     *)
(*                                                                         *)
(* The coordinator is what WorkRouter promises of it: a machine does one   *)
(* work request at a time, a request for one that is taken or gone is      *)
(* refused, a home command pushes work aside, and the answer goes to the   *)
(* connection the request came in on.                                      *)
(***************************************************************************)
EXTENDS TaskAssign, SequencesExt

CONSTANTS
    NChunk,      \* most chunks of the change under review
    NOpinion,    \* most reviews of the diff by cloud providers: up to two
    Rotation,    \* the order in which each of them tries the providers
    NFinding,    \* findings there are to raise
    Tokens,      \* the prompt size of each task
    MaxPaused,   \* MAX_ATTEMPTS_PAUSED
    MaxFailed,   \* MAX_ATTEMPTS_FAILED
    MaxPauses,   \* ask.rs MAX_PAUSES
    MaxFailures, \* ask.rs MAX_FAILURES
    MaxConn,     \* bound: connections of mac1 to the coordinator
    MaxHome,     \* bound: home commands
    MaxGone,     \* bound: machines dropping out
    MaxTimeout,  \* bound: calls that get no answer within TASK_TIMEOUT
    MaxQuestion  \* bound: questions asked

Chunks   == {"chunk"} \X (1..NChunk)
Opinions == {"opinion"} \X (1..NOpinion)
Checks   == {"check"} \X (1..NFinding)
Task     == Chunks \cup Opinions \cup Checks
Question == <<"question", 0>>
Caller   == Task \cup {Question}
Provider == UNION {ToSet(Rotation[k]) : k \in 1..NOpinion}
Node     == Machine \cup Provider
NoNode   == 0

ASSUME RunAssumption ==
    /\ NChunk \in Nat \ {0} /\ NOpinion \in 0..2 /\ NFinding \in Nat
    /\ Rotation \in [1..NOpinion -> Seq(Nat)]
    /\ Tokens \in [Chunks \cup Checks -> Nat]
    /\ MaxPaused \in Nat \ {0} /\ MaxFailed \in Nat \ {0}
    /\ MaxPauses \in Nat /\ MaxFailures \in Nat
    /\ NoNode \notin Node /\ Provider \cap Machine = {}
    /\ \A m \in Machine : ModelOf[m] # NoNode
    /\ MaxConn \in Nat \ {0} /\ MaxHome \in Nat /\ MaxGone \in Nat
    /\ MaxTimeout \in Nat /\ MaxQuestion \in Nat

VARIABLES
    loop,      \* where dispatch_all is
    had,       \* mesh tasks were pending at the top of this round
    quiet,     \* last_progress is longer ago than the stall limit
    tstate,    \* Task.state; "none" when there is no such task
    attempts,  \* Task.attempts
    queue,     \* CloudPlan.queue of each opinion
    used,      \* cloud_used
    checks,    \* the findings raised, in order: each got a check
    raiser,    \* the model that raised each finding first
    at,        \* the node that has, or did, each caller's request
    call,      \* where infer() of each caller is, and how it ended
    work,      \* requests at the coordinator
    listed,    \* machines with a ready work model in the registry
    home,      \* machines serving, or resting after, a home command
    conn, up,  \* mac1's newest connection; it is open
    tx,        \* the connection of Inner.tx
    starting,  \* start() of the newest connection: what it does next
    asker,     \* the question being answered
    waiting,   \* questions_waiting
    tally      \* how often each bounded event happened

plan  == <<queue, used, raiser, checks>>
run   == <<loop, had, quiet, tstate, attempts, plan>>
mesh  == <<listed, home>>
link  == <<conn, up, tx, starting>>
asks  == <<asker, waiting>>
vars  == <<run, at, call, work, mesh, link, asks, tally>>

Calling  == {"spawned", "registered", "drained", "sent"}
Outcome  == {"finished", "failed", "preempted", "noworker"}
Request  == [from : Caller, node : Node, conn : 1..MaxConn,
             accepted : BOOLEAN, awaited : BOOLEAN]
Thinking == [step : {"idle", "thinking", "asking"}, pauses : 0..MaxPauses,
             failures : 0..MaxFailures]
Idle     == [step |-> "idle", pauses |-> 0, failures |-> 0]

TypeOK ==
    /\ loop \in {"top", "snapshot", "wait", "done", "failed"}
    /\ had \in BOOLEAN /\ quiet \in BOOLEAN
    /\ tstate \in [Task -> {"none", "pending", "running", "done", "gaveup"}]
    /\ attempts \in [Task -> 0..(MaxPaused + MaxFailed)]
    /\ queue \in [Opinions -> Seq(Provider)]
    /\ used \subseteq Provider
    /\ checks \in Seq(1..NFinding)
    /\ raiser \in [1..NFinding -> Nat]
    /\ at \in [Caller -> Node \cup {NoNode}]
    /\ call \in [Caller -> {"none"} \cup Calling \cup Outcome]
    /\ \A t \in Task : tstate[t] = "running" <=> call[t] # "none"
    /\ \A f \in 1..NFinding : tstate[<<"check", f>>] # "none" <=> f \in ToSet(checks)
    /\ work \subseteq Request
    /\ listed \subseteq Machine /\ home \subseteq Machine
    /\ conn \in 1..MaxConn /\ up \in BOOLEAN /\ tx \in 1..MaxConn
    /\ starting \in {"no", "tx", "drain"}
    /\ asker \in Thinking
    /\ waiting \in 0..MaxQuestion
    /\ tally \in [home : 0..MaxHome, gone : 0..MaxGone,
                  timeout : 0..MaxTimeout, asked : 0..MaxQuestion]

Init ==
    /\ loop = "top" /\ had = FALSE /\ quiet = FALSE
    /\ \E n \in 1..NChunk, k \in 0..NOpinion :
         tstate = [t \in Task |-> IF t \in {"chunk"} \X (1..n) \cup {"opinion"} \X (1..k)
                                 THEN "pending" ELSE "none"]
    /\ attempts = [t \in Task |-> 0]
    /\ queue = [t \in Opinions |-> Rotation[t[2]]]
    /\ used = {} /\ checks = <<>>
    /\ raiser = [f \in 1..NFinding |-> NoNode]
    /\ at = [c \in Caller |-> NoNode]
    /\ call = [c \in Caller |-> "none"]
    /\ work = {}
    /\ listed = Machine /\ home = {}
    /\ conn = 1 /\ up = TRUE /\ tx = 1 /\ starting = "no"
    /\ asker = Idle /\ waiting = 0
    /\ tally = [home |-> 0, gone |-> 0, timeout |-> 0, asked |-> 0]

(***************************************************************************)
(* dispatch_all                                                            *)
(***************************************************************************)
Pending == {t \in Task : tstate[t] = "pending"}
Running == {t \in Task : tstate[t] = "running"}
Ended   == loop \in {"done", "failed"}

(* The machines the coordinator knows to be at work, and the link is live. *)
Claimed  == {w.node : w \in {x \in work : x.accepted}}
Live     == up /\ tx = conn
Free     == IF Live THEN listed \ (Claimed \cup home) ELSE {}
Known    == IF Live THEN listed ELSE {}

(* SelectSeq for a set: those of the elements of s that are in T.          *)
Those(s, T) ==
    LET kept[n \in 0..Len(s)] ==
            IF n = 0 THEN <<>>
            ELSE IF s[n] \in T THEN Append(kept[n - 1], s[n]) ELSE kept[n - 1]
    IN kept[Len(s)]

(* TaskNeed of every pending mesh task, in the order of st.tasks.          *)
Need(t) ==
    [id |-> t, kind |-> IF t \in Checks THEN "check" ELSE "review", tokens |-> Tokens[t],
     avoid |-> IF t \in Checks THEN raiser[t[2]] ELSE NoNode,
     large |-> t \in Checks /\ raiser[t[2]] \in Provider]
MeshTasks ==
    [n \in 1..NChunk |-> <<"chunk", n>>] \o [i \in 1..Len(checks) |-> <<"check", checks[i]>>]
Needs ==
    LET waits == Those(MeshTasks, Pending)
    IN [i \in 1..Len(waits) |-> Need(waits[i])]

    \* mutant of Turn: the second opinion may go to the first one's provider
TurnAgain(t, gone) == {queue[t][i] : i \in {1} \cap DOMAIN queue[t]}

(* The first provider in the queue of opinion t that no review has gone    *)
(* to, as a set: empty when it has run out of them.                        *)
Turn(t, gone) ==
    {queue[t][i] : i \in {j \in DOMAIN queue[t] :
        queue[t][j] \notin gone /\ \A h \in 1..(j - 1) : queue[t][h] \in gone}}

(* The pending opinions, each with the provider it goes to, in turn.       *)
Sent ==
    LET pairs[k \in 0..NOpinion] ==
            IF k = 0 THEN {}
            ELSE LET t == <<"opinion", k>>
                     gone == used \cup {p[2] : p \in pairs[k - 1]}
                 IN pairs[k - 1] \cup
                    {<<t, p>> : p \in IF t \in Pending THEN Turn(t, gone) ELSE {}}
    IN pairs[NOpinion]

HandOut(pairs) ==
    LET To(t)  == CHOOSE n \in Node : <<t, n>> \in pairs
        picked == {p[1] : p \in pairs}
    IN /\ at' = [c \in Caller |-> IF c \in picked THEN To(c) ELSE at[c]]
       /\ call' = [c \in Caller |-> IF c \in picked THEN "spawned" ELSE call[c]]

    \* mutant of NothingLeft: opinions that wait for another provider are forgotten
NothingLeftOnMesh == (Pending \cup Running) \ (Opinions \cap Pending) = {}

NothingLeft == Pending = {} /\ Running = {}

    \* mutant of Progressed: looking for machines counts as progress
ProgressedAnyway(pairs) == TRUE

(* Whether a hand-out restarts the clock of the stall limit.               *)
Progressed(pairs) == pairs # {}

(* The top of the loop: the end, or the cloud reviews go out; a question   *)
(* that waits keeps everything else back.                                  *)
Finish ==
    /\ loop = "top" /\ NothingLeft
    /\ loop' = IF \A t \in Chunks : tstate[t] \in {"none", "gaveup"} THEN "failed" ELSE "done"
    /\ UNCHANGED <<had, quiet, tstate, attempts, plan, at, call, work, mesh, link, asks, tally>>

Round ==
    LET to == Sent
        go == {p[1] : p \in to}
    IN /\ loop = "top" /\ ~NothingLeft
       /\ HandOut(to)
       /\ used' = used \cup {p[2] : p \in to}
       /\ tstate' = [t \in Task |-> IF t \in go THEN "running"
                                    ELSE IF t \in Opinions \cap Pending THEN "gaveup"
                                    ELSE tstate[t]]
       /\ had' = (Pending \ Opinions # {})
       /\ quiet' = (quiet /\ ~Progressed(to) /\ waiting = 0)
       /\ loop' = IF had' /\ waiting = 0 THEN "snapshot" ELSE "wait"
       /\ UNCHANGED <<attempts, queue, raiser, checks, work, mesh, link, asks, tally>>

    \* mutant of Occupied: a machine counts as free until the coordinator has claimed it
OccupiedLate == {}

Occupied == {at[t] : t \in Running}

(* The snapshot of the workers, and the tasks that can be placed on them.  *)
Place ==
    LET pairs == Assign(Needs, Known, Free \ Occupied) IN
    /\ loop = "snapshot" /\ loop' = "wait"
    /\ HandOut(pairs)
    /\ tstate' = [t \in Task |-> IF \E p \in pairs : p[1] = t THEN "running" ELSE tstate[t]]
    /\ quiet' = (quiet /\ ~Progressed(pairs))
    /\ UNCHANGED <<had, attempts, plan, work, mesh, link, asks, tally>>

    \* mutant of Back: NoWorker leaves the task marked as running
BackStuck(t) == IF call[t] = "noworker" THEN "running" ELSE "pending"

(* What becomes of a task whose request did not finish.                    *)
Back(t) ==
    CASE t \in Opinions \/ call[t] = "noworker"                        -> "pending"
      [] call[t] = "preempted" /\ attempts[t] + 1 >= MaxPaused         -> "gaveup"
      [] call[t] = "failed" /\ attempts[t] + 1 >= MaxFailed            -> "gaveup"
      [] OTHER                                                        -> "pending"

(* A finished review raises findings, in any order; the new ones get a     *)
(* check each.                                                             *)
Raise(t) ==
    \E found \in IF t \in Checks THEN {<<>>} ELSE SetToAllKPermutations(1..NFinding) :
        LET new  == ToSet(found) \ ToSet(checks)
            seen == IF at[t] \in Machine THEN ModelOf[at[t]] ELSE at[t]
        IN /\ checks' = checks \o Those(found, new)
           /\ raiser' = [f \in 1..NFinding |-> IF f \in new THEN seen ELSE raiser[f]]
           /\ tstate' = [c \in Task |-> IF c = t THEN "done"
                                        ELSE IF c \in {"check"} \X new THEN "pending"
                                        ELSE tstate[c]]

Result(t) ==
    /\ loop = "wait" /\ loop' = "top"
    /\ t \in Running /\ call[t] \in Outcome
    /\ quiet' = FALSE
    /\ call' = [call EXCEPT ![t] = "none"]
    /\ IF call[t] = "finished"
       THEN Raise(t) /\ UNCHANGED <<attempts, queue, at>>
       ELSE /\ tstate' = [tstate EXCEPT ![t] = Back(t)]
            /\ at' = [at EXCEPT ![t] = NoNode]
            /\ attempts' = [attempts EXCEPT ![t] =
                   IF t \in Opinions \/ call[t] = "noworker" THEN @ ELSE @ + 1]
            /\ queue' = [k \in Opinions |->
                   IF k = t THEN Those(queue[t], Provider \ {at[t]}) ELSE queue[k]]
            /\ UNCHANGED <<raiser, checks>>
    /\ UNCHANGED <<had, used, work, mesh, link, asks, tally>>

(* No result for a while; after a long time with nothing running and tasks *)
(* nobody takes, the run gives up on what is left.                         *)
PollTimeout ==
    /\ loop = "wait" /\ loop' = "top"
    /\ \A t \in Running : call[t] \notin Outcome
    /\ tstate' = [t \in Task |->
           IF Running = {} /\ had /\ quiet /\ t \in Pending THEN "gaveup" ELSE tstate[t]]
    /\ UNCHANGED <<had, quiet, attempts, plan, at, call, work, mesh, link, asks, tally>>

TimePasses ==
    /\ ~Ended /\ Running = {} /\ ~quiet /\ quiet' = TRUE
    /\ UNCHANGED <<loop, had, tstate, attempts, plan, at, call, work, mesh, link, asks, tally>>

(***************************************************************************)
(* Link: infer() and start() of the review capability                      *)
(***************************************************************************)
Withdraw(C) == {[w EXCEPT !.awaited = @ /\ w.from \notin C] : w \in work}

(* infer() enters its waiter in pending_work.                              *)
Register(c) ==
    /\ call[c] = "spawned" /\ call' = [call EXCEPT ![c] = "registered"]
    /\ UNCHANGED <<run, at, work, mesh, link, asks, tally>>

(* With its waiter entered it sends, on the tx of now.  What               *)
(* is sent on a connection that is gone is refused, or lost unnoticed.     *)
Send(c) ==
    /\ call[c] \in {"registered", "drained"}
    /\ \/ /\ Live
          /\ work' = work \cup {[from |-> c, node |-> at[c], conn |-> conn,
                               accepted |-> FALSE, awaited |-> call[c] = "registered"]}
          /\ call' = [call EXCEPT ![c] = IF @ = "drained" THEN "failed" ELSE "sent"]
       \/ /\ ~Live /\ work' = work
          /\ call' = [call EXCEPT ![c] = "failed"]
       \/ /\ ~Live /\ work' = work /\ call[c] = "registered"
          /\ call' = [call EXCEPT ![c] = "sent"]
    /\ UNCHANGED <<run, at, mesh, link, asks, tally>>

(* TASK_TIMEOUT.                                                           *)
Timeout(c) ==
    /\ call[c] = "sent" /\ tally.timeout < MaxTimeout
    /\ call' = [call EXCEPT ![c] = "failed"]
    /\ work' = Withdraw({c})
    /\ tally' = [tally EXCEPT !.timeout = @ + 1]
    /\ UNCHANGED <<run, at, mesh, link, asks>>

Disconnect ==
    /\ up /\ conn < MaxConn
    /\ up' = FALSE
    /\ work' = {w \in work : w.accepted}
    /\ UNCHANGED <<run, at, call, mesh, conn, tx, starting, asks, tally>>

Connect ==
    /\ ~up /\ starting = "no"
    /\ up' = TRUE /\ conn' = conn + 1 /\ starting' = "tx"
    /\ UNCHANGED <<run, at, call, work, mesh, tx, asks, tally>>

    \* mutant of SetTx: start() drains the waiters before it sets tx
SetTxLast ==
    \/ /\ starting = "tx" /\ starting' = "drain"
       /\ call' = [c \in Caller |-> CASE call[c] = "sent" -> "failed"
                                      [] call[c] = "registered" -> "drained"
                                      [] OTHER -> call[c]]
       /\ work' = Withdraw({c \in Caller : call[c] \in {"sent", "registered"}})
       /\ UNCHANGED <<run, at, mesh, conn, up, tx, asks, tally>>
    \/ /\ starting = "drain" /\ tx # conn
       /\ tx' = conn /\ starting' = "no"
       /\ UNCHANGED <<run, at, call, work, mesh, conn, up, asks, tally>>

SetTx ==
    /\ starting = "tx"
    /\ tx' = conn /\ starting' = "drain"
    /\ UNCHANGED <<run, at, call, work, mesh, conn, up, asks, tally>>

(* The waiters of the old connection are dropped; a call that is about to  *)
(* send is among them.                                                     *)
Drain ==
    /\ starting = "drain" /\ tx = conn /\ starting' = "no"
    /\ call' = [c \in Caller |-> CASE call[c] = "sent" -> "failed"
                                   [] call[c] = "registered" -> "drained"
                                   [] OTHER -> call[c]]
    /\ work' = Withdraw({c \in Caller : call[c] \in {"sent", "registered"}})
    /\ UNCHANGED <<run, at, mesh, conn, up, tx, asks, tally>>

(***************************************************************************)
(* The coordinator, for requests that name their machine                   *)
(***************************************************************************)
(* What the answers "outs" do: each goes to the waiter of its request, if  *)
(* it still waits and its connection is open.                              *)
Answer(gone, o) ==
    /\ work' = work \ gone
    /\ call' = [c \in Caller |->
           IF \E w \in gone : w.from = c /\ w.awaited /\ up /\ w.conn = conn
           THEN o ELSE call[c]]

    \* mutant of Accept: a machine is claimed while a home command keeps it
AcceptResting(w) ==
    /\ w \in work /\ ~w.accepted
    /\ w.node \in Provider \/ w.node \in listed \ Claimed
    /\ work' = (work \ {w}) \cup {[w EXCEPT !.accepted = TRUE]}
    /\ UNCHANGED <<run, at, call, mesh, link, asks, tally>>

Accept(w) ==
    /\ w \in work /\ ~w.accepted
    /\ w.node \in Provider \/ w.node \in listed \ (Claimed \cup home)
    /\ work' = (work \ {w}) \cup {[w EXCEPT !.accepted = TRUE]}
    /\ UNCHANGED <<run, at, call, mesh, link, asks, tally>>

Refuse(w) ==
    /\ w \in work /\ ~w.accepted
    /\ w.node \in Provider \/ w.node \notin listed \ (Claimed \cup home)
    /\ Answer({w}, "noworker")
    /\ UNCHANGED <<run, at, mesh, link, asks, tally>>

WorkEnds(w) ==
    /\ w \in work /\ w.accepted
    /\ \E o \in {"finished", "failed"} : Answer({w}, o)
    /\ UNCHANGED <<run, at, mesh, link, asks, tally>>

HomeCommand(m) ==
    /\ m \in listed \ home /\ tally.home < MaxHome
    /\ home' = home \cup {m}
    /\ Answer({w \in work : w.accepted /\ w.node = m}, "preempted")
    /\ tally' = [tally EXCEPT !.home = @ + 1]
    /\ UNCHANGED <<run, at, listed, link, asks>>

HomeOver(m) ==
    /\ m \in home /\ home' = home \ {m}
    /\ UNCHANGED <<run, at, call, work, listed, link, asks, tally>>

DropOut(m) ==
    /\ m \in listed /\ tally.gone < MaxGone
    /\ listed' = listed \ {m}
    /\ Answer({w \in work : w.accepted /\ w.node = m}, "failed")
    /\ tally' = [tally EXCEPT !.gone = @ + 1]
    /\ UNCHANGED <<run, at, home, link, asks>>

Return(m) ==
    /\ m \in Machine \ listed /\ listed' = listed \cup {m}
    /\ UNCHANGED <<run, at, call, work, home, link, asks, tally>>

(***************************************************************************)
(* The asker                                                               *)
(***************************************************************************)
Ask ==
    /\ tally.asked < MaxQuestion
    /\ tally' = [tally EXCEPT !.asked = @ + 1]
    /\ waiting' = waiting + 1
    /\ UNCHANGED <<run, at, call, work, mesh, link, asker>>

AskStart ==
    /\ asker.step = "idle" /\ waiting > 0
    /\ asker' = [Idle EXCEPT !.step = "thinking"]
    /\ UNCHANGED <<run, at, call, work, mesh, link, waiting, tally>>

(* The free machine with the most room.                                    *)
AskSends ==
    /\ asker.step = "thinking"
    /\ \E m \in Free :
         /\ \A n \in Free : Capacity[m]["review"] >= Capacity[n]["review"]
         /\ HandOut({<<Question, m>>})
    /\ asker' = [asker EXCEPT !.step = "asking"]
    /\ UNCHANGED <<run, work, mesh, link, waiting, tally>>

    \* mutant of AskEnds: a question that failed stays in the count
AskEndsUncounted(failed) ==
    /\ asker' = Idle
    /\ waiting' = IF failed THEN waiting ELSE waiting - 1

AskEnds(failed) ==
    /\ asker' = Idle
    /\ waiting' = waiting - 1

(* Nothing to search for, nothing found, files too big, or no machine came *)
(* free for as long as the stall limit.                                    *)
AskGivesUp ==
    /\ asker.step = "thinking"
    /\ AskEnds(Free = {})
    /\ UNCHANGED <<run, at, call, work, mesh, link, tally>>

AskResult ==
    /\ asker.step = "asking" /\ call[Question] \in Outcome
    /\ call' = [call EXCEPT ![Question] = "none"]
    /\ at' = [at EXCEPT ![Question] = NoNode]
    /\ LET again == [asker EXCEPT !.step = "thinking"] IN
       \/ call[Question] = "finished" /\ AskEnds(FALSE)
       \/ /\ call[Question] = "noworker"
          /\ asker' = again /\ waiting' = waiting
       \/ /\ call[Question] = "preempted"
          /\ IF asker.pauses = MaxPauses THEN AskEnds(TRUE)
             ELSE asker' = [again EXCEPT !.pauses = @ + 1] /\ waiting' = waiting
       \/ /\ call[Question] \in {"failed", "finished"}   \* finished: an empty answer
          /\ IF asker.failures = MaxFailures THEN AskEnds(TRUE)
             ELSE asker' = [again EXCEPT !.failures = @ + 1] /\ waiting' = waiting
    /\ UNCHANGED <<run, work, mesh, link, tally>>

(***************************************************************************)
(* Specification                                                           *)
(***************************************************************************)
Dispatch == Finish \/ Round \/ Place \/ PollTimeout \/ \E t \in Task : Result(t)
Asker    == AskStart \/ AskSends \/ AskGivesUp \/ AskResult

Next ==
    \/ Dispatch \/ TimePasses \/ Ask \/ Asker
    \/ \E c \in Caller : Register(c) \/ Send(c) \/ Timeout(c)
    \/ Disconnect \/ Connect \/ SetTx \/ Drain
    \/ \E w \in work : Accept(w) \/ Refuse(w) \/ WorkEnds(w)
    \/ \E m \in Machine : HomeCommand(m) \/ HomeOver(m) \/ DropOut(m) \/ Return(m)

(* The tasks of mac1 keep running and its clock moves; the client connects *)
(* again; the coordinator answers what it took in, and lets a machine go   *)
(* after a home command.  No fairness: a home command, a machine dropping  *)
(* out or coming back, a lost connection, a question, TASK_TIMEOUT.        *)
Fairness ==
    /\ WF_vars(Dispatch) /\ WF_vars(TimePasses) /\ WF_vars(Asker)
    /\ WF_vars(\E c \in Caller : Register(c) \/ Send(c))
    /\ WF_vars(Connect \/ SetTx \/ Drain)
    /\ WF_vars(\E w \in work : Accept(w) \/ Refuse(w) \/ WorkEnds(w))
    /\ WF_vars(\E m \in Machine : HomeOver(m))

Spec == Init /\ [][Next]_vars /\ Fairness

(***************************************************************************)
(* Properties                                                              *)
(***************************************************************************)
(* A run never has two of its own tasks on one machine, though it hears of *)
(* a hand-out only when the coordinator has taken it.                      *)
MachineTakesOne ==
    \A s, t \in Running : at[s] \in Machine /\ s # t => at[s] # at[t]

(* Whatever subset of the machines is listed or free, the pairs are a      *)
(* sound and, for reviews, complete assignment.                            *)
AssignmentIsSound ==
    loop = "snapshot" => \A L \in SUBSET Machine : \A F \in SUBSET L :
        IsAssignment(Assign(Needs, L, F), Needs, L, F)

(* The two opinions come from different providers, after any number of     *)
(* them failed.                                                            *)
OpinionsDiffer ==
    \A s, t \in Opinions : s # t /\ at[s] # NoNode => at[s] # at[t]

(* A run that ended has dealt with every task it ever had, the checks of   *)
(* every finding among them, and waits for no answer.                      *)
EndedIsComplete ==
    Ended => /\ tstate[<<"chunk", 1>>] # "none"
             /\ \A t \in Task : tstate[t] \in {"none", "done", "gaveup"}
             /\ \A f \in 1..NFinding : raiser[f] # NoNode => tstate[<<"check", f>>] # "none"

(* Every call comes back without TASK_TIMEOUT: a lost connection alone     *)
(* never leaves one waiting, as the next one drains it.                    *)
CallEnds ==
    \A c \in Caller : call[c] \in Calling ~> call[c] \notin Calling

(* A run ends whatever machines, providers and questions do.               *)
RunEnds == <>Ended

(* Every question is answered or fails, and stops holding up the run.      *)
QuestionEnds == (waiting > 0) ~> (waiting = 0)

(* The coordinator of this module keeps WorkRouter's promise, and every    *)
(* claim ends: nothing here rests on a better coordinator than there is.   *)
Claims == INSTANCE WorkClaims WITH
    Worker <- Machine, Claimant <- Caller, rests <- home,
    holder <- [m \in Machine |-> {w.from : w \in {x \in work : x.accepted /\ x.node = m}}]
ImplementsClaims == Claims!FairSpec
=============================================================================
