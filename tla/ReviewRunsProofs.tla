-------------------------- MODULE ReviewRunsProofs --------------------------
(***************************************************************************)
(* What the run of ReviewRuns checks for one repo and a few commits,       *)
(* proved for any number of repos, commits, slots and restarts.            *)
(***************************************************************************)
EXTENDS ReviewRuns, FiniteSetTheorems, SequenceTheorems, TLAPS

(* Every request the parts of the system write is one.                     *)
LEMMA Requests ==
    ASSUME NEW r \in Repo, NEW k \in Kind, NEW c \in 0..MaxCommit
    PROVE  Request(r, k, c) \in Run
  BY DEF Request, Run

(* enqueue() keeps the queue a queue of requests, and it keeps its front:  *)
(* at most the commit of a "tested" request there becomes another one.     *)
LEMMA EnqueueKeepsFront ==
    ASSUME queue \in Seq(Run), wake \in BOOLEAN, NEW q \in Run, Enqueue(q)
    PROVE  /\ queue' \in Seq(Run)
           /\ wake' \in BOOLEAN
           /\ queue # <<>> => queue' # <<>> /\ Same(Head(queue'), Head(queue))
<1>1. CASE Queued(q)
  BY <1>1 DEF Enqueue, Same
<1>2. CASE ~Queued(q) /\ Earlier(q) # {}
  <2>1. PICK i \in Earlier(q) : queue' = [queue EXCEPT ![i] = q] /\ wake' = wake
    BY <1>2 DEF Enqueue
  <2>2. i \in 1..Len(queue) /\ Same(queue[i], q)
    BY DEF Earlier
  <2>3. queue' \in Seq(Run) /\ Len(queue') = Len(queue)
    BY <2>1, <2>2, ExceptSeq
  <2>4. Head(queue') = IF i = 1 THEN q ELSE Head(queue)
    BY <2>1, <2>2, <2>3
  <2>5. QED
    BY <2>1, <2>2, <2>3, <2>4 DEF Same
<1>3. CASE ~Queued(q) /\ Earlier(q) = {}
  <2>1. queue' = Append(queue, q) /\ wake' = TRUE
    BY <1>3 DEF Enqueue
  <2>2. QED
    BY <2>1 DEF Same
<1>4. QED
  BY <1>1, <1>2, <1>3

-----------------------------------------------------------------------------
(* The invariant that is inductive: before start() nobody runs anything;   *)
(* between fetch and bookmark the run is ahead of the bookmark it will     *)
(* move; when such a run saves findings with a gap, its report tells of    *)
(* it; and from then on all the run looked at is covered or told of.       *)
NobodyRunsBeforeStart == ~started => step = "asleep"
AheadOfBookmark ==
    step \in {"review", "report", "save", "finish", "move"} /\ MovesBookmark(req)
        => bookmark[req.repo] < rev
GapIsTold ==
    gap # {} => /\ step \in {"report", "save"} /\ MovesBookmark(req)
                /\ step = "save" => Changed \subseteq told[req.repo]
FindingsBeforeBookmark ==
    step \in {"finish", "move"} /\ MovesBookmark(req) => Changed \subseteq Accounted(req.repo)

IInv ==
    /\ TypeOK
    /\ IsFiniteSet(row)
    /\ NobodyRunsBeforeStart
    /\ FrontIsExecuting
    /\ RowIsExecuting
    /\ AheadOfBookmark
    /\ GapIsTold
    /\ FindingsBeforeBookmark

LEMMA InitIInv == Init => IInv
<1> SUFFICES ASSUME Init PROVE IInv
  OBVIOUS
<1> USE DEF Init
<1>1. TypeOK
  <2>1. 1 \in Commit /\ 0 \in 0..MaxCommit /\ 0 \in 0..MaxSlot /\ 0 \in 0..MaxTrouble
    BY BoundAssumption DEF Commit
  <2>2. queue \in Seq(Run) /\ ~Executing
    BY DEF Executing
  <2>3. QED
    BY <2>1, <2>2 DEF TypeOK, Step
<1>2. IsFiniteSet(row)
  BY FS_EmptySet
<1>3. NobodyRunsBeforeStart /\ FrontIsExecuting /\ RowIsExecuting
  BY DEF NobodyRunsBeforeStart, FrontIsExecuting, RowIsExecuting, Executing
<1>4. AheadOfBookmark /\ GapIsTold /\ FindingsBeforeBookmark
  BY DEF AheadOfBookmark, GapIsTold, FindingsBeforeBookmark
<1>5. QED
  BY <1>1, <1>2, <1>3, <1>4 DEF IInv

(* Asking for a run touches the queue behind the front, and nothing the    *)
(* run being executed depends on.                                          *)
LEMMA AskingKeepsIInv ==
    ASSUME IInv, NEW q \in Run, Enqueue(q),
           UNCHANGED <<started, step, run, row, bookmark, covered, told, head, slot, late,
                       trouble>>,
           marked' \in SUBSET Run, lastSlot' = lastSlot, asked' \in [Repo -> SUBSET Commit]
    PROVE  IInv'
<1> USE DEF run
<1>1. queue' \in Seq(Run) /\ wake' \in BOOLEAN
      /\ (queue # <<>> => queue' # <<>> /\ Same(Head(queue'), Head(queue)))
  BY EnqueueKeepsFront DEF IInv, TypeOK
<1>2. TypeOK'
  BY <1>1 DEF IInv, TypeOK, Executing
<1>3. FrontIsExecuting'
  BY <1>1 DEF IInv, FrontIsExecuting, Executing, Same
<1>4. /\ IsFiniteSet(row)' /\ NobodyRunsBeforeStart' /\ RowIsExecuting'
      /\ AheadOfBookmark' /\ GapIsTold' /\ FindingsBeforeBookmark'
  BY DEF IInv, NobodyRunsBeforeStart, RowIsExecuting, AheadOfBookmark, GapIsTold,
         FindingsBeforeBookmark, Changed, Base, Accounted
<1>5. QED
  BY <1>2, <1>3, <1>4 DEF IInv

(* The steps that ask for a run.                                           *)
LEMMA AskingSteps ==
    ASSUME IInv,
           \/ \E r \in Repo : \E k \in Kind : RunNow(r, k)
           \/ \E r \in Repo : \E c \in Commit : RunTested(r, c)
           \/ \E q \in Run : SlotQueued(q)
    PROVE  IInv'
<1> USE DEF store, world
<1>1. ASSUME NEW r \in Repo, NEW k \in Kind, RunNow(r, k) PROVE IInv'
  <2>1. Request(r, k, 0) \in Run
    BY Requests, BoundAssumption
  <2>2. QED
    BY <2>1, <1>1, AskingKeepsIInv DEF RunNow, IInv, TypeOK
<1>2. ASSUME NEW r \in Repo, NEW c \in Commit, RunTested(r, c) PROVE IInv'
  <2>1. Request(r, "tested", c) \in Run
    BY Requests, BoundAssumption DEF Commit, Kind
  <2>2. asked' \in [Repo -> SUBSET Commit]
    BY <1>2 DEF RunTested, IInv, TypeOK
  <2>3. QED
    BY <2>1, <2>2, <1>2, AskingKeepsIInv DEF RunTested, IInv, TypeOK
<1>3. ASSUME NEW q \in Run, SlotQueued(q) PROVE IInv'
  BY <1>3, AskingKeepsIInv DEF SlotQueued, IInv, TypeOK
<1>4. QED
  BY <1>1, <1>2, <1>3

(* The steps of the world and of the scheduler that the runner does not    *)
(* see: nothing the invariant's later parts speak of changes.              *)
LEMMA UnseenSteps ==
    ASSUME IInv,
           \/ \E r \in Repo : Push(r) \/ SlotDue(r)
           \/ NightFalls \/ HourPasses
           \/ UNCHANGED vars
    PROVE  IInv'
<1> USE DEF IInv, TypeOK, run, memory, store, world, vars
<1>1. TypeOK'
  <2>1. ASSUME NEW r \in Repo, Push(r) PROVE TypeOK'
    BY <2>1, BoundAssumption DEF Push, Commit, Executing
  <2>2. ASSUME NEW r \in Repo, SlotDue(r) PROVE TypeOK'
    <3>1. \A k \in Kind : Request(r, k, 0) \in Run
      BY Requests, BoundAssumption
    <3>2. marked' \in SUBSET Run
      BY <2>2, <3>1 DEF SlotDue, Kind
    <3>3. lastSlot' \in [Repo -> 0..MaxSlot]
      BY <2>2 DEF SlotDue
    <3>4. QED
      BY <2>2, <3>2, <3>3 DEF SlotDue, Executing
  <2>3. CASE NightFalls
    <3>1. slot \in 0..MaxSlot /\ slot < MaxSlot /\ slot' = slot + 1 /\ late' = FALSE
      BY <2>3 DEF NightFalls
    <3>2. /\ UNCHANGED <<head, queue, wake, started, step, req, rev, gap, marked, row>>
          /\ UNCHANGED <<bookmark, lastSlot, covered, told, asked, trouble>>
      BY <2>3 DEF NightFalls
    <3>3. Executing' <=> Executing
      BY <3>2 DEF Executing
    <3>4. slot' \in 0..MaxSlot
      BY <3>1, BoundAssumption
    <3>5. QED
      BY <3>1, <3>2, <3>3, <3>4
  <2>4. CASE HourPasses \/ UNCHANGED vars
    BY <2>4 DEF HourPasses, Executing
  <2>5. QED
    BY <2>1, <2>2, <2>3, <2>4
<1>2. UNCHANGED <<queue, started, step, req, rev, gap, row, bookmark, covered, told>>
  BY DEF Push, SlotDue, NightFalls, HourPasses
<1>3. QED
  BY <1>1, <1>2 DEF NobodyRunsBeforeStart, FrontIsExecuting, RowIsExecuting, Executing,
                    AheadOfBookmark, GapIsTold, FindingsBeforeBookmark, Changed, Base, Accounted

(* The process goes away and comes back.                                   *)
LEMMA RestartSteps ==
    ASSUME IInv, Crash \/ Start
    PROVE  IInv'
<1>1. CASE Crash
  <2>1. /\ queue' = <<>> /\ wake' = FALSE /\ started' = FALSE /\ step' = "asleep"
        /\ req' = NoRun /\ rev' = 0 /\ gap' = {} /\ marked' = {}
        /\ trouble' \in 0..MaxTrouble
        /\ UNCHANGED <<head, slot, late, asked, row, bookmark, lastSlot, covered, told>>
    BY <1>1, BoundAssumption DEF Crash, store, world, IInv, TypeOK
  <2>2. ~Executing'
    BY <2>1 DEF Executing
  <2>3. TypeOK'
    <3>1. queue' \in Seq(Run) /\ rev' \in 0..MaxCommit
      BY <2>1, BoundAssumption
    <3>2. QED
      BY <2>1, <2>2, <3>1 DEF IInv, TypeOK, Step
  <2>4. AheadOfBookmark' /\ GapIsTold' /\ FindingsBeforeBookmark'
    BY <2>1 DEF AheadOfBookmark, GapIsTold, FindingsBeforeBookmark
  <2>5. QED
    BY <2>1, <2>2, <2>3, <2>4
    DEF IInv, NobodyRunsBeforeStart, FrontIsExecuting, RowIsExecuting
<1>2. CASE Start
  <2>1. Interrupted \subseteq Run /\ Cardinality(Interrupted) \in Nat
    <3>1. Interrupted \subseteq row
      BY DEF Interrupted
    <3>2. IsFiniteSet(Interrupted)
      BY <3>1, FS_Subset DEF IInv
    <3>3. QED
      BY <3>1, <3>2, FS_CardinalityType DEF IInv, TypeOK
  <2>2. queue' \in Seq(Run)
    <3>1. PICK s \in [1..Cardinality(Interrupted) -> Interrupted] : queue' = queue \o s
      BY <1>2 DEF Start
    <3>2. s \in Seq(Run)
      <4>1. \A i \in 1..Cardinality(Interrupted) : s[i] \in Run
        BY <2>1
      <4>2. s = [i \in 1..Cardinality(Interrupted) |-> s[i]]
        OBVIOUS
      <4>3. QED
        BY <2>1, <4>1, <4>2
    <3>3. QED
      BY <3>1, <3>2 DEF IInv, TypeOK
  <2>3. /\ wake' = TRUE /\ started' = TRUE /\ step' = "idle" /\ row' = {}
        /\ UNCHANGED <<req, rev, gap, marked, bookmark, lastSlot, covered, told, head, slot,
                       late, asked, trouble>>
    BY <1>2 DEF Start, Goto, run, world
  <2>4. ~Executing /\ ~Executing'
    BY <1>2, <2>3 DEF Start, Executing, IInv, NobodyRunsBeforeStart
  <2>5. TypeOK'
    BY <2>2, <2>3, <2>4 DEF IInv, TypeOK, Step
  <2>6. IsFiniteSet(row)'
    BY <2>3, FS_EmptySet
  <2>7. AheadOfBookmark' /\ GapIsTold' /\ FindingsBeforeBookmark'
    BY <1>2, <2>3
    DEF Start, NobodyRunsBeforeStart, AheadOfBookmark, GapIsTold, FindingsBeforeBookmark, IInv
  <2>8. QED
    BY <2>3, <2>4, <2>5, <2>6, <2>7
    DEF IInv, NobodyRunsBeforeStart, FrontIsExecuting, RowIsExecuting
<1>3. QED
  BY <1>1, <1>2

(* The runner between two requests.                                        *)
LEMMA WaitingSteps ==
    ASSUME IInv, Take \/ Sleep \/ Wake
    PROVE  IInv'
<1> USE DEF IInv, TypeOK, Goto, run, store, world
<1>1. CASE Take
  <2>1. /\ started /\ step = "idle" /\ queue # <<>> /\ req' = Head(queue)
        /\ row' = row \cup {Head(queue)} /\ step' = "fetch"
        /\ UNCHANGED <<queue, wake, started, rev, gap, marked, bookmark, lastSlot, covered,
                       told, head, slot, late, asked, trouble>>
    BY <1>1 DEF Take
  <2>2. Head(queue) \in Run /\ row = {}
    BY <2>1 DEF RowIsExecuting
  <2>3. TypeOK'
    BY <2>1, <2>2, NoRunAssumption DEF Step, Executing
  <2>4. IsFiniteSet(row)'
    BY <2>1, FS_AddElement
  <2>5. FrontIsExecuting' /\ RowIsExecuting' /\ NobodyRunsBeforeStart'
    BY <2>1, <2>2 DEF FrontIsExecuting, RowIsExecuting, NobodyRunsBeforeStart, Same
  <2>6. AheadOfBookmark' /\ GapIsTold' /\ FindingsBeforeBookmark'
    BY <2>1 DEF AheadOfBookmark, GapIsTold, FindingsBeforeBookmark
  <2>7. QED
    BY <2>3, <2>4, <2>5, <2>6
<1>2. CASE Sleep \/ Wake
  <2>1. /\ started /\ step \in {"idle", "asleep"} /\ step' \in {"idle", "asleep"}
        /\ wake' \in BOOLEAN
        /\ UNCHANGED <<queue, started, req, rev, gap, marked, row, bookmark, lastSlot,
                       covered, told, head, slot, late, asked, trouble>>
    BY <1>2 DEF Sleep, Wake
  <2>2. TypeOK'
    BY <2>1 DEF Step, Executing
  <2>3. /\ FrontIsExecuting' /\ RowIsExecuting' /\ NobodyRunsBeforeStart'
        /\ AheadOfBookmark' /\ GapIsTold' /\ FindingsBeforeBookmark' /\ IsFiniteSet(row)'
    BY <2>1 DEF FrontIsExecuting, RowIsExecuting, NobodyRunsBeforeStart, Executing,
                AheadOfBookmark, GapIsTold, FindingsBeforeBookmark
  <2>4. QED
    BY <2>2, <2>3
<1>3. QED
  BY <1>1, <1>2

(* The commit a run goes up to is one of the branch, or none yet.          *)
LEMMA TargetIsCommit ==
    ASSUME TypeOK, NEW q \in Run
    PROVE  Target(q) \in 0..MaxCommit
  BY BoundAssumption DEF TypeOK, Target, Run, Commit

(* The runner while it executes a request.                                 *)
LEMMA ExecutingSteps ==
    ASSUME IInv, Fetch \/ NothingNew \/ RunFails \/ NothingReviewable \/ Reviewed
                 \/ WriteReport \/ SaveFindings \/ FinishRun \/ MoveBookmark
    PROVE  IInv'
<1> USE DEF Goto, run, store, world
<1>1. Executing /\ started
  BY DEF Fetch, NothingNew, RunFails, NothingReviewable, Reviewed, WriteReport, SaveFindings,
         FinishRun, MoveBookmark, Executing, IInv, NobodyRunsBeforeStart
<1>2. /\ Executing'
      /\ UNCHANGED <<queue, wake, started, req, marked, head, slot, late, asked, lastSlot>>
  BY DEF Fetch, NothingNew, RunFails, NothingReviewable, Reviewed, WriteReport, SaveFindings,
         FinishRun, MoveBookmark, Executing
<1>3. req \in Run /\ req.repo \in Repo
  BY <1>1 DEF IInv, TypeOK, Run
<1>4. rev' \in 0..MaxCommit
  BY <1>3, TargetIsCommit
  DEF Fetch, NothingNew, RunFails, NothingReviewable, Reviewed, WriteReport, SaveFindings,
      FinishRun, MoveBookmark, IInv, TypeOK
<1>5. Changed \subseteq Commit
  BY <1>3, BoundAssumption DEF Changed, Base, IInv, TypeOK, Commit
<1>6. covered' \in [Repo -> SUBSET Commit]
  BY <1>3, <1>5
  DEF Fetch, NothingNew, RunFails, NothingReviewable, Reviewed, WriteReport, SaveFindings,
      FinishRun, MoveBookmark, Cover, IInv, TypeOK
<1>7. told' \in [Repo -> SUBSET Commit] /\ gap' \in SUBSET Commit
  <2>1. told' \in [Repo -> SUBSET Commit]
    <3>1. told' = told \/ told' = [told EXCEPT ![req.repo] = @ \cup Changed]
      BY DEF Fetch, NothingNew, RunFails, NothingReviewable, Reviewed, WriteReport, SaveFindings,
             FinishRun, MoveBookmark
    <3>2. QED
      BY <1>3, <1>5, <3>1 DEF IInv, TypeOK
  <2>2. CASE Reviewed
    BY <2>1, <2>2, <1>5 DEF Reviewed
  <2>3. CASE ~Reviewed
    BY <2>1, <2>3
    DEF Fetch, NothingNew, RunFails, NothingReviewable, WriteReport, SaveFindings, FinishRun,
        MoveBookmark, IInv, TypeOK
  <2>4. QED
    BY <2>2, <2>3
<1>8. bookmark' \in [Repo -> 0..MaxCommit]
  BY DEF Fetch, NothingNew, RunFails, NothingReviewable, Reviewed, WriteReport, SaveFindings,
         FinishRun, MoveBookmark, IInv, TypeOK
<1>9. step' \in Step /\ row' \in SUBSET row /\ trouble' \in 0..MaxTrouble
  BY BoundAssumption
  DEF Fetch, NothingNew, RunFails, NothingReviewable, Reviewed, WriteReport, SaveFindings,
      FinishRun, MoveBookmark, IInv, TypeOK, Step
<1>10. TypeOK'
  BY <1>1, <1>2, <1>4, <1>6, <1>7, <1>8, <1>9 DEF IInv, TypeOK
<1>11. /\ IsFiniteSet(row)' /\ NobodyRunsBeforeStart' /\ FrontIsExecuting'
  BY <1>1, <1>2, <1>9, FS_Subset DEF IInv, NobodyRunsBeforeStart, FrontIsExecuting
<1>12. RowIsExecuting'
  BY <1>1, <1>2
  DEF Fetch, NothingNew, RunFails, NothingReviewable, Reviewed, WriteReport, SaveFindings,
      FinishRun, MoveBookmark, IInv, RowIsExecuting
<1>13. AheadOfBookmark'
  <2>1. CASE Fetch
    BY <2>1, <1>2, <1>3, TargetIsCommit DEF Fetch, AheadOfBookmark, Unmoved, MovesBookmark,
       IInv, TypeOK
  <2>2. CASE ~Fetch
    BY <2>2, <1>2
    DEF NothingNew, RunFails, NothingReviewable, Reviewed, WriteReport, SaveFindings, FinishRun,
        MoveBookmark, IInv, AheadOfBookmark
  <2>3. QED
    BY <2>1, <2>2
<1>14. GapIsTold'
  <2>1. CASE WriteReport
    BY <2>1, <1>2, <1>3 DEF WriteReport, GapIsTold, Changed, Base, IInv, TypeOK
  <2>2. CASE ~WriteReport
    BY <2>2, <1>2
    DEF Fetch, NothingNew, RunFails, NothingReviewable, Reviewed, SaveFindings, FinishRun,
        MoveBookmark, GapIsTold, MovesBookmark, IInv
  <2>3. QED
    BY <2>1, <2>2
<1>15. FindingsBeforeBookmark'
  <2>1. CASE NothingReviewable
    BY <2>1, <1>2, <1>3
    DEF NothingReviewable, Cover, FindingsBeforeBookmark, Changed, Base, Accounted, IInv, TypeOK
  <2>2. CASE SaveFindings
    <3>1. MovesBookmark(req)' => MovesBookmark(req)
      BY <1>2 DEF MovesBookmark
    <3>2. CASE MovesBookmark(req)
      <4>1. covered' = [covered EXCEPT ![req.repo] = @ \cup (Changed \ gap)]
        BY <2>2, <3>2 DEF SaveFindings, Cover
      <4>2. gap # {} => Changed \subseteq told[req.repo]
        BY <2>2 DEF SaveFindings, GapIsTold, IInv
      <4>3. Changed' = Changed /\ told' = told /\ req' = req
        BY <2>2 DEF SaveFindings, Changed, Base
      <4>4. Changed \subseteq covered'[req.repo] \cup told[req.repo]
        BY <4>1, <4>2, <1>3 DEF IInv, TypeOK
      <4>5. QED
        BY <4>3, <4>4 DEF FindingsBeforeBookmark, Accounted
    <3>3. QED
      BY <3>1, <3>2 DEF FindingsBeforeBookmark
  <2>3. CASE FinishRun
    BY <2>3, <1>2 DEF FinishRun, FindingsBeforeBookmark, Changed, Base, Accounted, IInv
  <2>4. CASE ~NothingReviewable /\ ~SaveFindings /\ ~FinishRun
    BY <2>4
    DEF Fetch, NothingNew, RunFails, Reviewed, WriteReport, MoveBookmark, FindingsBeforeBookmark
  <2>5. QED
    BY <2>1, <2>2, <2>3, <2>4
<1>16. QED
  BY <1>10, <1>11, <1>12, <1>13, <1>14, <1>15 DEF IInv

(* Popping the run leaves an idle runner, and no row.                      *)
LEMMA PopKeepsIInv ==
    ASSUME IInv, Pop
    PROVE  IInv'
<1>1. /\ step = "pop" /\ queue' = Tail(queue) /\ req' = NoRun /\ rev' = 0 /\ step' = "idle"
      /\ UNCHANGED <<wake, started, gap, marked, row, bookmark, lastSlot, covered, told, head,
                     slot, late, asked, trouble>>
  BY DEF Pop, Goto, store, world
<1>2. queue # <<>> /\ row = {} /\ started
  BY <1>1 DEF IInv, FrontIsExecuting, RowIsExecuting, NobodyRunsBeforeStart, Executing, TypeOK
<1>3. TypeOK'
  <2>1. queue' \in Seq(Run) /\ rev' \in 0..MaxCommit /\ ~Executing'
    BY <1>1, <1>2, BoundAssumption DEF IInv, TypeOK, Executing
  <2>2. QED
    BY <1>1, <2>1 DEF IInv, TypeOK, Step
<1>4. /\ IsFiniteSet(row)' /\ NobodyRunsBeforeStart' /\ FrontIsExecuting' /\ RowIsExecuting'
      /\ AheadOfBookmark' /\ GapIsTold' /\ FindingsBeforeBookmark'
  BY <1>1, <1>2 DEF IInv, NobodyRunsBeforeStart, FrontIsExecuting, RowIsExecuting, Executing,
                    AheadOfBookmark, GapIsTold, FindingsBeforeBookmark
<1>5. QED
  BY <1>3, <1>4 DEF IInv

-----------------------------------------------------------------------------
LEMMA Inductive == IInv /\ [Next]_vars => IInv'
  BY AskingSteps, UnseenSteps, RestartSteps, WaitingSteps, ExecutingSteps, PopKeepsIInv
  DEF Next, Runner, Scheduler, Dashboard

LEMMA IInvAlways == Spec => []IInv
  BY InitIInv, Inductive, PTL DEF Spec

(* Every variable has its type: among others, the queue and the rows only  *)
(* ever hold requests the parts of the system write.                       *)
THEOREM Typing == Spec => []TypeOK
<1>1. IInv => TypeOK
  BY DEF IInv
<1>2. QED
  BY <1>1, IInvAlways, PTL

(* What the runner pops is what it ran (lib.rs, the runner's pop_front).   *)
THEOREM PopsWhatItRan == Spec => []FrontIsExecuting
<1>1. IInv => FrontIsExecuting
  BY DEF IInv
<1>2. QED
  BY <1>1, IInvAlways, PTL

(* A row says "running" only while its run is executed.                    *)
THEOREM NoStaleRow == Spec => []RowIsExecuting
<1>1. IInv => RowIsExecuting
  BY DEF IInv
<1>2. QED
  BY <1>1, IInvAlways, PTL

(* Only MoveBookmark writes the bookmark, and then to the run's commit.    *)
LEMMA BookmarkMoves ==
    ASSUME IInv, Next, NEW r \in Repo, bookmark'[r] # bookmark[r]
    PROVE  /\ step = "move" /\ MovesBookmark(req) /\ req \in Run /\ req.repo = r
           /\ bookmark'[r] = rev
<1>1. MoveBookmark
  BY DEF Next, Runner, Scheduler, Dashboard, Take, Sleep, Wake, Fetch, NothingNew,
         NothingReviewable, Reviewed, WriteReport, SaveFindings, FinishRun, Pop, RunFails,
         SlotDue, SlotQueued, Start, Crash, NightFalls, HourPasses, RunNow, RunTested, Push,
         store, memory, vars
<1>2. step = "move" /\ MovesBookmark(req)
      /\ bookmark' = [bookmark EXCEPT ![req.repo] = rev]
  BY <1>1 DEF MoveBookmark
<1>3. req \in Run
  BY <1>2 DEF IInv, TypeOK, Executing
<1>4. QED
  BY <1>2, <1>3 DEF IInv, TypeOK, Run

(* A late run never moves the bookmark back (run.rs, the check against the *)
(* bookmark before the review).                                            *)
THEOREM NeverBack == Spec => BookmarkNeverGoesBack
<1>1. IInv /\ [Next]_vars => [\A r \in Repo : bookmark'[r] >= bookmark[r]]_vars
  <2> SUFFICES ASSUME IInv, Next, NEW r \in Repo PROVE bookmark'[r] >= bookmark[r]
    OBVIOUS
  <2>1. bookmark[r] \in Nat /\ rev \in Nat
    BY DEF IInv, TypeOK
  <2>2. CASE bookmark'[r] = bookmark[r]
    BY <2>1, <2>2
  <2>3. CASE bookmark'[r] # bookmark[r]
    BY <2>1, <2>3, BookmarkMoves DEF IInv, AheadOfBookmark
  <2>4. QED
    BY <2>2, <2>3
<1>2. QED
  BY <1>1, IInvAlways, PTL DEF Spec, BookmarkNeverGoesBack

(* When it moves on, every commit it passes is one whose findings are in   *)
(* the store or whose range a report tells of as reviewed in part, across  *)
(* any number of restarts, failed runs and runs with chunks given up.      *)
THEOREM NothingPassedInSilence == Spec => GapsAreTold
<1> DEFINE Tells == \A r \in Repo :
          /\ bookmark[r] # 0 => bookmark[r] + 1 .. bookmark'[r] \subseteq Accounted(r)
          /\ bookmark'[r] # bookmark[r] => bookmark'[r] \in Accounted(r)
<1>1. IInv /\ [Next]_vars => [Tells]_vars
  <2> SUFFICES ASSUME IInv, Next, NEW r \in Repo
               PROVE  /\ bookmark[r] # 0 => bookmark[r] + 1 .. bookmark'[r] \subseteq Accounted(r)
                      /\ bookmark'[r] # bookmark[r] => bookmark'[r] \in Accounted(r)
    OBVIOUS
  <2>1. bookmark[r] \in Nat /\ rev \in Nat
    BY DEF IInv, TypeOK
  <2>2. CASE bookmark'[r] = bookmark[r]
    BY <2>1, <2>2
  <2>3. CASE bookmark'[r] # bookmark[r]
    <3>1. /\ step = "move" /\ MovesBookmark(req) /\ req.repo = r /\ bookmark'[r] = rev
          /\ bookmark[r] < rev /\ Changed \subseteq Accounted(r)
      BY <2>3, BookmarkMoves DEF IInv, AheadOfBookmark, FindingsBeforeBookmark
    <3>2. rev \in Changed
      BY <3>1, <2>1, BoundAssumption DEF Changed, Base
    <3>3. bookmark[r] # 0 => Changed = bookmark[r] + 1 .. rev
      BY <3>1 DEF Changed, Base
    <3>4. QED
      BY <3>1, <3>2, <3>3
  <2>4. QED
    BY <2>2, <2>3
<1>2. QED
  BY <1>1, IInvAlways, PTL DEF Spec, GapsAreTold

-----------------------------------------------------------------------------
(* What a review up to "rev" looks at is what the log asks for.            *)
LEMMA ChangedIsSince ==
    ASSUME IInv, req \in Run, bookmark[req.repo] < rev
    PROVE  Changed = Log!Since(req.repo, rev)
<1>1. bookmark[req.repo] \in Nat /\ rev \in Nat /\ FirstRun \in Nat \ {0}
  BY BoundAssumption DEF IInv, TypeOK, Run
<1>2. CASE bookmark[req.repo] # 0
  BY <1>2 DEF Changed, Base, Log!Since
<1>3. CASE bookmark[req.repo] = 0
  <2> DEFINE before == IF rev > FirstRun THEN rev - FirstRun ELSE 0
  <2>1. Changed = before + 1 .. rev
    BY <1>3 DEF Changed, Base
  <2>2. Log!Since(req.repo, rev) = {c \in 1..rev : rev < c + FirstRun}
    BY <1>3 DEF Log!Since
  <2>3. before + 1 .. rev = {c \in 1..rev : rev < c + FirstRun}
    <3>1. CASE rev > FirstRun
      BY <1>1, <3>1
    <3>2. CASE ~(rev > FirstRun)
      BY <1>1, <3>2
    <3>3. QED
      BY <3>1, <3>2
  <2>4. QED
    BY <2>1, <2>2, <2>3
<1>4. QED
  BY <1>2, <1>3

(* A report tells of a gap in WriteReport, findings are recorded by        *)
(* SaveFindings, or there is nothing to find, and the bookmark is advanced *)
(* by MoveBookmark; every other step leaves the log alone, a crash between *)
(* them among these.                                                       *)
LEMMA LogStep ==
    ASSUME IInv, [Next]_vars
    PROVE  [Log!Next]_(Log!log)
<1>1. ASSUME step \in {"review", "report", "save", "move"}, MovesBookmark(req)
      PROVE  /\ req \in Run /\ req.repo \in Repo /\ rev \in 1..MaxCommit
             /\ bookmark[req.repo] < rev /\ Changed = Log!Since(req.repo, rev)
  <2>1. /\ req \in Run /\ req.repo \in Repo /\ rev \in 1..MaxCommit
        /\ bookmark[req.repo] < rev
    BY <1>1 DEF IInv, TypeOK, Executing, AheadOfBookmark, Run
  <2>2. QED
    BY <2>1, ChangedIsSince
<1>2. CASE WriteReport /\ gap # {} /\ MovesBookmark(req)
  <2>1. told' = [told EXCEPT ![req.repo] = @ \cup Changed] /\ UNCHANGED <<bookmark, covered>>
    BY <1>2 DEF WriteReport
  <2>2. Log!Tell(req.repo, rev)
    BY <1>1, <1>2, <2>1 DEF WriteReport, Log!Tell
  <2>3. QED
    BY <1>1, <1>2, <2>2 DEF WriteReport, Log!Next
<1>3. CASE SaveFindings /\ MovesBookmark(req)
  <2>1. /\ covered' = [covered EXCEPT ![req.repo] = @ \cup (Changed \ gap)]
        /\ UNCHANGED <<bookmark, told>>
    BY <1>3 DEF SaveFindings, Cover
  <2> DEFINE gone == gap \cap Changed
  <2>2. gone \in SUBSET Changed /\ Changed \ gone = Changed \ gap
    OBVIOUS
  <2>3. gone # {} => Changed \subseteq told[req.repo]
    <3>1. gap # {} => Changed \subseteq told[req.repo]
      BY <1>3 DEF SaveFindings, IInv, GapIsTold
    <3>2. QED
      BY <3>1
  <2> HIDE DEF gone
  <2>4. Log!Record(req.repo, rev)
    BY <1>1, <1>3, <2>1, <2>2, <2>3 DEF SaveFindings, Log!Record
  <2>5. QED
    BY <1>1, <1>3, <2>4 DEF SaveFindings, Log!Next
<1>4. CASE NothingReviewable /\ MovesBookmark(req)
  <2>1. /\ covered' = [covered EXCEPT ![req.repo] = @ \cup (Changed \ {})]
        /\ UNCHANGED <<bookmark, told>>
    BY <1>4 DEF NothingReviewable, Cover
  <2>2. Log!Record(req.repo, rev)
    BY <1>1, <1>4, <2>1 DEF NothingReviewable, Log!Record
  <2>3. QED
    BY <1>1, <1>4, <2>2 DEF NothingReviewable, Log!Next
<1>5. CASE MoveBookmark /\ MovesBookmark(req)
  <2>1. bookmark' = [bookmark EXCEPT ![req.repo] = rev] /\ UNCHANGED <<covered, told>>
    BY <1>5 DEF MoveBookmark
  <2>2. Changed \subseteq covered[req.repo] \cup told[req.repo]
    BY <1>5 DEF MoveBookmark, IInv, FindingsBeforeBookmark, Accounted
  <2>3. Log!Advance(req.repo, rev)
    BY <1>1, <1>5, <2>1, <2>2 DEF MoveBookmark, Log!Advance
  <2>4. QED
    BY <1>1, <1>5, <2>3 DEF MoveBookmark, Log!Next
<1>6. CASE /\ ~(WriteReport /\ gap # {} /\ MovesBookmark(req))
           /\ ~((SaveFindings \/ NothingReviewable \/ MoveBookmark) /\ MovesBookmark(req))
  <2>1. WriteReport => told' = told
    BY <1>6 DEF WriteReport, IInv, GapIsTold
  
  <2>2. UNCHANGED <<bookmark, covered, told>>
    BY <1>6, <2>1
    DEF Next, Runner, Scheduler, Dashboard, Take, Sleep, Wake, Fetch, NothingNew,
        NothingReviewable, Reviewed, WriteReport, SaveFindings, FinishRun, MoveBookmark, Pop,
        RunFails, SlotDue, SlotQueued, Start, Crash, NightFalls, HourPasses, RunNow, RunTested,
        Push, Cover, store, memory, vars
  <2>3. QED
    BY <2>2 DEF Log!log
<1>7. QED
  BY <1>2, <1>3, <1>4, <1>5, <1>6

(* The queue, the scheduler and all restarts hidden, the store and the     *)
(* reports are a ReviewLog.                                                *)
THEOREM RunsKeepLog == Spec => ImplementsLog
<1>1. Init => Log!Init
  BY DEF Init, Log!Init
<1>2. QED
  BY <1>1, LogStep, IInvAlways, PTL DEF Spec, ImplementsLog, Log!Spec

(* A step of the log leaves no gap: what is told and recorded only grows,  *)
(* and the bookmark moves to the end of what was told or recorded since it *)
(* was there, or, the first time, since FirstRun commits ago.              *)
LEMMA NoGapKept ==
    ASSUME IInv, Log!NoGap, [Log!Next]_(Log!log)
    PROVE  Log!NoGap'
<1> DEFINE From(r, first, last) ==
              first .. last \subseteq Accounted(r) /\ (first = 1 \/ last - first + 1 >= FirstRun)
<1> USE DEF Accounted
<1>1. /\ \A r \in Repo : bookmark[r] \in 0..MaxCommit
      /\ FirstRun \in Nat \ {0} /\ MaxCommit \in Nat
  BY BoundAssumption DEF IInv, TypeOK
<1>2. \A r \in Repo : bookmark[r] # 0 => \E first \in 1..bookmark[r] : From(r, first, bookmark[r])
  BY DEF Log!NoGap
<1>3. CASE UNCHANGED Log!log
  BY <1>2, <1>3 DEF Log!NoGap, Log!log
<1>4. ASSUME NEW s \in Repo, NEW to \in 1..MaxCommit, Log!Tell(s, to) \/ Log!Record(s, to)
      PROVE  Log!NoGap'
  <2>1. /\ bookmark' = bookmark
        /\ \A r \in Repo : covered[r] \subseteq covered'[r] /\ told[r] \subseteq told'[r]
    BY <1>4 DEF Log!Tell, Log!Record, IInv, TypeOK
  <2>2. QED
    BY <1>2, <2>1 DEF Log!NoGap
<1>5. ASSUME NEW s \in Repo, NEW to \in 1..MaxCommit, Log!Advance(s, to)
      PROVE  Log!NoGap'
  <2>1. /\ covered' = covered /\ told' = told
        /\ bookmark[s] < to /\ Log!Since(s, to) \subseteq Accounted(s)
        /\ \A r \in Repo : bookmark'[r] = IF r = s THEN to ELSE bookmark[r]
    BY <1>5 DEF Log!Advance, IInv, TypeOK
  <2>2. \E first \in 1..to : From(s, first, to)
    <3>1. CASE bookmark[s] # 0
      <4>1. PICK first \in 1..bookmark[s] : From(s, first, bookmark[s])
        BY <1>2, <3>1
      <4>2. first \in 1..to /\ (first = 1 \/ to - first + 1 >= FirstRun)
        BY <1>1, <2>1, <4>1
      <4>3. first .. to \subseteq Accounted(s)
        <5>1. bookmark[s] + 1 .. to \subseteq Accounted(s)
          BY <2>1, <3>1 DEF Log!Since
        <5>2. \A c \in first .. to : c \in first .. bookmark[s] \/ c \in bookmark[s] + 1 .. to
          BY <1>1
        <5>3. QED
          BY <4>1, <5>1, <5>2
      <4>4. QED
        BY <4>2, <4>3
    <3>2. CASE bookmark[s] = 0
      <4>1. {c \in 1..to : to < c + FirstRun} \subseteq Accounted(s)
        BY <2>1, <3>2 DEF Log!Since
      <4>2. CASE to <= FirstRun
        <5>1. \A c \in 1..to : to < c + FirstRun
          BY <1>1, <4>2
        <5>2. QED
          BY <4>1, <5>1
      <4>3. CASE to > FirstRun
        <5> DEFINE first == to - FirstRun + 1
        <5>1. first \in 1..to /\ to - first + 1 = FirstRun
          BY <1>1, <4>3
        <5>2. \A c \in first .. to : c \in 1..to /\ to < c + FirstRun
          BY <1>1, <4>3
        <5> HIDE DEF first
        <5>3. QED
          BY <1>1, <4>1, <5>1, <5>2
      <4>4. QED
        BY <1>1, <4>2, <4>3
    <3>3. QED
      BY <3>1, <3>2
  <2>3. \A r \in Repo : bookmark'[r] # 0 =>
           \E first \in 1..bookmark'[r] : From(r, first, bookmark'[r])
    BY <1>2, <2>1, <2>2
  <2>4. QED
    BY <2>1, <2>3 DEF Log!NoGap
<1>6. QED
  BY <1>3, <1>4, <1>5 DEF Log!Next

(* From the first commit a repo's first review looked at to its bookmark,  *)
(* every commit's findings are in the store or a report tells that its     *)
(* range was reviewed in part, in every state, whatever runs failed, gave  *)
(* chunks up, came late or were cut off by a restart.                      *)
THEOREM NothingUntold == Spec => []Log!NoGap
<1>1. Init => Log!NoGap
  BY DEF Init, Log!NoGap
<1>2. QED
  BY <1>1, LogStep, NoGapKept, IInvAlways, PTL DEF Spec

-----------------------------------------------------------------------------
(* The runner never sleeps on a request: whoever queues one while it is    *)
(* asleep, or about to be, leaves a permit in queue_wake, which outlives   *)
(* the moment between the look at the queue and the wait for it.           *)
NoLostWake == started /\ step = "asleep" /\ queue # <<>> => wake

LEMMA NoLostWakeKept ==
    ASSUME IInv, NoLostWake, [Next]_vars
    PROVE  NoLostWake'
<1> USE DEF NoLostWake, IInv, TypeOK
<1>1. ASSUME NEW q \in Run, Enqueue(q), UNCHANGED <<started, step>>
      PROVE  NoLostWake'
  <2>1. CASE Queued(q) \/ Earlier(q) # {}
    <3>1. queue # <<>>
      BY <2>1 DEF Queued, Earlier
    <3> QED
      BY <1>1, <2>1, <3>1 DEF Enqueue
  <2>2. CASE ~Queued(q) /\ Earlier(q) = {}
    BY <1>1, <2>2 DEF Enqueue
  <2> QED
    BY <2>1, <2>2
<1>2. CASE (\E r \in Repo : Dashboard(r)) \/ \E q \in Run : SlotQueued(q)
  <2>1. PICK q \in Run : Enqueue(q) /\ UNCHANGED <<started, step>>
    BY <1>2, Requests, BoundAssumption DEF Dashboard, RunNow, RunTested, SlotQueued, Commit, Kind
  <2> QED
    BY <1>1, <2>1
<1>3. CASE \/ NightFalls \/ HourPasses \/ UNCHANGED vars
           \/ \E r \in Repo : Push(r) \/ SlotDue(r)
  BY <1>3 DEF NightFalls, HourPasses, Push, SlotDue, memory, vars
<1>4. CASE Runner \/ RunFails \/ Start \/ Crash
  BY <1>4 DEF Runner, Take, Sleep, Wake, Fetch, NothingNew, NothingReviewable, Reviewed,
     WriteReport, SaveFindings, FinishRun, MoveBookmark, Pop, RunFails, Start, Crash, Goto
<1> QED
  BY <1>2, <1>3, <1>4 DEF Next, Scheduler

(* A request that was queued is not slept on (lib.rs, enqueue and the      *)
(* runner's wait).                                                         *)
THEOREM NeverSleptOn == Spec => []NoLostWake
<1>1. Init => NoLostWake
  BY DEF Init, NoLostWake
<1> QED
  BY <1>1, NoLostWakeKept, IInvAlways, PTL DEF Spec

=============================================================================
