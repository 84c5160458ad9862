----------------------------- MODULE ReviewRuns -----------------------------
(***************************************************************************)
(* The run queue of the code-review capability on mac1 (capabilities/      *)
(* review: lib.rs, run.rs, store.rs, schedule.rs): requests come from the  *)
(* dashboard and from the scheduler, one task runs them one at a time, and *)
(* what a restart must not lose is in the SQLite store.                    *)
(*                                                                         *)
(* A repo's branch is its commits 1, 2, ... in order (no force-pushes); a  *)
(* bookmark of 0 is "never reviewed".  How a run's tasks are handed out is *)
(* not here, only what comes of it: a run fails, or gets findings for all  *)
(* it looked at, or for part of it, the rest given up.                     *)
(***************************************************************************)
EXTENDS Naturals, Sequences, FiniteSets

CONSTANTS
    Repo,        \* the repos in the review list
    MaxCommit,   \* bound: commits pushed
    FirstRun,    \* first_run_commits: how far back the first review goes
    NoRun,       \* no request in hand
    MaxSlot,     \* bound: timeslots that come round
    SweepSlot,   \* the slots that are the weekly sweep's, the others are nightly
    MaxQueue,    \* bound: nothing more is asked for by hand beyond this length
    MaxTrouble,  \* bound: crashes and failed runs together
    Kinds,       \* bound: the kinds of run asked for by hand
    InOrder      \* bound: "up to a commit" asks only go forward

Commit == 1..MaxCommit
Kind == {"nightly", "manual", "sweep", "once", "tested"}

ASSUME BoundAssumption ==
    /\ MaxCommit \in Nat \ {0} /\ MaxSlot \in Nat /\ MaxTrouble \in Nat
    /\ MaxQueue \in Nat \ {0} /\ FirstRun \in Nat \ {0}
    /\ SweepSlot \subseteq 1..MaxSlot
    /\ Kinds \subseteq Kind \ {"nightly"}
    /\ InOrder \in BOOLEAN

(* RunRequest.  "once" is a folder or a branch; only "tested" has a commit. *)
Run == [repo : Repo, kind : Kind, commit : 0..MaxCommit]
Request(r, k, c) == [repo |-> r, kind |-> k, commit |-> c]

ASSUME NoRunAssumption == NoRun \notin Run

VARIABLES
    head,     \* the newest commit of each repo's branch on GitHub
    queue,    \* Inner.queue; the run being executed stays at its front
    wake,     \* queue_wake holds a permit
    started,  \* the first start() of this process is done
    step,     \* where the runner is
    req,      \* the request it cloned, while step is past "idle"
    rev,      \* the commit the run reviews up to
    gap,      \* commits with changes in the chunks the run gave up
    slot,     \* timeslots that have come round
    late,     \* the newest of them came round more than an hour ago
    marked,   \* scheduled runs recorded in the store but not yet queued
    row,      \* store: the runs rows with status "running"
    bookmark, \* store: last_reviewed_commit
    lastSlot, \* store: last_scheduled_at, 0 when there is none
    covered,  \* commits whose findings, if any, are in the store
    told,     \* commits reviewed in part: a report on disk says that chunks
              \* of their run could not be reviewed
    asked,    \* commits an "up to a commit" run was asked for, in all
    trouble   \* crashes and failed runs so far

run    == <<req, rev, gap>>
memory == <<queue, wake, started, step, run, marked>>
store  == <<row, bookmark, lastSlot, covered, told>>
world  == <<head, slot, late, asked>>
vars   == <<memory, store, world, trouble>>

Step == {"idle", "asleep", "fetch", "review", "report", "save", "finish", "move", "pop"}
Executing == step \notin {"idle", "asleep"}

TypeOK ==
    /\ head \in [Repo -> Commit]
    /\ queue \in Seq(Run)
    /\ wake \in BOOLEAN
    /\ started \in BOOLEAN
    /\ step \in Step
    /\ req \in Run \cup {NoRun}
    /\ Executing <=> req # NoRun
    /\ rev \in 0..MaxCommit
    /\ gap \in SUBSET Commit
    /\ slot \in 0..MaxSlot
    /\ late \in BOOLEAN
    /\ marked \in SUBSET Run
    /\ row \in SUBSET Run
    /\ bookmark \in [Repo -> 0..MaxCommit]
    /\ lastSlot \in [Repo -> 0..MaxSlot]
    /\ covered \in [Repo -> SUBSET Commit]
    /\ told \in [Repo -> SUBSET Commit]
    /\ asked \in [Repo -> SUBSET Commit]
    /\ trouble \in 0..MaxTrouble

Init ==
    /\ head = [r \in Repo |-> 1]
    /\ queue = <<>>
    /\ wake = FALSE
    /\ started = FALSE
    /\ step = "asleep"
    /\ req = NoRun
    /\ rev = 0
    /\ gap = {}
    /\ slot = 0
    /\ late = TRUE
    /\ marked = {}
    /\ row = {}
    /\ bookmark = [r \in Repo |-> 0]
    /\ lastSlot = [r \in Repo |-> 0]
    /\ covered = [r \in Repo |-> {}]
    /\ told = [r \in Repo |-> {}]
    /\ asked = [r \in Repo |-> {}]
    /\ trouble = 0

-----------------------------------------------------------------------------
(* Inner::enqueue: a request that is queued is not queued again, a newer   *)
(* "tested" request is written over the one waiting.                       *)

Same(a, b) == a.repo = b.repo /\ a.kind = b.kind
Queued(q)  == \E i \in 1..Len(queue) : queue[i] = q
Earlier(q) == {i \in 1..Len(queue) : q.kind = "tested" /\ Same(queue[i], q)}

EnqueueSilently(q) ==
    IF Queued(q) \/ Earlier(q) # {} THEN UNCHANGED <<queue, wake>>
    ELSE queue' = Append(queue, q) /\ UNCHANGED wake
Enqueue(q) ==
    IF Queued(q) THEN UNCHANGED <<queue, wake>>
    ELSE IF Earlier(q) # {}
      THEN /\ \E i \in Earlier(q) : /\ \A j \in Earlier(q) : i <= j
                                    /\ queue' = [queue EXCEPT ![i] = q]
           /\ UNCHANGED wake
      ELSE /\ queue' = Append(queue, q)
           /\ wake' = TRUE

(* ReviewCommand::RunNow.                                                  *)
RunNow(r, k) ==
    /\ k \in Kinds \ {"tested"}
    /\ Len(queue) < MaxQueue
    /\ Enqueue(Request(r, k, 0))
    /\ UNCHANGED <<started, step, run, marked, store, world, trouble>>

(* The same, up to a commit: all-tests.sh asks once every test passed.     *)
RunTested(r, c) ==
    /\ "tested" \in Kinds
    /\ c <= head[r]
    /\ InOrder => \A d \in asked[r] : d < c
    /\ Len(queue) < MaxQueue
    /\ Enqueue(Request(r, "tested", c))
    /\ asked' = [asked EXCEPT ![r] = @ \cup {c}]
    /\ UNCHANGED <<started, step, run, marked, store, head, slot, late, trouble>>

(* The scheduler, every minute: a slot that has come round since the last  *)
(* scheduled run is recorded, and then its run is queued.  Slots missed    *)
(* while mac1 was off are taken together, and a sweep slot among them wins *)
(* (schedule.rs, due).  For a repo that has had none, only a slot of the   *)
(* last hour counts (slots are an hour apart here, so at most one is).     *)
Due(r) == IF lastSlot[r] # 0 THEN lastSlot[r] + 1 .. slot
          ELSE IF late THEN {} ELSE {slot}
SlotDue(r) ==
    /\ started /\ Due(r) # {}
    /\ \A q \in marked : q.repo # r
    /\ lastSlot' = [lastSlot EXCEPT ![r] = slot]
    /\ LET kind == IF Due(r) \cap SweepSlot # {} THEN "sweep" ELSE "nightly"
       IN  marked' = marked \cup {Request(r, kind, 0)}
    /\ UNCHANGED <<queue, wake, started, step, run, row, bookmark, covered, told,
                   world, trouble>>

SlotQueued(q) ==
    /\ q \in marked
    /\ marked' = marked \ {q}
    /\ Enqueue(q)
    /\ UNCHANGED <<started, step, run, store, world, trouble>>

-----------------------------------------------------------------------------
(* The runner.                                                             *)

Goto(label) == step' = label

TakePopping ==
    /\ started /\ step = "idle" /\ queue # <<>>
    /\ req' = Head(queue)
    /\ row' = row \cup {Head(queue)}
    /\ queue' = Tail(queue)
    /\ Goto("fetch")
    /\ UNCHANGED <<wake, started, rev, gap, marked, bookmark, lastSlot, covered,
                   told, world, trouble>>
Take ==
    /\ started /\ step = "idle" /\ queue # <<>>
    /\ req' = Head(queue)
    /\ row' = row \cup {Head(queue)}
    /\ Goto("fetch")
    /\ UNCHANGED <<queue, wake, started, rev, gap, marked, bookmark, lastSlot,
                   covered, told, world, trouble>>

Sleep ==
    /\ started /\ step = "idle" /\ queue = <<>>
    /\ Goto("asleep")
    /\ UNCHANGED <<queue, wake, started, run, marked, store, world, trouble>>

Wake ==
    /\ started /\ step = "asleep" /\ wake
    /\ wake' = FALSE
    /\ Goto("idle")
    /\ UNCHANGED <<queue, started, run, marked, store, world, trouble>>

MovesBookmark(q) == q.kind \in {"nightly", "manual", "tested"}
Target(q) == IF q.kind = "tested" THEN q.commit
             ELSE IF q.kind = "sweep" /\ bookmark[q.repo] # 0 THEN bookmark[q.repo]
             ELSE head[q.repo]
UnmovedOnlyIfSame == MovesBookmark(req) /\ Target(req) = bookmark[req.repo]
Unmoved == MovesBookmark(req) /\ Target(req) <= bookmark[req.repo]
Base    == IF bookmark[req.repo] # 0 THEN bookmark[req.repo]
           ELSE IF rev > FirstRun THEN rev - FirstRun ELSE 0
ChangedWithBase == Base .. rev
Changed == Base + 1 .. rev

(* execute_inner: the repo is fetched and the commit to review settled.    *)
Fetch ==
    /\ step = "fetch"
    /\ ~Unmoved
    /\ rev' = Target(req)
    /\ Goto("review")
    /\ UNCHANGED <<queue, wake, started, req, gap, marked, store, world, trouble>>

(* "nothing new since the last review".                                    *)
NothingNew ==
    /\ step = "fetch"
    /\ Unmoved
    /\ row' = row \ {req}
    /\ Goto("pop")
    /\ UNCHANGED <<queue, wake, started, run, marked, bookmark, lastSlot, covered,
                   told, world, trouble>>

(* GitHub is away, no machine came free, every chunk was given up, the     *)
(* report cannot be written.                                               *)
RunFails ==
    /\ step \in {"fetch", "review", "report"}
    /\ trouble < MaxTrouble
    /\ trouble' = trouble + 1
    /\ row' = row \ {req}
    /\ gap' = {}
    /\ Goto("pop")
    /\ UNCHANGED <<queue, wake, started, req, rev, marked, bookmark, lastSlot,
                   covered, told, world>>

Cover(commits) ==
    covered' = IF MovesBookmark(req)
                 THEN [covered EXCEPT ![req.repo] = @ \cup commits] ELSE covered

(* "no reviewable files changed": no tasks, no report, no findings; the    *)
(* run's status and the bookmark follow all the same.                      *)
NothingReviewable ==
    /\ step = "review"
    /\ Cover(Changed)
    /\ Goto("finish")
    /\ UNCHANGED <<queue, wake, started, run, marked, row, bookmark, lastSlot, told,
                   world, trouble>>

(* The tasks are done or given up, not all of them: what the chunks given  *)
(* up have of the changes is any part of them.                             *)
Reviewed ==
    /\ step = "review"
    /\ gap' \in SUBSET (IF MovesBookmark(req) THEN Changed ELSE {})
    /\ Goto("report")
    /\ UNCHANGED <<queue, wake, started, req, rev, marked, store, world, trouble>>

(* The report's scope has "k of n chunks could not be reviewed".           *)
WriteReport ==
    /\ step = "report"
    /\ told' = IF gap # {} THEN [told EXCEPT ![req.repo] = @ \cup Changed] ELSE told
    /\ Goto("save")
    /\ UNCHANGED <<queue, wake, started, run, marked, row, bookmark, lastSlot, covered,
                   world, trouble>>

(* Findings, then the run's status, then the bookmark: three statements,   *)
(* no transaction.  The bookmark moves even where chunks were given up.    *)
SaveFindings ==
    /\ step = "save"
    /\ Cover(Changed \ gap)
    /\ gap' = {}
    /\ Goto("finish")
    /\ UNCHANGED <<queue, wake, started, req, rev, marked, row, bookmark, lastSlot, told,
                   world, trouble>>

FinishRun ==
    /\ step = "finish"
    /\ row' = row \ {req}
    /\ Goto("move")
    /\ UNCHANGED <<queue, wake, started, run, marked, bookmark, lastSlot, covered, told,
                   world, trouble>>

MoveToHead ==
    /\ step = "move"
    /\ bookmark' = IF MovesBookmark(req)
                     THEN [bookmark EXCEPT ![req.repo] = head[req.repo]] ELSE bookmark
    /\ Goto("pop")
    /\ UNCHANGED <<queue, wake, started, run, marked, row, lastSlot, covered, told,
                   world, trouble>>
MoveBookmark ==
    /\ step = "move"
    /\ bookmark' = IF MovesBookmark(req)
                     THEN [bookmark EXCEPT ![req.repo] = rev] ELSE bookmark
    /\ Goto("pop")
    /\ UNCHANGED <<queue, wake, started, run, marked, row, lastSlot, covered, told,
                   world, trouble>>

(* queue.pop_front().                                                      *)
Pop ==
    /\ step = "pop"
    /\ queue' = Tail(queue)
    /\ req' = NoRun /\ rev' = 0
    /\ Goto("idle")
    /\ UNCHANGED <<wake, started, gap, marked, store, world, trouble>>

-----------------------------------------------------------------------------
(* start(): the first one of a process takes up what the last one left.    *)
InterruptedScheduled == {q \in row : q.kind \in {"nightly", "sweep"}}
Interrupted == {q \in row : q.kind \in {"nightly", "sweep", "manual"}}
StartLeavingRows ==
    /\ ~started
    /\ started' = TRUE
    /\ Goto("idle")
    /\ wake' = TRUE
    /\ UNCHANGED <<queue, run, marked, store, world, trouble>>
Start ==
    /\ ~started
    /\ started' = TRUE
    /\ \E s \in [1..Cardinality(Interrupted) -> Interrupted] :
          /\ \A q \in Interrupted : \E i \in DOMAIN s : s[i] = q
          /\ queue' = queue \o s
    /\ row' = {}
    /\ Goto("idle")
    /\ wake' = TRUE
    /\ UNCHANGED <<run, marked, bookmark, lastSlot, covered, told, world, trouble>>

(* mac1 restarts: memory is lost.                                          *)
Crash ==
    /\ trouble < MaxTrouble
    /\ trouble' = trouble + 1
    /\ started' = FALSE
    /\ queue' = <<>> /\ wake' = FALSE /\ step' = "asleep" /\ req' = NoRun
    /\ rev' = 0 /\ gap' = {} /\ marked' = {}
    /\ UNCHANGED <<store, world>>

Push(r) ==
    /\ head[r] < MaxCommit
    /\ head' = [head EXCEPT ![r] = @ + 1]
    /\ UNCHANGED <<memory, store, slot, late, asked, trouble>>

NightFalls ==
    /\ slot < MaxSlot
    /\ slot' = slot + 1
    /\ late' = FALSE
    /\ UNCHANGED <<memory, store, head, asked, trouble>>

(* It matters only to a repo that has had no scheduled run.                *)
HourPasses ==
    /\ ~late /\ \E r \in Repo : lastSlot[r] = 0
    /\ late' = TRUE
    /\ UNCHANGED <<memory, store, head, slot, asked, trouble>>

-----------------------------------------------------------------------------
Runner == \/ Take \/ Sleep \/ Wake
          \/ Fetch \/ NothingNew \/ NothingReviewable \/ Reviewed
          \/ WriteReport \/ SaveFindings \/ FinishRun \/ MoveBookmark \/ Pop
Scheduler == (\E r \in Repo : SlotDue(r)) \/ (\E q \in Run : SlotQueued(q))
Dashboard(r) == \/ \E k \in Kind : RunNow(r, k)
                \/ \E c \in Commit : RunTested(r, c)

Next == \/ Runner \/ RunFails \/ Scheduler \/ Start \/ Crash
        \/ NightFalls \/ HourPasses
        \/ \E r \in Repo : Dashboard(r) \/ Push(r)

(* The process is started again, its tasks run, and a review ends (every   *)
(* wait in it has a limit).                                                *)
Fairness == WF_vars(Runner) /\ WF_vars(Start) /\ WF_vars(Scheduler)

Spec == Init /\ [][Next]_vars
FairSpec == Spec /\ Fairness

-----------------------------------------------------------------------------
(* Properties.                                                             *)

(* No commit is passed in silence: when the bookmark moves on, each commit *)
(* it passes has its findings, if any, in the store, or was in the range   *)
(* of a run whose report says "k of n chunks could not be reviewed",       *)
(* wherever between report, findings, status and bookmark restarts and     *)
(* failed runs came before.  (That it has been reviewed would be too much: *)
(* the bookmark moves over chunks that were given up.)                     *)
Accounted(r) == covered[r] \cup told[r]
GapsAreTold ==
    [][\A r \in Repo :
          /\ bookmark[r] # 0 => bookmark[r] + 1 .. bookmark'[r] \subseteq Accounted(r)
          /\ bookmark'[r] # bookmark[r] => bookmark'[r] \in Accounted(r)]_vars

(* A late "up to a commit" run, one that was queued before a newer one     *)
(* finished or is asked for again, never moves the bookmark back.          *)
BookmarkNeverGoesBack ==
    [][\A r \in Repo : bookmark'[r] >= bookmark[r]]_vars

(* Store and reports are a ReviewLog: the run that was checked against the *)
(* bookmark when it was fetched still may move it at the end, for in       *)
(* between only it does, and what it saved or told as given up is all the  *)
(* commits the bookmark passes.                                            *)
Log == INSTANCE ReviewLog WITH mark <- bookmark, seen <- covered, told <- told
ImplementsLog == Log!Spec

(* What the runner pops is what it ran: whatever was queued, replaced or   *)
(* taken up again meanwhile, the run being executed is at the front, or    *)
(* the newer "tested" request that was written over it.                    *)
FrontIsExecuting ==
    Executing => queue # <<>> /\ Same(Head(queue), req)

(* A run's row says "running" only while it runs: after a restart nothing  *)
(* keeps showing a run that nobody executes.                               *)
RowIsExecuting ==
    started => row = IF step \in {"fetch", "review", "report", "save", "finish"}
                       THEN {req} ELSE {}

(* "A slot missed while mac1 was asleep or off still runs, once, when it   *)
(* wakes" (schedule.rs): unless a run fails or mac1 restarts, or a sweep's *)
(* slot takes its place, every commit on the branch when a nightly slot    *)
(* came round gets its turn, and the bookmark passes it.  A nightly run    *)
(* that already has fetched when the slot comes stands in for it.  Not for *)
(* a repo that has had no scheduled run: its first slot is not made up for *)
(* once an hour has passed (a_new_repo_does_not_run_for_yesterdays_slot).  *)
SlotIsReviewed ==
    \A r \in Repo : \A c \in Commit : \A t \in 0..MaxTrouble :
        (/\ lastSlot[r] # 0 /\ Due(r) # {} /\ head[r] >= c /\ trouble = t
         /\ ~(Executing /\ req.repo = r /\ req.kind = "nightly" /\ step # "fetch"))
            ~> (bookmark[r] >= c \/ trouble > t \/ \E w \in SweepSlot : lastSlot[r] >= w)

(* "A run left half-done by a restart is queued again": the commits on the *)
(* branch then get their turn, and the bookmark passes them, unless there  *)
(* is more trouble.                                                        *)
InterruptedRunsAgain ==
    \A r \in Repo : \A c \in Commit : \A t \in 1..MaxTrouble :
        (/\ ~started /\ \E q \in row : q.repo = r /\ q.kind \in {"nightly", "manual"}
         /\ head[r] >= c /\ trouble = t)
            ~> (bookmark[r] >= c \/ trouble > t)

(* "A newer passing commit covers a waiting one's commits too" (lib.rs),   *)
(* "since the newer commit's run covers the older one's commits"           *)
(* (docs/code-review.md): without failures and restarts, every commit that *)
(* passed its tests is reviewed or waits for a run that will cover it.     *)
TestedIsCovered ==
    \A r \in Repo : \A c \in asked[r] :
        \/ trouble > 0
        \/ c <= bookmark[r]
        \/ Executing /\ step # "pop" /\ req.repo = r /\ req.kind = "tested" /\ req.commit >= c
        \/ \E i \in 1..Len(queue) :
              /\ queue[i].repo = r /\ queue[i].kind = "tested" /\ queue[i].commit >= c
              /\ ~(i = 1 /\ Executing)
=============================================================================
