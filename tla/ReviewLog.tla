----------------------------- MODULE ReviewLog ------------------------------
(***************************************************************************)
(* What the bookmark of a repo promises, whoever asks for reviews, in what *)
(* order, and whatever fails or restarts between: it only moves forward,   *)
(* and over no commit in silence.  Either the commit's findings are in the *)
(* store, or a report says that its range was reviewed in part only.       *)
(* ReviewRuns implements this.                                             *)
(***************************************************************************)
EXTENDS Naturals

CONSTANTS
    Repo,       \* the repos in the review list
    MaxCommit,  \* bound: commits pushed
    FirstRun    \* how far back the first review goes

VARIABLES
    mark,  \* the last reviewed commit of each repo, 0 when there is none
    seen,  \* the commits whose findings are in the store
    told   \* the commits whose range a report says was reviewed in part

log == <<mark, seen, told>>

Init ==
    /\ mark = [r \in Repo |-> 0]
    /\ seen = [r \in Repo |-> {}]
    /\ told = [r \in Repo |-> {}]

(* The commits a review up to "to" looks at.                               *)
Since(r, to) ==
    IF mark[r] # 0 THEN mark[r] + 1 .. to
    ELSE {c \in 1..to : to < c + FirstRun}

(* A report says that part of the range could not be reviewed.             *)
Tell(r, to) ==
    /\ mark[r] < to
    /\ told' = [told EXCEPT ![r] = @ \cup Since(r, to)]
    /\ UNCHANGED <<mark, seen>>

(* The findings of a review are saved, of all commits but the ones it told *)
(* of; the bookmark may move there later, or never, if the process goes    *)
(* away.                                                                   *)
Record(r, to) ==
    /\ mark[r] < to
    /\ \E gone \in SUBSET Since(r, to) :
          /\ gone # {} => Since(r, to) \subseteq told[r]
          /\ seen' = [seen EXCEPT ![r] = @ \cup (Since(r, to) \ gone)]
    /\ UNCHANGED <<mark, told>>

Advance(r, to) ==
    /\ mark[r] < to
    /\ Since(r, to) \subseteq seen[r] \cup told[r]
    /\ mark' = [mark EXCEPT ![r] = to]
    /\ UNCHANGED <<seen, told>>

Next == \E r \in Repo, to \in 1..MaxCommit :
            Tell(r, to) \/ Record(r, to) \/ Advance(r, to)

Spec == Init /\ [][Next]_log

(* What follows for every implementation: reviewing began at some commit,  *)
(* as far back as the first review goes, and none since has been missed    *)
(* without a report that tells of it.                                      *)
NoGap ==
    \A r \in Repo : mark[r] # 0 =>
        \E first \in 1..mark[r] :
            /\ first .. mark[r] \subseteq seen[r] \cup told[r]
            /\ first = 1 \/ mark[r] - first + 1 >= FirstRun
=============================================================================
