-------------------------- MODULE MCReviewDispatch --------------------------
(* ReviewDispatch on small scenarios, one of which Init chooses.           *)
EXTENDS ReviewDispatch

VARIABLE scenario

MCMachine  == 1..2
MCModelOf  == <<11, 12>>
MCCapacity == <<[review |-> 1, check |-> 2], [review |-> 2, check |-> 3]>>
MCRotation == <<<<21, 22, 23>>, <<22, 23, 21>>>>
MCTokens   == [t \in Chunks \cup Checks |-> IF t = <<"chunk", 2>> THEN 2 ELSE 1]

(* One chunk or two on two machines, with home commands, drop-outs, a lost *)
(* connection or a question; and the opinions of cloud providers.          *)
None == [chunks |-> 1, opinions |-> 0, findings |-> 0, home |-> 0, gone |-> 0,
         conn |-> 1, timeout |-> 0, asked |-> 0]
Scenario == {
    [None EXCEPT !.chunks = 2, !.findings = 1, !.home = 1],
    [None EXCEPT !.findings = 1, !.gone = 2],
    [None EXCEPT !.chunks = 2, !.conn = 2],
    [None EXCEPT !.findings = 1, !.conn = 3],
    [None EXCEPT !.findings = 1, !.timeout = 1, !.asked = 1],
    [None EXCEPT !.home = 1, !.asked = 1],
    [None EXCEPT !.conn = 2, !.asked = 1],
    [None EXCEPT !.opinions = 2],
    [None EXCEPT !.opinions = 1, !.findings = 1]}

Within ==
    /\ Cardinality({t \in Chunks : tstate[t] # "none"}) <= scenario.chunks
    /\ Cardinality({t \in Opinions : tstate[t] # "none"}) <= scenario.opinions
    /\ Len(checks) <= scenario.findings
    /\ tally.home <= scenario.home /\ tally.gone <= scenario.gone
    /\ tally.timeout <= scenario.timeout /\ tally.asked <= scenario.asked
    /\ IF up THEN conn <= scenario.conn ELSE conn < scenario.conn

MCInit == Init /\ scenario \in Scenario /\ Within
MCNext == Next /\ UNCHANGED scenario /\ Within'
MCSpec == MCInit /\ [][MCNext]_<<vars, scenario>> /\ Fairness
=============================================================================
