-------------------------- MODULE MCRouterLiveness --------------------------
(* WorkRouter under fair scheduling, a review task beside one home command *)
(* that is either awaited or streamed: Init chooses which is made.         *)
EXTENDS MCWorkRouter

VARIABLE made   \* the home command

Made(r) == r \in Home => r = made

MCInit == Init /\ made \in Home
MCNext ==
    /\ Next
    /\ made' = made
    /\ \A r \in Request : ~Made(r) => pc'[r] = "new"
MCSpec ==
    /\ MCInit /\ [][MCNext]_<<vars, made>>
    /\ AgentFairness /\ \A r \in Request : WF_vars(Made(r) /\ TaskStep(r))
=============================================================================
