----------------------------- MODULE MCLlmAgent -----------------------------
(* One agent, two models that can be loaded and one that cannot be found.  *)
(* What the coordinator and the world do is one of a few scenarios, each   *)
(* bounding what of it may happen; the agent's own steps are the same in   *)
(* all of them.                                                            *)
EXTENDS LlmAgent

CONSTANTS a, b, x

VARIABLE scenario

(* Commands that cross and a lost connection; failed pulls and restarts;   *)
(* an unload after a failed pull; requests and cancels beside an unload.   *)
Scenario == {
    [models |-> {a, b}, commands |-> 2, lost |-> 1, trouble |-> 0, requests |-> {}],
    [models |-> {a, x}, commands |-> 1, lost |-> 0, trouble |-> 2, requests |-> {}],
    [models |-> {a}, commands |-> 2, lost |-> 0, trouble |-> 1, requests |-> {}],
    [models |-> {a}, commands |-> 2, lost |-> 0, trouble |-> 0, requests |-> Req]}

Within ==
    /\ \A msg \in inbox : msg.kind \in {"load", "unload"} => msg.model \in scenario.models
    /\ sent <= scenario.commands
    /\ lost <= scenario.lost
    /\ trouble <= scenario.trouble
    /\ \A q \in Req \ scenario.requests : ~Asks(q, "request")

MCInit == Init /\ scenario \in Scenario
MCNext == Next /\ UNCHANGED scenario /\ Within'
MCSpec == MCInit /\ [][MCNext]_<<vars, scenario>> /\ Fairness
=============================================================================
