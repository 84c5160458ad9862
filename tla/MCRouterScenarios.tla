------------------------- MODULE MCRouterScenarios -------------------------
(* WorkRouter on two scenarios, one of which Init chooses: two machines    *)
(* that stay, for a home command and two review tasks that compete; and    *)
(* one whose connection and model come and go, for two home commands and   *)
(* a review task.                                                          *)
EXTENDS MCWorkRouter

CONSTANTS c1, c2   \* the home commands

VARIABLE scenario

TwoMachinesStay ==
    /\ pc'[c2] = "new"
    /\ conn \subseteq conn' /\ ready \subseteq ready'

OneMachineComesAndGoes ==
    /\ conn' \subseteq {1} /\ \A c \in ready' : c.node = 1
    /\ Cardinality({w \in Work : pc'[w] # "new"}) <= 1

MCInit == Init /\ scenario \in {"two stay", "one comes and goes"}
MCNext ==
    /\ Next
    /\ scenario' = scenario
    /\ IF scenario = "two stay" THEN TwoMachinesStay ELSE OneMachineComesAndGoes
MCSpec == MCInit /\ [][MCNext]_<<vars, scenario>>
=============================================================================
