----------------------------- MODULE WorkClaims -----------------------------
(***************************************************************************)
(* What the router promises about review work, whoever asks for it: a      *)
(* machine is claimed by one request at a time and never while it rests,   *)
(* a claim ends with its request or because a home command takes the       *)
(* machine, and then the machine rests.  WorkRouter implements this, and   *)
(* ReviewDispatch assumes no more of its coordinator.                      *)
(***************************************************************************)
EXTENDS FiniteSets

CONSTANTS
    Worker,    \* the nodes that take review work
    Claimant   \* who may have a claim

VARIABLES
    holder,  \* the claimants of each machine
    rests    \* the machines home commands keep for themselves

claims == <<holder, rests>>

Init ==
    /\ holder = [m \in Worker |-> {}]
    /\ rests = {}

(* A request picks the machine: it is free and does not rest.              *)
Claim(c, m) ==
    /\ holder[m] = {} /\ m \notin rests
    /\ holder' = [holder EXCEPT ![m] = {c}]
    /\ rests' = rests

(* The request that holds the machine is over.                             *)
Release(m) ==
    /\ holder[m] # {}
    /\ holder' = [holder EXCEPT ![m] = {}]
    /\ rests' = rests

(* A home command takes the machine from whatever work it has.             *)
PushAside(m) ==
    /\ holder' = [holder EXCEPT ![m] = {}]
    /\ rests' = rests \cup {m}

RestOver(m) ==
    /\ holder' = holder
    /\ rests' = rests \ {m}

Next ==
    \E m \in Worker :
        \/ \E c \in Claimant : Claim(c, m)
        \/ Release(m) \/ PushAside(m) \/ RestOver(m)

(* A claim does not last for ever.                                         *)
Fairness == \A m \in Worker : WF_claims(Release(m))

Spec     == Init /\ [][Next]_claims
FairSpec == Spec /\ Fairness

(* What follows for every implementation.                                  *)
OneClaim ==
    \A m \in Worker : \A c, d \in Claimant : {c, d} \subseteq holder[m] => c = d
RestsUnclaimed == \A m \in rests : holder[m] = {}
=============================================================================
