-------------------------- MODULE WorkClaimsProofs --------------------------
(***************************************************************************)
(* What every implementation of WorkClaims gives its clients.              *)
(***************************************************************************)
EXTENDS WorkClaims, TLAPS

Safe == /\ holder \in [Worker -> SUBSET Claimant] /\ rests \subseteq Worker
        /\ OneClaim /\ RestsUnclaimed

(* A machine never has two claims, and none while it rests: no order of    *)
(* claims, releases and home commands leads there.                         *)
THEOREM ClaimsSafe == Spec => [](OneClaim /\ RestsUnclaimed)
<1>1. Init => Safe
  BY DEF Init, Safe, OneClaim, RestsUnclaimed
<1>2. Safe /\ [Next]_claims => Safe'
  <2> SUFFICES ASSUME Safe, [Next]_claims
               PROVE  Safe'
    OBVIOUS
  <2> USE DEF Safe, OneClaim, RestsUnclaimed
  <2>1. ASSUME NEW m \in Worker, NEW c \in Claimant, Claim(c, m)
        PROVE  Safe'
    BY <2>1 DEF Claim
  <2>2. ASSUME NEW m \in Worker, Release(m)
        PROVE  Safe'
    BY <2>2 DEF Release
  <2>3. ASSUME NEW m \in Worker, PushAside(m)
        PROVE  Safe'
    BY <2>3 DEF PushAside
  <2>4. ASSUME NEW m \in Worker, RestOver(m)
        PROVE  Safe'
    BY <2>4 DEF RestOver
  <2>5. CASE UNCHANGED claims
    BY <2>5 DEF claims
  <2> QED
    BY <2>1, <2>2, <2>3, <2>4, <2>5 DEF Next
<1>3. QED
  BY <1>1, <1>2, PTL DEF Spec, Safe
=============================================================================
