---------------------------- MODULE MCWorkRouter ----------------------------
(* Two machines, the larger one serving the large model, as in the tests   *)
(* of work_router.rs: mac1 (1) with qwen3-coder-30b, beelink1 (2) with     *)
(* qwen2.5:7b.                                                             *)
EXTENDS WorkRouter, TLC

CONSTANTS big, small

MCCand == {[node |-> 1, model |-> big, size |-> 22],
           [node |-> 2, model |-> small, size |-> 5]}
OneMachine == {[node |-> 1, model |-> big, size |-> 22]}

(* Nothing is asked for by name: the router chooses.                       *)
AnyWantModel == [r \in Request |-> AnyModel]
AnyWantNode  == [w \in Work |-> NoNode]

(* The review tasks differ in nothing.                                     *)
WorkSymmetry == Permutations(Work)
=============================================================================
