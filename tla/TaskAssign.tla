----------------------------- MODULE TaskAssign -----------------------------
(***************************************************************************)
(* Handing tasks to machines (codereview/src/assign.rs): each waiting task *)
(* in turn takes one machine that is free and can hold it.  Machines are   *)
(* numbered in the order of their node ids.                                *)
(***************************************************************************)
EXTENDS Naturals, Sequences, FiniteSets

CONSTANTS
    Machine,   \* node ids, as numbers
    ModelOf,   \* the model each machine serves
    Capacity   \* the largest prompt of a kind of task each machine is given

Kind == {"review", "check"}

ASSUME MachineAssumption ==
    /\ Machine \subseteq Nat /\ IsFiniteSet(Machine)
    /\ ModelOf \in [Machine -> Nat]
    /\ Capacity \in [Machine -> [Kind -> Nat]]

(* TaskNeed: id, kind, size, the model a check should not go to and whether *)
(* it goes to the largest machine.                                         *)
Fits(t, m) == Capacity[m][t.kind] >= t.tokens

(* max_by_key and min_by_key on (capacity, node id).                       *)
Above(k, m, n) == \/ Capacity[m][k] > Capacity[n][k]
                  \/ Capacity[m][k] = Capacity[n][k] /\ m >= n
Largest(k, S)  == {m \in S : \A n \in S : Above(k, m, n)}
Smallest(k, S) == {m \in S : \A n \in S : Above(k, n, m)}

Suitable(t, listed) ==
    LET fits  == {m \in listed : Fits(t, m)}
        other == {m \in fits : ModelOf[m] # t.avoid}
    IN IF other = {} THEN fits ELSE other

ChoiceOfFree(t, listed, free) ==
    \* mutant of Choice: another model is asked for among the free machines only
    IF t.kind = "review" THEN Largest("review", {m \in free : Fits(t, m)})
    ELSE IF t.large THEN Largest("check", Suitable(t, free)) \cap free
    ELSE Smallest("check", Suitable(t, free))

(* The machine a task takes, as a set: empty when it waits.                *)
Choice(t, listed, free) ==
    IF t.kind = "review" THEN Largest("review", {m \in free : Fits(t, m)})
    ELSE IF t.large THEN Largest("check", Suitable(t, listed)) \cap free
    ELSE Smallest("check", Suitable(t, listed) \cap free)

(* assign(): the pairs of task and machine; "free" are the listed machines *)
(* that are not busy, resting or occupied by this run.                     *)
Assign(tasks, listed, free) ==
    LET pairs[n \in 0..Len(tasks)] ==
            IF n = 0 THEN {}
            ELSE LET taken == {p[2] : p \in pairs[n - 1]}
                 IN pairs[n - 1] \cup
                    {<<tasks[n].id, m>> : m \in Choice(tasks[n], listed, free \ taken)}
    IN pairs[Len(tasks)]

(* What the pairing promises, whatever the order of the tasks.             *)
IsAssignment(pairs, tasks, listed, free) ==
    LET Given(t) == {m \in Machine : <<t.id, m>> \in pairs}
        left     == free \ {p[2] : p \in pairs}
    IN /\ \A p, q \in pairs : p # q => p[1] # q[1] /\ p[2] # q[2]
       /\ \A i \in 1..Len(tasks) :
            LET t == tasks[i] IN
            /\ \A m \in Given(t) :
                 /\ m \in free /\ Fits(t, m)
                 /\ t.kind = "check" /\ ModelOf[m] = t.avoid
                      => \A n \in listed : Fits(t, n) => ModelOf[n] = t.avoid
            /\ Given(t) = {} /\ t.kind = "review" => \A m \in left : ~Fits(t, m)
=============================================================================
