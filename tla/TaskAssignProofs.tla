-------------------------- MODULE TaskAssignProofs --------------------------
(***************************************************************************)
(* assign() for every list of tasks and every set of machines: the pairs   *)
(* it makes are an assignment.  The list is walked by a recursive          *)
(* function, so the proof is an induction over it; Induct and              *)
(* RecursionExists are what any such proof needs.                          *)
(***************************************************************************)
EXTENDS TaskAssign, FiniteSetTheorems, TLAPS

-----------------------------------------------------------------------------
(* Induction over the natural numbers, for a set rather than a predicate:  *)
(* a least number outside of S would have a predecessor in S.              *)
LEMMA Induct ==
  ASSUME NEW S \in SUBSET Nat, 0 \in S, \A n \in S : n + 1 \in S
  PROVE  S = Nat
<1> DEFINE R == {p \in Nat \X Nat : p[1] < p[2]}
           T == Nat \ S
<1>1. SUFFICES ASSUME T # {}
               PROVE  FALSE
  OBVIOUS
<1>2. PICK x \in T : \A y \in T : <<y, x>> \notin R
  <2>1. IsWellFoundedOn(R, Nat)
    BY NatLessThanWellFounded DEF OpToRel
  <2>2. T \subseteq Nat
    OBVIOUS
  <2> HIDE DEF R, T
  <2> QED
    BY <1>1, <2>1, <2>2, WFMin
<1>3. x \in Nat /\ x # 0 /\ x - 1 \in Nat
  OBVIOUS
<1>4. <<x - 1, x>> \in R
  BY <1>3
<1>5. x - 1 \in S
  BY <1>2, <1>3, <1>4
<1> QED
  BY <1>3, <1>5

(* The same up to a bound, as a walk along a sequence needs it.            *)
LEMMA InductUpTo ==
  ASSUME NEW len \in Nat, NEW S, 0 \in S, \A n \in 1..len : n - 1 \in S => n \in S
  PROVE  0..len \subseteq S
<1> DEFINE T == {n \in Nat : n <= len => n \in S}
<1>1. 0 \in T
  OBVIOUS
<1>2. ASSUME NEW n \in T
      PROVE  n + 1 \in T
  <2>1. n + 1 <= len => n + 1 \in 1..len /\ (n + 1) - 1 = n /\ n \in S
    OBVIOUS
  <2> QED
    BY <2>1
<1>3. T = Nat
  <2> T \in SUBSET Nat
    OBVIOUS
  <2> HIDE DEF T
  <2> QED
    BY <1>1, <1>2, Induct
<1> QED
  BY <1>3

(* A function defined by its value at 0 and a step exists, so that the     *)
(* recursive definition of it is one: what CHOOSE picks satisfies it.      *)
IsRecursion(f, X, zero, len, step) ==
    /\ f \in [0..len -> X]
    /\ f = [n \in 0..len |-> IF n = 0 THEN zero ELSE step[n][f[n - 1]]]

LEMMA RecursionExists ==
  ASSUME NEW X, NEW zero \in X, NEW len \in Nat,
         NEW step \in [1..len -> [X -> X]]
  PROVE  \E f : IsRecursion(f, X, zero, len, step)
<1> DEFINE Upto(n, f) == f = [i \in 0..n |-> IF i = 0 THEN zero ELSE step[i][f[i - 1]]]
           S == {n \in 0..len : \E f \in [0..n -> X] : Upto(n, f)}
<1>1. 0 \in S
  <2> DEFINE f == [i \in 0..0 |-> zero]
  <2>1. 0 \in 0..len /\ f \in [0..0 -> X] /\ Upto(0, f)
    OBVIOUS
  <2> HIDE DEF f, Upto
  <2> QED
    BY <2>1
<1>2. ASSUME NEW n \in 1..len, n - 1 \in S
      PROVE  n \in S
  <2>1. PICK g \in [0..(n - 1) -> X] : Upto(n - 1, g)
    BY <1>2
  <2> DEFINE f == [i \in 0..n |-> IF i = n THEN step[n][g[n - 1]] ELSE g[i]]
  <2>2. step[n][g[n - 1]] \in X /\ g[0] = zero
    BY <2>1
  <2>3. f \in [0..n -> X]
    BY <2>2
  <2>4. ASSUME NEW i \in 0..n
        PROVE  f[i] = IF i = 0 THEN zero ELSE step[i][f[i - 1]]
    <3>1. CASE i = 0
      BY <2>2, <3>1
    <3>2. CASE i = n
      BY <3>2
    <3>3. CASE i \in 1..(n - 1)
      <4>1. i - 1 \in 0..n /\ i - 1 # n /\ i # 0 /\ i # n
        BY <3>3
      <4>2. g[i] = step[i][g[i - 1]]
        BY <2>1, <3>3
      <4> QED
        BY <4>1, <4>2
    <3> QED
      BY <3>1, <3>2, <3>3
  <2>5. n \in 0..len /\ Upto(n, f)
    BY <2>4
  <2> HIDE DEF f, Upto
  <2> QED
    BY <2>3, <2>5
<1>3. 0..len \subseteq S
  <2> HIDE DEF S
  <2> QED
    BY <1>1, <1>2, InductUpTo
<1> QED
  BY <1>3 DEF IsRecursion

-----------------------------------------------------------------------------
(* Machines are ordered by what they can hold and then by their ids.       *)
LEMMA AboveIsTotal ==
  ASSUME NEW k \in Kind, NEW a \in Machine, NEW b \in Machine, NEW c \in Machine
  PROVE  /\ Above(k, a, b) \/ Above(k, b, a)
         /\ Above(k, a, b) /\ Above(k, b, a) => a = b
         /\ Above(k, a, b) /\ Above(k, b, c) => Above(k, a, c)
<1>1. /\ Capacity[a][k] \in Nat /\ Capacity[b][k] \in Nat /\ Capacity[c][k] \in Nat
      /\ a \in Nat /\ b \in Nat /\ c \in Nat
  BY MachineAssumption
<1> QED
  BY <1>1 DEF Above

(* So there is one largest and one smallest at most.                       *)
LEMMA OneLargest ==
  ASSUME NEW k \in Kind, NEW S \in SUBSET Machine
  PROVE  /\ \A m, n \in Largest(k, S) : m = n
         /\ \A m, n \in Smallest(k, S) : m = n
  BY AboveIsTotal DEF Largest, Smallest

(* There is a largest one: induction over the number of machines.          *)
LEMMA SomeLargest ==
  ASSUME NEW k \in Kind, NEW S \in SUBSET Machine, S # {}
  PROVE  Largest(k, S) # {}
<1> DEFINE N == {n \in Nat : \A T \in SUBSET Machine :
                   Cardinality(T) = n /\ T # {} => Largest(k, T) # {}}
<1>1. \A T \in SUBSET Machine : IsFiniteSet(T) /\ Cardinality(T) \in Nat
  BY MachineAssumption, FS_Subset, FS_CardinalityType
<1>2. 0 \in N
  BY <1>1, FS_EmptySet
<1>3. ASSUME NEW n \in N
      PROVE  n + 1 \in N
  <2>1. SUFFICES ASSUME NEW T \in SUBSET Machine, Cardinality(T) = n + 1
                 PROVE  Largest(k, T) # {}
    OBVIOUS
  <2>2. PICK m \in T : TRUE
    <3>1. T # {}
      BY <2>1, FS_EmptySet
    <3> QED
      BY <3>1
  <2> DEFINE rest == T \ {m}
  <2>3. Cardinality(rest) = n
    <3>1. IsFiniteSet(T) /\ m \in T
      BY <1>1
    <3>2. Cardinality(rest) = Cardinality(T) - 1
      BY <3>1, FS_RemoveElement
    <3> QED
      BY <2>1, <3>2
  <2>4. \A a, b \in Machine : Above(k, a, b) \/ Above(k, b, a)
    BY AboveIsTotal
  <2>5. \A a, b, c \in Machine : Above(k, a, b) /\ Above(k, b, c) => Above(k, a, c)
    BY AboveIsTotal
  <2>6. CASE rest = {}
    BY <2>4, <2>6 DEF Largest
  <2>7. CASE rest # {}
    <3>1. PICK x \in rest : \A y \in rest : Above(k, x, y)
      BY <1>3, <2>3, <2>7 DEF Largest
    <3>2. CASE Above(k, x, m)
      BY <3>1, <3>2 DEF Largest
    <3>3. CASE Above(k, m, x)
      <4>1. \A y \in T : Above(k, m, y)
        BY <2>4, <2>5, <3>1, <3>3
      <4> QED
        BY <4>1 DEF Largest
    <3> QED
      BY <2>4, <3>2, <3>3
  <2> QED
    BY <2>6, <2>7
<1>4. N = Nat
  <2> N \in SUBSET Nat
    OBVIOUS
  <2> HIDE DEF N
  <2> QED
    BY <1>2, <1>3, Induct
<1> QED
  BY <1>1, <1>4

(* A task takes one free machine at most, one it fits on; a check takes    *)
(* its finder's model only when no listed machine offers another; and a    *)
(* review waits only when it fits on none.                                 *)
LEMMA ChoiceIsSound ==
  ASSUME NEW t, t.kind \in Kind, NEW listed \in SUBSET Machine, NEW free \in SUBSET listed
  PROVE  /\ Choice(t, listed, free) \subseteq free
         /\ \A m, n \in Choice(t, listed, free) : m = n
         /\ \A m \in Choice(t, listed, free) :
              /\ Fits(t, m)
              /\ t.kind = "check" /\ ModelOf[m] = t.avoid
                   => \A n \in listed : Fits(t, n) => ModelOf[n] = t.avoid
         /\ Choice(t, listed, free) = {} /\ t.kind = "review"
              => \A m \in free : ~Fits(t, m)
<1>1. Suitable(t, listed) \subseteq listed
  BY DEF Suitable
<1>2. \A m \in Suitable(t, listed) :
         /\ Fits(t, m)
         /\ ModelOf[m] = t.avoid => \A n \in listed : Fits(t, n) => ModelOf[n] = t.avoid
  BY DEF Suitable
<1> DEFINE room == {m \in free : Fits(t, m)}
<1>3. "review" \in Kind /\ "check" \in Kind /\ room \in SUBSET Machine
  BY DEF Kind
<1>4. \A k, S : Largest(k, S) \subseteq S /\ Smallest(k, S) \subseteq S
  BY DEF Largest, Smallest
<1>5. CASE t.kind = "review"
  <2>1. Choice(t, listed, free) = Largest("review", room)
    BY <1>5 DEF Choice
  <2>2. Largest("review", room) = {} => room = {}
    BY <1>3, SomeLargest
  <2>3. \A m, n \in Largest("review", room) : m = n
    BY <1>3, OneLargest
  <2>4. Largest("review", room) \subseteq room
    BY <1>4
  <2> HIDE DEF room
  <2>5. room = {m \in free : Fits(t, m)}
    BY DEF room
  <2> QED
    BY <1>5, <2>1, <2>2, <2>3, <2>4, <2>5
<1>6. CASE t.kind = "check" /\ t.large
  <2>1. Choice(t, listed, free) = Largest("check", Suitable(t, listed)) \cap free
    BY <1>6 DEF Choice
  <2> QED
    BY <1>1, <1>2, <1>3, <1>4, <1>6, <2>1, OneLargest
<1>7. CASE t.kind = "check" /\ ~t.large
  <2>1. Choice(t, listed, free) = Smallest("check", Suitable(t, listed) \cap free)
    BY <1>7 DEF Choice
  <2>2. Suitable(t, listed) \cap free \in SUBSET Machine
    OBVIOUS
  <2>3. \A m, n \in Smallest("check", Suitable(t, listed) \cap free) : m = n
    BY <1>3, <2>2, OneLargest
  <2>4. Smallest("check", Suitable(t, listed) \cap free) \subseteq Suitable(t, listed) \cap free
    BY <1>4
  <2> QED
    BY <1>2, <1>7, <2>1, <2>3, <2>4
<1> QED
  BY <1>5, <1>6, <1>7 DEF Kind

-----------------------------------------------------------------------------
(* TaskNeeds as the code makes them: each task is in the list once.        *)
Listed(tasks) ==
    /\ Len(tasks) \in Nat /\ DOMAIN tasks = 1..Len(tasks)
    /\ \A i \in DOMAIN tasks : tasks[i].kind \in Kind
    /\ \A i, j \in DOMAIN tasks : tasks[i].id = tasks[j].id => i = j

(* What the recursive definition of Assign says, as two facts: nothing is  *)
(* handed out before the first task, and each task adds its choice.        *)
Ids(tasks) == {tasks[i].id : i \in DOMAIN tasks}
Taking(t, listed, free, pairs) ==
    pairs \cup {<<t.id, m>> : m \in Choice(t, listed, free \ {p[2] : p \in pairs})}

LEMMA TakingType ==
  ASSUME NEW tasks, Listed(tasks), NEW listed \in SUBSET Machine, NEW free \in SUBSET listed,
         NEW n \in 1..Len(tasks), NEW s \in SUBSET (Ids(tasks) \X free)
  PROVE  Taking(tasks[n], listed, free, s) \in SUBSET (Ids(tasks) \X free)
<1> DEFINE left == free \ {p[2] : p \in s}
<1>1. tasks[n].kind \in Kind /\ tasks[n].id \in Ids(tasks)
  BY DEF Listed, Ids
<1>2. left \in SUBSET listed /\ left \subseteq free
  OBVIOUS
<1> HIDE DEF left
<1>3. Choice(tasks[n], listed, left) \subseteq free
  BY <1>1, <1>2, ChoiceIsSound
<1>4. {<<tasks[n].id, m>> : m \in Choice(tasks[n], listed, left)} \subseteq Ids(tasks) \X free
  BY <1>1, <1>3
<1> QED
  BY <1>4 DEF Taking, left

Walks(f, tasks, listed, free) ==
    /\ f \in [0..Len(tasks) -> SUBSET (Ids(tasks) \X free)]
    /\ Assign(tasks, listed, free) = f[Len(tasks)]
    /\ f[0] = {}
    /\ \A n \in 1..Len(tasks) : f[n] = Taking(tasks[n], listed, free, f[n - 1])

LEMMA AssignSteps ==
  ASSUME NEW tasks, Listed(tasks), NEW listed \in SUBSET Machine, NEW free \in SUBSET listed
  PROVE  \E f : Walks(f, tasks, listed, free)
<1> DEFINE len == Len(tasks)
           X == SUBSET (Ids(tasks) \X free)
           Step(n, s) == Taking(tasks[n], listed, free, s)
           step == [n \in 1..len |-> [s \in X |-> Step(n, s)]]
           IsIt(f) == f = [n \in 0..len |-> IF n = 0 THEN {} ELSE Step(n, f[n - 1])]
           g == CHOOSE f : IsIt(f)
<1>1. len \in Nat /\ {} \in X
  BY DEF Listed
<1>2. \A n \in 1..len, s \in X : Step(n, s) \in X
  BY TakingType
<1>3. Assign(tasks, listed, free) = g[len]
  BY DEF Assign, Taking
<1> HIDE DEF Step, X, len
<1>4. \E f \in [0..len -> X] : IsIt(f)
  <2>1. step \in [1..len -> [X -> X]]
    BY <1>2
  <2> HIDE DEF step
  <2>2. PICK f : IsRecursion(f, X, {}, len, step)
    BY <1>1, <2>1, RecursionExists
  <2>3. ASSUME NEW n \in 1..len
        PROVE  step[n][f[n - 1]] = Step(n, f[n - 1])
    <3>1. n - 1 \in 0..len
      BY <1>1
    <3> QED
      BY <2>2, <3>1 DEF IsRecursion, step
  <2>4. ASSUME NEW n \in 0..len
        PROVE  f[n] = IF n = 0 THEN {} ELSE Step(n, f[n - 1])
    <3>1. n # 0 => n \in 1..len
      BY <1>1
    <3> QED
      BY <2>2, <2>3, <3>1 DEF IsRecursion
  <2>5. IsIt(f) /\ f \in [0..len -> X]
    BY <2>2, <2>4 DEF IsRecursion
  <2> HIDE DEF IsIt
  <2> QED
    BY <2>5
<1>5. IsIt(g)
  BY <1>4
<1> HIDE DEF g
<1>6. g = [n \in 0..len |-> IF n = 0 THEN {} ELSE Step(n, g[n - 1])]
  BY <1>5
<1>7. g[0] = {} /\ \A n \in 1..len : g[n] = Step(n, g[n - 1])
  <2>1. 0 \in 0..len /\ \A n \in 1..len : n \in 0..len /\ n # 0
    BY <1>1
  <2> HIDE DEF Step
  <2> QED
    BY <1>6, <2>1
<1>8. g \in [0..len -> X]
  <2> DEFINE S == {n \in 0..len : g[n] \in X}
  <2>1. 0 \in S
    BY <1>1, <1>7
  <2>2. \A n \in 1..len : n - 1 \in S => n \in S
    BY <1>1, <1>2, <1>7
  <2>3. 0..len \subseteq S
    <3> HIDE DEF S
    <3> QED
      BY <1>1, <2>1, <2>2, InductUpTo
  <2> QED
    BY <1>6, <2>3
<1> QED
  BY <1>3, <1>7, <1>8 DEF Walks, len, X, Step

-----------------------------------------------------------------------------
(* The pairs after the first n tasks: each is a task among them with a     *)
(* machine of its own that suits it, and a review among them that got      *)
(* nothing fits on no machine that is left.                                *)
Taken(s) == {p[2] : p \in s}
Suits(t, m, listed) ==
    /\ Fits(t, m)
    /\ t.kind = "check" /\ ModelOf[m] = t.avoid
         => \A k \in listed : Fits(t, k) => ModelOf[k] = t.avoid
Dealt(n, s, tasks, listed, free) ==
    /\ s \in SUBSET (Ids(tasks) \X free)
    /\ \A p \in s : \E i \in 1..n : p[1] = tasks[i].id
    /\ \A p, q \in s : p[1] = q[1] \/ p[2] = q[2] => p = q
    /\ \A i \in 1..n, m \in free : <<tasks[i].id, m>> \in s => Suits(tasks[i], m, listed)
    /\ \A i \in 1..n : (\A m \in free : <<tasks[i].id, m>> \notin s) /\ tasks[i].kind = "review"
                       => \A m \in free \ Taken(s) : ~Fits(tasks[i], m)

LEMMA DealtNext ==
  ASSUME NEW tasks, Listed(tasks), NEW listed \in SUBSET Machine, NEW free \in SUBSET listed,
         NEW n \in 1..Len(tasks), NEW s, Dealt(n - 1, s, tasks, listed, free)
  PROVE  Dealt(n, Taking(tasks[n], listed, free, s), tasks, listed, free)
<1> DEFINE t == tasks[n]
           left == free \ Taken(s)
           chosen == Choice(t, listed, left)
           new == {<<t.id, m>> : m \in chosen}
           next == Taking(t, listed, free, s)
<1>1. next = s \cup new
  BY DEF Taking, Taken
<1>2. /\ chosen \subseteq left
      /\ \A m, k \in chosen : m = k
      /\ \A m \in chosen : Suits(t, m, listed)
      /\ chosen = {} /\ t.kind = "review" => \A m \in left : ~Fits(t, m)
  <2>1. t.kind \in Kind /\ left \in SUBSET listed
    BY DEF Listed
  <2> HIDE DEF left, t
  <2> QED
    BY <2>1, ChoiceIsSound DEF Suits
<1>3. next \in SUBSET (Ids(tasks) \X free)
  BY TakingType DEF Dealt
(* The task is not among the first n - 1, which have other ids.            *)
<1>4. /\ n \in 1..n /\ n - 1 \in Nat
      /\ \A i \in 1..n : i = n \/ i \in 1..(n - 1)
      /\ \A i \in 1..(n - 1) : i \in 1..n /\ tasks[i].id # t.id
  BY DEF Listed
<1>5. \A p \in s : p[1] # t.id
  BY <1>4 DEF Dealt
<1> HIDE DEF t, next, chosen
<1>6. \A p \in new : p[1] = t.id /\ p[2] \in chosen /\ p = <<t.id, p[2]>>
  OBVIOUS
<1>7. \A m : <<t.id, m>> \in new <=> m \in chosen
  OBVIOUS
<1>8. Taken(next) = Taken(s) \cup chosen
  BY <1>1, <1>6, <1>7 DEF Taken
<1> HIDE DEF new
<1>9. \A p \in next : \E i \in 1..n : p[1] = tasks[i].id
  BY <1>1, <1>4, <1>6 DEF Dealt, t
<1>10. ASSUME NEW p \in next, NEW q \in next, p[1] = q[1] \/ p[2] = q[2]
       PROVE  p = q
  <2>1. CASE p \in s /\ q \in s
    BY <1>10, <2>1 DEF Dealt
  <2>2. CASE p \in new /\ q \in new
    BY <1>2, <1>6, <2>2
  <2>3. ASSUME NEW a \in s, NEW b \in new
        PROVE  a[1] # b[1] /\ a[2] # b[2]
    <3>1. a[2] \in Taken(s) /\ b[2] \notin Taken(s)
      BY <1>2, <1>6 DEF Taken
    <3> QED
      BY <1>5, <1>6, <3>1
  <2> QED
    BY <1>1, <1>10, <2>1, <2>2, <2>3
<1>11. ASSUME NEW i \in 1..n, NEW m \in free, <<tasks[i].id, m>> \in next
       PROVE  Suits(tasks[i], m, listed)
  <2>1. CASE i = n
    <3>1. <<t.id, m>> \in new
      BY <1>1, <1>5, <1>11, <2>1 DEF t
    <3> QED
      BY <1>2, <1>7, <2>1, <3>1 DEF t
  <2>2. CASE i \in 1..(n - 1)
    <3>1. <<tasks[i].id, m>> \in s
      BY <1>1, <1>4, <1>6, <1>11, <2>2
    <3> QED
      BY <2>2, <3>1 DEF Dealt
  <2> QED
    BY <1>4, <2>1, <2>2
<1>12. ASSUME NEW i \in 1..n, \A m \in free : <<tasks[i].id, m>> \notin next,
              tasks[i].kind = "review", NEW m \in free \ Taken(next)
       PROVE  ~Fits(tasks[i], m)
  <2>1. m \in left
    BY <1>8
  <2>2. CASE i = n
    <3>1. chosen = {}
      BY <1>1, <1>2, <1>7, <1>12, <2>2 DEF t
    <3> QED
      BY <1>2, <1>12, <2>1, <2>2, <3>1 DEF t
  <2>3. CASE i \in 1..(n - 1)
    BY <1>1, <1>12, <2>1, <2>3 DEF Dealt
  <2> QED
    BY <1>4, <2>2, <2>3
<1> QED
  BY <1>3, <1>9, <1>10, <1>11, <1>12 DEF Dealt, next, t

(* The pairs are of tasks in the list and of machines that are free.       *)
LEMMA AssignPairs ==
  ASSUME NEW tasks, Listed(tasks), NEW listed \in SUBSET Machine, NEW free \in SUBSET listed
  PROVE  Assign(tasks, listed, free) \in SUBSET (Ids(tasks) \X free)
<1>1. PICK f : Walks(f, tasks, listed, free)
  BY AssignSteps
<1>2. Len(tasks) \in 0..Len(tasks)
  BY DEF Listed
<1> QED
  BY <1>1, <1>2 DEF Walks

(* Whatever tasks wait and whatever machines are listed and free, assign() *)
(* makes an assignment: no machine and no task twice, none where it does   *)
(* not fit, a check off its finder's model where it can be, and no review  *)
(* left that a free machine could take.                                    *)
THEOREM AssignIsAssignment ==
  ASSUME NEW tasks, Listed(tasks), NEW listed \in SUBSET Machine, NEW free \in SUBSET listed
  PROVE  IsAssignment(Assign(tasks, listed, free), tasks, listed, free)
<1>1. PICK f : Walks(f, tasks, listed, free)
  BY AssignSteps
<1> USE DEF Walks
<1> DEFINE len == Len(tasks)
<1>2. len \in Nat /\ DOMAIN tasks = 1..len
  BY DEF Listed
<1> DEFINE S == {n \in 0..len : Dealt(n, f[n], tasks, listed, free)}
<1>3. 0 \in S
  <2>1. Dealt(0, {}, tasks, listed, free)
    BY DEF Dealt
  <2>2. f[0] = {} /\ 0 \in 0..len
    BY <1>1, <1>2
  <2> QED
    BY <2>1, <2>2
<1>4. \A n \in 1..len : n - 1 \in S => n \in S
  BY <1>1, <1>2, DealtNext
<1>5. 0..len \subseteq S
  <2> HIDE DEF S
  <2> QED
    BY <1>2, <1>3, <1>4, InductUpTo
<1> DEFINE pairs == Assign(tasks, listed, free)
<1>6. Dealt(len, pairs, tasks, listed, free)
  BY <1>1, <1>2, <1>5
<1> HIDE DEF pairs
<1>7. pairs \in SUBSET (Ids(tasks) \X free) /\ free \subseteq Machine
  BY <1>6 DEF Dealt
<1>8. \A p, q \in pairs : p # q => p[1] # q[1] /\ p[2] # q[2]
  BY <1>6 DEF Dealt
<1>9. ASSUME NEW i \in 1..len, NEW m \in Machine, <<tasks[i].id, m>> \in pairs
      PROVE  m \in free /\ Suits(tasks[i], m, listed)
  BY <1>6, <1>7, <1>9 DEF Dealt
<1>10. ASSUME NEW i \in 1..len, \A m \in Machine : <<tasks[i].id, m>> \notin pairs,
              tasks[i].kind = "review", NEW m \in free \ Taken(pairs)
       PROVE  ~Fits(tasks[i], m)
  BY <1>6, <1>7, <1>10 DEF Dealt
<1> QED
  BY <1>8, <1>9, <1>10 DEF IsAssignment, Suits, Taken, pairs
=============================================================================
