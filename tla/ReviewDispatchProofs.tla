------------------------ MODULE ReviewDispatchProofs ------------------------
(***************************************************************************)
(* What a review run promises for any number of tasks, machines, providers *)
(* and mishaps: the coordinator it is checked with keeps the safety half   *)
(* of WorkClaims; tasks, calls and requests agree in every state, so a     *)
(* machine has one task, every hand-out is a sound assignment and the two  *)
(* opinions differ; and a run that ended has dealt with all its tasks.     *)
(***************************************************************************)
EXTENDS ReviewDispatch, TaskAssignProofs, SequenceTheorems, TLAPS

Accepted == {w \in work : w.accepted}

(* A request is a record, and no two accepted ones are on one machine.     *)
Fields == {"from", "node", "conn", "accepted", "awaited"}
IsRequest(w) == /\ w = [f \in Fields |-> w[f]]
                /\ w.from \in Caller /\ w.accepted \in BOOLEAN
OneHeld ==
    /\ \A w \in work : IsRequest(w)
    /\ \A v, w \in Accepted : v.node = w.node /\ v.node \in Machine => v = w

Held(m) == {w.from : w \in {x \in work : x.accepted /\ x.node = m}}

-----------------------------------------------------------------------------
(* Claims under the mapping follow the accepted requests.                  *)
LEMMA HoldersKept ==
  ASSUME \A m \in Machine : Held(m)' = Held(m)
  PROVE  [m \in Machine |-> Held(m)]' = [m \in Machine |-> Held(m)]
  OBVIOUS

(* A withdrawn request keeps its machine: only its answer is not awaited.  *)
LEMMA WithdrawKeeps ==
  ASSUME OneHeld, NEW C, work' = Withdraw(C)
  PROVE  OneHeld' /\ \A m \in Machine : Held(m)' = Held(m)
<1> DEFINE Off(w) == [w EXCEPT !.awaited = @ /\ w.from \notin C]
<1>1. \A w \in work : /\ IsRequest(Off(w))
                      /\ Off(w).from = w.from /\ Off(w).node = w.node
                      /\ Off(w).accepted = w.accepted
  BY DEF OneHeld, IsRequest, Fields
<1>2. work' = {Off(w) : w \in work}
  BY DEF Withdraw
<1> HIDE DEF Off
<1>3. OneHeld'
  BY <1>1, <1>2 DEF OneHeld, Accepted
<1>4. ASSUME NEW m \in Machine
      PROVE  Held(m)' = Held(m)
  BY <1>1, <1>2 DEF Held
<1> QED
  BY <1>3, <1>4

(* A request that is accepted changes in nothing else.                     *)
LEMMA AcceptKeeps ==
  ASSUME NEW w, IsRequest(w)
  PROVE  LET a == [w EXCEPT !.accepted = TRUE] IN
         IsRequest(a) /\ a.accepted /\ a.from = w.from /\ a.node = w.node
  BY DEF IsRequest, Fields

(* The answer to a request, or to all on a machine, takes them out.        *)
LEMMA AnswerTakes ==
  ASSUME OneHeld, NEW gone, NEW o, Answer(gone, o)
  PROVE  OneHeld' /\ work' = work \ gone
  BY DEF Answer, OneHeld, Accepted

(* Each step of the coordinator keeps OneHeld and is one of WorkClaims, or *)
(* leaves the claims alone.                                                *)
LEMMA ClaimStep ==
  ASSUME OneHeld, [Next]_vars
  PROVE  OneHeld' /\ [Claims!Next]_(Claims!claims)
<1> USE RunAssumption DEF mesh
<1> DEFINE Goal == OneHeld' /\ [Claims!Next]_(Claims!claims)
           Hold == [m \in Machine |-> Held(m)]
<1>1. ASSUME OneHeld', \A m \in Machine : Held(m)' = Held(m), home' = home
      PROVE  Goal
  BY <1>1, HoldersKept DEF Claims!claims, Held
<1>2. ASSUME UNCHANGED <<work, home>>
      PROVE  Goal
  BY <1>1, <1>2 DEF OneHeld, Accepted, Held
<1>3. ASSUME NEW c \in Caller, Send(c)
      PROVE  Goal
  <2>1. CASE work' = work
    BY <1>2, <1>3, <2>1 DEF Send
  <2> DEFINE r == [from |-> c, node |-> at[c], conn |-> conn,
                   accepted |-> FALSE, awaited |-> call[c] = "registered"]
  <2>2. CASE work' = work \cup {r}
    <3>1. IsRequest(r) /\ ~r.accepted
      BY DEF IsRequest, Fields
    <3>2. OneHeld' /\ \A m \in Machine : Held(m)' = Held(m)
      BY <2>2, <3>1 DEF OneHeld, Accepted, Held
    <3> QED
      BY <1>1, <1>3, <3>2 DEF Send
  <2> QED
    BY <1>3, <2>1, <2>2 DEF Send
<1>4. ASSUME NEW C, work' = Withdraw(C), home' = home
      PROVE  Goal
  BY <1>1, <1>4, WithdrawKeeps
<1>5. ASSUME Disconnect
      PROVE  Goal
  <2>1. OneHeld' /\ \A m \in Machine : Held(m)' = Held(m)
    BY <1>5 DEF Disconnect, OneHeld, Accepted, Held
  <2> QED
    BY <1>1, <1>5, <2>1 DEF Disconnect
<1>6. ASSUME NEW w \in work, Accept(w)
      PROVE  Goal
  <2> DEFINE a == [w EXCEPT !.accepted = TRUE]
  <2>1. /\ IsRequest(a) /\ a.accepted /\ ~w.accepted
        /\ a.from = w.from /\ a.node = w.node /\ w.from \in Caller
    <3>1. IsRequest(w) /\ ~w.accepted
      BY <1>6 DEF Accept, OneHeld
    <3> QED
      BY <3>1, AcceptKeeps DEF IsRequest
  <2>2. work' = (work \ {w}) \cup {a} /\ home' = home
    BY <1>6 DEF Accept
  <2> HIDE DEF a
  <2>3. w.node \in Machine => w.node \notin home /\ \A v \in Accepted : v.node # w.node
    BY <1>6 DEF Accept, Claimed, Accepted
  <2>4. OneHeld'
    BY <2>1, <2>2, <2>3 DEF OneHeld, Accepted
  <2>5. \A m \in Machine : Held(m)' = IF m = w.node THEN {w.from} ELSE Held(m)
    BY <2>1, <2>2, <2>3 DEF Held, Accepted
  <2>6. CASE w.node \in Machine
    <3>1. Hold' = [Hold EXCEPT ![w.node] = {w.from}]
      BY <2>5, <2>6
    <3>2. Hold[w.node] = {}
      BY <2>3, <2>6 DEF Held, Accepted
    <3>3. Claims!Claim(w.from, w.node)
      BY <2>2, <2>3, <2>6, <3>1, <3>2 DEF Claims!Claim, Held
    <3> QED
      BY <2>1, <2>4, <2>6, <3>3 DEF Claims!Next
  <2>7. CASE w.node \notin Machine
    BY <1>1, <2>2, <2>4, <2>5, <2>7
  <2> QED
    BY <2>6, <2>7
<1>7. ASSUME NEW w \in work, Refuse(w)
      PROVE  Goal
  <2>1. OneHeld' /\ work' = work \ {w} /\ ~w.accepted /\ home' = home
    BY <1>7, AnswerTakes DEF Refuse
  <2>2. \A m \in Machine : Held(m)' = Held(m)
    BY <2>1 DEF Held
  <2> QED
    BY <1>1, <2>1, <2>2
(* Whoever takes all requests off a machine releases it.                   *)
<1>8. ASSUME OneHeld', NEW n, home' = home,
             \A m \in Machine : Held(m)' = IF m = n THEN {} ELSE Held(m)
      PROVE  Goal
  <2>1. CASE n \in Machine /\ Held(n) # {}
    <3>1. Hold' = [Hold EXCEPT ![n] = {}]
      BY <1>8, <2>1
    <3>2. Claims!Release(n)
      BY <1>8, <2>1, <3>1 DEF Claims!Release, Held
    <3> QED
      BY <1>8, <2>1, <3>2 DEF Claims!Next
  <2>2. CASE n \notin Machine \/ Held(n) = {}
    BY <1>1, <1>8, <2>2
  <2> QED
    BY <2>1, <2>2
<1>9. ASSUME NEW w \in work, WorkEnds(w)
      PROVE  Goal
  <2>1. OneHeld' /\ work' = work \ {w} /\ w.accepted /\ home' = home
    BY <1>9, AnswerTakes DEF WorkEnds
  <2>2. \A m \in Machine : Held(m)' = IF m = w.node THEN {} ELSE Held(m)
    BY <2>1 DEF Held, OneHeld, Accepted
  <2> QED
    BY <1>8, <2>1, <2>2
<1>10. ASSUME NEW m \in Machine, HomeCommand(m)
       PROVE  Goal
  <2>1. /\ OneHeld' /\ home' = home \cup {m}
        /\ work' = work \ {w \in work : w.accepted /\ w.node = m}
    BY <1>10, AnswerTakes DEF HomeCommand
  <2>2. \A n \in Machine : Held(n)' = IF n = m THEN {} ELSE Held(n)
    BY <2>1 DEF Held
  <2>3. Hold' = [Hold EXCEPT ![m] = {}]
    BY <2>2
  <2>4. Claims!PushAside(m)
    BY <2>1, <2>3 DEF Claims!PushAside, Held
  <2> QED
    BY <2>1, <2>4 DEF Claims!Next
<1>11. ASSUME NEW m \in Machine, HomeOver(m)
       PROVE  Goal
  <2>1. Hold' = Hold /\ OneHeld'
    BY <1>11 DEF HomeOver, Held, OneHeld, Accepted
  <2>2. Claims!RestOver(m)
    BY <1>11, <2>1 DEF HomeOver, Claims!RestOver, Held
  <2> QED
    BY <2>1, <2>2 DEF Claims!Next
<1>12. ASSUME NEW m \in Machine, DropOut(m)
       PROVE  Goal
  <2>1. /\ OneHeld' /\ home' = home
        /\ work' = work \ {w \in work : w.accepted /\ w.node = m}
    BY <1>12, AnswerTakes DEF DropOut
  <2>2. \A n \in Machine : Held(n)' = IF n = m THEN {} ELSE Held(n)
    BY <2>1 DEF Held
  <2> QED
    BY <1>8, <2>1, <2>2
<1>13. ASSUME \/ Dispatch \/ TimePasses \/ Ask \/ Asker
              \/ \E c \in Caller : Register(c)
              \/ Connect \/ SetTx
              \/ \E m \in Machine : Return(m)
              \/ UNCHANGED vars
       PROVE  Goal
  <2>1. UNCHANGED <<work, home>>
    BY <1>13 DEF Dispatch, Finish, Round, Place, PollTimeout, Result, TimePasses, Ask,
       Asker, AskStart, AskSends, AskGivesUp, AskResult, Register, Connect, SetTx, Return, vars
  <2> QED
    BY <1>2, <2>1
<1>14. ASSUME (\E c \in Caller : Timeout(c)) \/ Drain
       PROVE  Goal
  BY <1>4, <1>14 DEF Timeout, Drain
<1> QED
  BY <1>3, <1>5, <1>6, <1>7, <1>9, <1>10, <1>11, <1>12, <1>13, <1>14 DEF Next

(* The coordinator a run is checked with hands out claims as WorkRouter    *)
(* does: one request to a machine, none while a home command keeps it.     *)
THEOREM CoordinatorKeepsClaims == Init /\ [][Next]_vars => Claims!Spec
<1>1. Init => OneHeld /\ Claims!Init
  BY DEF Init, OneHeld, Accepted, Claims!Init
<1>2. QED
  BY <1>1, ClaimStep, PTL DEF Claims!Spec

-----------------------------------------------------------------------------
(* What Those keeps: the elements of the sequence that are in the set, in  *)
(* a sequence, and none twice that was not there twice.                    *)
Keeping(x, T, s) == IF x \in T THEN Append(s, x) ELSE s
KeepsWalk(f, S, s, T) ==
    /\ f \in [0..Len(s) -> Seq(S)]
    /\ Those(s, T) = f[Len(s)]
    /\ f[0] = <<>>
    /\ \A n \in 1..Len(s) : f[n] = Keeping(s[n], T, f[n - 1])

(* Those is the recursion its definition says it is.                       *)
LEMMA ThoseSteps ==
  ASSUME NEW S, NEW s \in Seq(S), NEW T
  PROVE  \E f : KeepsWalk(f, S, s, T)
<1> DEFINE len == Len(s)
           X == Seq(S)
           Step(n, x) == Keeping(s[n], T, x)
           step == [n \in 1..len |-> [x \in X |-> Step(n, x)]]
           IsIt(f) == f = [n \in 0..len |-> IF n = 0 THEN <<>> ELSE Step(n, f[n - 1])]
           g == CHOOSE f : IsIt(f)
<1>1. len \in Nat /\ <<>> \in X
  OBVIOUS
<1>2. \A n \in 1..len, x \in X : Step(n, x) \in X
  BY DEF Keeping
<1>3. Those(s, T) = g[len]
  BY DEF Those, Keeping
<1> HIDE DEF Step, X, len
<1>4. \E f \in [0..len -> X] : IsIt(f)
  <2>1. step \in [1..len -> [X -> X]]
    BY <1>2
  <2> HIDE DEF step
  <2>2. PICK f : IsRecursion(f, X, <<>>, len, step)
    BY <1>1, <2>1, RecursionExists
  <2>3. ASSUME NEW n \in 1..len
        PROVE  step[n][f[n - 1]] = Step(n, f[n - 1])
    <3>1. n - 1 \in 0..len
      BY <1>1
    <3> QED
      BY <2>2, <3>1 DEF IsRecursion, step
  <2>4. ASSUME NEW n \in 0..len
        PROVE  f[n] = IF n = 0 THEN <<>> ELSE Step(n, f[n - 1])
    <3>1. n # 0 => n \in 1..len
      BY <1>1
    <3> QED
      BY <2>2, <2>3, <3>1 DEF IsRecursion
  <2>5. IsIt(f) /\ f \in [0..len -> X]
    BY <2>2, <2>4 DEF IsRecursion
  <2> HIDE DEF IsIt
  <2> QED
    BY <2>5
<1>5. IsIt(g)
  BY <1>4
<1> HIDE DEF g
<1>6. g = [n \in 0..len |-> IF n = 0 THEN <<>> ELSE Step(n, g[n - 1])]
  BY <1>5
<1>7. g[0] = <<>> /\ \A n \in 1..len : g[n] = Step(n, g[n - 1])
  BY <1>1, <1>6
<1>8. g \in [0..len -> X]
  <2> DEFINE A == {n \in 0..len : g[n] \in X}
  <2>1. 0 \in A
    BY <1>1, <1>7
  <2>2. \A n \in 1..len : n - 1 \in A => n \in A
    BY <1>1, <1>2, <1>7
  <2>3. 0..len \subseteq A
    <3> HIDE DEF A
    <3> QED
      BY <1>1, <2>1, <2>2, InductUpTo
  <2> QED
    BY <1>6, <2>3
<1> QED
  BY <1>3, <1>7, <1>8 DEF KeepsWalk, len, X, Step

(* Kept(n, r): r are the ones in T of the first n of s.                    *)
Kept(n, r, S, s, T) ==
    /\ r \in Seq(S)
    /\ \A i \in 1..Len(r) : r[i] \in T /\ \E j \in 1..n : r[i] = s[j]
    /\ \A j \in 1..n : s[j] \in T => \E i \in 1..Len(r) : r[i] = s[j]
    /\ IsInjective(s) => IsInjective(r)

(* One more element of the sequence is looked at.                          *)
LEMMA KeptNext ==
  ASSUME NEW S, NEW s \in Seq(S), NEW T, NEW n \in 1..Len(s),
         NEW r, Kept(n - 1, r, S, s, T)
  PROVE  Kept(n, Keeping(s[n], T, r), S, s, T)
<1>1. /\ r \in Seq(S) /\ Len(r) \in Nat /\ s[n] \in S
      /\ \A j \in 1..n : j = n \/ j \in 1..(n - 1)
      /\ \A j \in 1..(n - 1) : j \in 1..n /\ j \in 1..Len(s) /\ j # n
  BY DEF Kept
<1>2. CASE s[n] \notin T
  BY <1>1, <1>2 DEF Kept, Keeping
<1>3. CASE s[n] \in T
  <2> DEFINE k == Append(r, s[n])
  <2>1. /\ k \in Seq(S) /\ Len(k) = Len(r) + 1 /\ k[Len(r) + 1] = s[n]
        /\ \A i \in 1..Len(r) : k[i] = r[i]
    BY <1>1
  <2>2. Keeping(s[n], T, r) = k
    BY <1>3 DEF Keeping
  <2> HIDE DEF k
  <2>3. /\ \A i \in 1..Len(k) : i \in 1..Len(r) \/ i = Len(r) + 1
        /\ \A i \in 1..Len(r) : i \in 1..Len(k)
        /\ Len(r) + 1 \in 1..Len(k)
        /\ DOMAIN k = 1..Len(k) /\ DOMAIN r = 1..Len(r) /\ DOMAIN s = 1..Len(s)
    BY <1>1, <2>1
  <2>4. \A i \in 1..Len(k) : k[i] \in T /\ \E j \in 1..n : k[i] = s[j]
    BY <1>1, <1>3, <2>1, <2>3 DEF Kept
  <2>5. \A j \in 1..n : s[j] \in T => \E i \in 1..Len(k) : k[i] = s[j]
    BY <1>1, <2>1, <2>3 DEF Kept
  <2>6. ASSUME IsInjective(s)
        PROVE  IsInjective(k)
    <3>1. \A i \in 1..Len(r) : r[i] # s[n]
      BY <1>1, <2>3, <2>6 DEF Kept, IsInjective
    <3>2. IsInjective(r)
      BY <2>6 DEF Kept
    <3> QED
      BY <2>1, <2>3, <3>1, <3>2 DEF IsInjective
  <2> QED
    BY <2>1, <2>2, <2>4, <2>5, <2>6 DEF Kept
<1> QED
  BY <1>2, <1>3

(* What Those returns: the elements that are in the set, no one twice that *)
(* was not there twice.                                                    *)
LEMMA ThoseKeeps ==
  ASSUME NEW S, NEW s \in Seq(S), NEW T
  PROVE  /\ Those(s, T) \in Seq(S)
         /\ ToSet(Those(s, T)) = ToSet(s) \cap T
         /\ IsInjective(s) => IsInjective(Those(s, T))
<1>1. PICK f : KeepsWalk(f, S, s, T)
  BY ThoseSteps
<1> DEFINE len == Len(s)
           A == {n \in 0..len : Kept(n, f[n], S, s, T)}
<1>2. len \in Nat /\ 0 \in 0..len
  OBVIOUS
<1>3. 0 \in A
  <2>1. Kept(0, <<>>, S, s, T)
    BY DEF Kept, IsInjective
  <2> QED
    BY <1>1, <1>2, <2>1 DEF KeepsWalk
<1>4. \A n \in 1..len : n - 1 \in A => n \in A
  BY <1>1, <1>2, KeptNext DEF KeepsWalk
<1>5. 0..len \subseteq A
  <2> HIDE DEF A
  <2> QED
    BY <1>2, <1>3, <1>4, InductUpTo
<1>6. Kept(len, Those(s, T), S, s, T)
  BY <1>1, <1>2, <1>5 DEF KeepsWalk
<1> DEFINE r == Those(s, T)
<1> HIDE DEF r
<1>7. r \in Seq(S) /\ DOMAIN r = 1..Len(r) /\ DOMAIN s = 1..len
  BY <1>6 DEF Kept, r
<1>8. ToSet(r) = ToSet(s) \cap T
  <2>1. \A i \in DOMAIN r : r[i] \in T /\ \E j \in DOMAIN s : r[i] = s[j]
    BY <1>6, <1>7 DEF Kept, r
  <2>2. \A j \in DOMAIN s : s[j] \in T => \E i \in DOMAIN r : r[i] = s[j]
    BY <1>6, <1>7 DEF Kept, r
  <2> QED
    BY <2>1, <2>2 DEF ToSet
<1> QED
  BY <1>6, <1>7, <1>8 DEF Kept, r

-----------------------------------------------------------------------------
(* What Sent gives out: pending opinions, each a provider of its own that  *)
(* no review has gone to.                                                  *)
Sending(k, pairs) ==
    LET t == <<"opinion", k>> IN
    pairs \cup {<<t, p>> : p \in IF t \in Pending
                                THEN Turn(t, used \cup {q[2] : q \in pairs}) ELSE {}}
Going == Opinions \X Provider
SentWalk(f) ==
    /\ f \in [0..NOpinion -> SUBSET Going]
    /\ Sent = f[NOpinion]
    /\ f[0] = {}
    /\ \A k \in 1..NOpinion : f[k] = Sending(k, f[k - 1])

(* The next provider of an opinion is one that none has gone to, and one.  *)
LEMMA TurnIsNew ==
  ASSUME NEW t \in Opinions, queue[t] \in Seq(Provider), NEW gone
  PROVE  /\ Turn(t, gone) \subseteq Provider \ gone
         /\ \A p, q \in Turn(t, gone) : p = q
<1>1. /\ DOMAIN queue[t] = 1..Len(queue[t]) /\ Len(queue[t]) \in Nat
      /\ \A i \in DOMAIN queue[t] : queue[t][i] \in Provider
  OBVIOUS
<1>2. Turn(t, gone) \subseteq Provider \ gone
  BY <1>1 DEF Turn
<1>3. ASSUME NEW i \in DOMAIN queue[t], NEW j \in DOMAIN queue[t],
             queue[t][i] \notin gone, \A h \in 1..(i - 1) : queue[t][h] \in gone,
             queue[t][j] \notin gone, \A h \in 1..(j - 1) : queue[t][h] \in gone
      PROVE  i = j
  <2>1. ~(i \in 1..(j - 1)) /\ ~(j \in 1..(i - 1))
    BY <1>3
  <2> QED
    BY <1>1, <2>1
<1>4. \A p, q \in Turn(t, gone) : p = q
  BY <1>3 DEF Turn
<1> QED
  BY <1>2, <1>4

(* One step of Sent adds pairs of an opinion and a provider.               *)
LEMMA SendingType ==
  ASSUME queue \in [Opinions -> Seq(Provider)], NEW k \in 1..NOpinion, NEW s \in SUBSET Going
  PROVE  Sending(k, s) \in SUBSET Going
<1> DEFINE t == <<"opinion", k>>
           gone == used \cup {q[2] : q \in s}
           turn == Turn(t, gone)
<1>1. t \in Opinions /\ queue[t] \in Seq(Provider)
  BY DEF Opinions
<1>2. turn \subseteq Provider
  <2> HIDE DEF t, gone
  <2> QED
    BY <1>1, TurnIsNew
<1>3. Sending(k, s) \subseteq s \cup {<<t, p>> : p \in turn}
  BY DEF Sending
<1> HIDE DEF t, turn
<1> QED
  BY <1>1, <1>2, <1>3 DEF Going

(* Sent is the recursion its definition says it is.                        *)
LEMMA SentSteps ==
  ASSUME queue \in [Opinions -> Seq(Provider)]
  PROVE  \E f : SentWalk(f)
<1> DEFINE X == SUBSET Going
           step == [k \in 1..NOpinion |-> [s \in X |-> Sending(k, s)]]
           IsIt(f) == f = [k \in 0..NOpinion |-> IF k = 0 THEN {} ELSE Sending(k, f[k - 1])]
           g == CHOOSE f : IsIt(f)
<1>1. NOpinion \in Nat /\ {} \in X
  BY RunAssumption
<1>2. \A k \in 1..NOpinion, s \in X : Sending(k, s) \in X
  BY SendingType
<1>3. Sent = g[NOpinion]
  BY DEF Sent, Sending
<1> HIDE DEF X
<1>4. \E f \in [0..NOpinion -> X] : IsIt(f)
  <2>1. step \in [1..NOpinion -> [X -> X]]
    BY <1>2
  <2> HIDE DEF step
  <2>2. PICK f : IsRecursion(f, X, {}, NOpinion, step)
    BY <1>1, <2>1, RecursionExists
  <2>3. ASSUME NEW k \in 1..NOpinion
        PROVE  step[k][f[k - 1]] = Sending(k, f[k - 1])
    <3>1. k - 1 \in 0..NOpinion
      BY <1>1
    <3> QED
      BY <2>2, <3>1 DEF IsRecursion, step
  <2>4. ASSUME NEW k \in 0..NOpinion
        PROVE  f[k] = IF k = 0 THEN {} ELSE Sending(k, f[k - 1])
    <3>1. k # 0 => k \in 1..NOpinion
      BY <1>1
    <3> QED
      BY <2>2, <2>3, <3>1 DEF IsRecursion
  <2>5. IsIt(f) /\ f \in [0..NOpinion -> X]
    BY <2>2, <2>4 DEF IsRecursion
  <2> HIDE DEF IsIt
  <2> QED
    BY <2>5
<1>5. IsIt(g)
  BY <1>4
<1> HIDE DEF g
<1>6. g = [k \in 0..NOpinion |-> IF k = 0 THEN {} ELSE Sending(k, g[k - 1])]
  BY <1>5
<1> HIDE DEF IsIt, step
<1>7. g[0] = {} /\ \A k \in 1..NOpinion : g[k] = Sending(k, g[k - 1])
  <2>1. 0 \in 0..NOpinion /\ \A k \in 1..NOpinion : k \in 0..NOpinion /\ k # 0
    BY <1>1
  <2> QED
    BY <1>6, <2>1
<1>8. g \in [0..NOpinion -> X]
  <2> DEFINE A == {n \in 0..NOpinion : g[n] \in X}
  <2>1. 0 \in A
    <3>1. 0 \in 0..NOpinion
      BY <1>1
    <3> QED
      BY <1>1, <1>7, <3>1
  <2>2. \A n \in 1..NOpinion : n - 1 \in A => n \in A
    BY <1>1, <1>2, <1>7
  <2>3. 0..NOpinion \subseteq A
    <3> HIDE DEF A
    <3> QED
      BY <1>1, <2>1, <2>2, InductUpTo
  <2> QED
    BY <1>6, <2>3
<1> QED
  BY <1>3, <1>7, <1>8 DEF SentWalk, X

GoneTo(k, s) ==
    /\ s \in SUBSET Going
    /\ \A a \in s : /\ a[1] \in Pending /\ a[2] \notin used
                   /\ \E j \in 1..k : a[1] = <<"opinion", j>>
    /\ \A a, b \in s : a[1] = b[1] \/ a[2] = b[2] => a = b

(* The next opinion goes to a provider the ones before it do not go to.    *)
LEMMA GoneToNext ==
  ASSUME queue \in [Opinions -> Seq(Provider)], NEW k \in 1..NOpinion,
         NEW s, GoneTo(k - 1, s)
  PROVE  GoneTo(k, Sending(k, s))
<1> DEFINE t == <<"opinion", k>>
           gone == used \cup {q[2] : q \in s}
           turn == Turn(t, gone)
           new == {<<t, p>> : p \in IF t \in Pending THEN turn ELSE {}}
<1>1. t \in Opinions /\ queue[t] \in Seq(Provider) /\ NOpinion \in Nat
  BY RunAssumption DEF Opinions
<1>2. turn \subseteq Provider \ gone /\ \A p, q \in turn : p = q
  <2> HIDE DEF t, gone
  <2> QED
    BY <1>1, TurnIsNew
<1>3. Sending(k, s) = s \cup new
  BY DEF Sending
<1>4. Sending(k, s) \in SUBSET Going
  BY SendingType DEF GoneTo
<1>5. \A j \in 1..(k - 1) : j \in 1..k /\ <<"opinion", j>> # t
  BY <1>1
<1>6. \A a \in s : a[1] # t /\ a[2] \in gone
  BY <1>5 DEF GoneTo
<1>7. k \in 1..k
  BY <1>1
<1> HIDE DEF turn
<1>8. \A a \in new : a[1] = t /\ a[2] \in turn /\ a[1] \in Pending /\ a = <<a[1], a[2]>>
  OBVIOUS
<1> HIDE DEF new
<1>9. \A a \in s \cup new : /\ a[1] \in Pending /\ a[2] \notin used
                           /\ \E j \in 1..k : a[1] = <<"opinion", j>>
  BY <1>2, <1>5, <1>7, <1>8 DEF GoneTo
<1> HIDE DEF t, gone
<1>10. ASSUME NEW a \in s \cup new, NEW b \in s \cup new, a[1] = b[1] \/ a[2] = b[2]
       PROVE  a = b
  <2>1. CASE a \in s /\ b \in s
    BY <1>10, <2>1 DEF GoneTo
  <2>2. CASE a \in new /\ b \in new
    BY <1>2, <1>8, <2>2
  <2>3. \A c \in s, d \in new : c[1] # d[1] /\ c[2] # d[2]
    BY <1>2, <1>6, <1>8
  <2> QED
    BY <1>10, <2>1, <2>2, <2>3
<1> QED
  BY <1>3, <1>4, <1>9, <1>10 DEF GoneTo

(* Opinions go out to providers that none has gone to, each to its own.     *)
LEMMA SentIsFresh ==
  ASSUME queue \in [Opinions -> Seq(Provider)]
  PROVE  /\ Sent \in SUBSET (Opinions \X Provider)
         /\ \A a \in Sent : a[1] \in Pending /\ a[2] \notin used
         /\ \A a, b \in Sent : a[1] = b[1] \/ a[2] = b[2] => a = b
<1>1. PICK f : SentWalk(f)
  BY SentSteps
<1> DEFINE A == {k \in 0..NOpinion : GoneTo(k, f[k])}
<1>2. NOpinion \in Nat /\ 0 \in 0..NOpinion
  BY RunAssumption
<1>3. 0 \in A
  <2>1. GoneTo(0, {})
    BY DEF GoneTo
  <2> QED
    BY <1>1, <1>2, <2>1 DEF SentWalk
<1>4. \A k \in 1..NOpinion : k - 1 \in A => k \in A
  BY <1>1, <1>2, GoneToNext DEF SentWalk
<1>5. 0..NOpinion \subseteq A
  <2> HIDE DEF A
  <2> QED
    BY <1>2, <1>3, <1>4, InductUpTo
<1>6. GoneTo(NOpinion, Sent)
  BY <1>1, <1>2, <1>5 DEF SentWalk
<1> QED
  BY <1>6 DEF GoneTo, Going
-----------------------------------------------------------------------------
(* The needs of the pending tasks: each task once, and none that is not    *)
(* pending.                                                                *)
LEMMA MeshTasksOnce ==
  ASSUME checks \in Seq(1..NFinding), IsInjective(checks)
  PROVE  MeshTasks \in Seq(Chunks \cup Checks) /\ IsInjective(MeshTasks)
<1> DEFINE S == Chunks \cup Checks
           a == [n \in 1..NChunk |-> <<"chunk", n>>]
           b == [i \in 1..Len(checks) |-> <<"check", checks[i]>>]
<1>1. NChunk \in Nat /\ Len(checks) \in Nat /\ DOMAIN checks = 1..Len(checks)
  BY RunAssumption
<1>2. a \in Seq(S) /\ Len(a) = NChunk
  <2>1. \A n \in 1..NChunk : <<"chunk", n>> \in S
    BY DEF Chunks
  <2> QED
    BY <1>1, <2>1
<1>3. b \in Seq(S) /\ Len(b) = Len(checks)
  <2>1. \A i \in 1..Len(checks) : checks[i] \in 1..NFinding
    BY ElementOfSeq
  <2>2. \A f \in 1..NFinding : <<"check", f>> \in S
    BY DEF Checks
  <2>3. \A i \in 1..Len(checks) : <<"check", checks[i]>> \in S
    BY <2>1, <2>2
  <2> QED
    BY <1>1, <2>3
<1> DEFINE ab == a \o b
<1>4. /\ ab \in Seq(S) /\ Len(ab) = NChunk + Len(checks)
      /\ \A i \in 1..(NChunk + Len(checks)) :
            ab[i] = IF i <= NChunk THEN a[i] ELSE b[i - NChunk]
  <2> HIDE DEF a, b, S
  <2>1. /\ ab \in Seq(S) /\ Len(ab) = Len(a) + Len(b)
        /\ \A i \in 1..(Len(a) + Len(b)) :
              ab[i] = IF i <= Len(a) THEN a[i] ELSE b[i - Len(a)]
    BY <1>2, <1>3, ConcatProperties
  <2> QED
    BY <1>2, <1>3, <2>1
<1> HIDE DEF ab
<1>5. ASSUME NEW i \in 1..(NChunk + Len(checks))
      PROVE  \/ i \in 1..NChunk /\ ab[i][1] = "chunk" /\ ab[i][2] = i
             \/ /\ i - NChunk \in 1..Len(checks)
                /\ ab[i][1] = "check" /\ ab[i][2] = checks[i - NChunk]
  <2>1. CASE i <= NChunk
    <3>1. i \in 1..NChunk
      BY <1>1, <2>1
    <3>2. a[i] = <<"chunk", i>>
      BY <3>1
    <3>3. ab[i] = a[i]
      BY <1>4, <2>1
    <3> HIDE DEF a
    <3> QED
      BY <3>1, <3>2, <3>3
  <2>2. CASE ~(i <= NChunk)
    <3>1. i - NChunk \in 1..Len(checks)
      BY <1>1, <2>2
    <3>2. b[i - NChunk] = <<"check", checks[i - NChunk]>>
      BY <3>1
    <3>3. ab[i] = b[i - NChunk]
      BY <1>4, <2>2
    <3> HIDE DEF b
    <3> QED
      BY <3>1, <3>2, <3>3
  <2> QED
    BY <2>1, <2>2
<1> HIDE DEF a, b, S
<1>6. ASSUME NEW i \in 1..(NChunk + Len(checks)), NEW j \in 1..(NChunk + Len(checks)),
             ab[i] = ab[j]
      PROVE  i = j
  <2>1. CASE i \in 1..NChunk /\ ab[i][1] = "chunk" /\ ab[i][2] = i
    BY <1>5, <1>6, <2>1
  <2>2. CASE /\ i - NChunk \in 1..Len(checks)
             /\ ab[i][1] = "check" /\ ab[i][2] = checks[i - NChunk]
    <3>1. /\ j - NChunk \in 1..Len(checks)
          /\ checks[i - NChunk] = checks[j - NChunk]
      BY <1>5, <1>6, <2>2
    <3>2. i - NChunk = j - NChunk
      BY <1>1, <2>2, <3>1 DEF IsInjective
    <3> QED
      BY <1>1, <3>2
  <2> QED
    BY <1>5, <2>1, <2>2
<1>7. DOMAIN ab = 1..(NChunk + Len(checks))
  BY <1>4
<1>8. IsInjective(ab)
  BY <1>6, <1>7 DEF IsInjective
<1> QED
  BY <1>4, <1>8 DEF MeshTasks, ab, a, b, S

(* The list assign() is given names each waiting task once.                *)
LEMMA NeedsListed ==
  ASSUME checks \in Seq(1..NFinding), IsInjective(checks)
  PROVE  Listed(Needs) /\ Ids(Needs) \subseteq Pending \cap (Chunks \cup Checks)
<1> DEFINE waits == Those(MeshTasks, Pending)
<1>1. /\ waits \in Seq(Chunks \cup Checks)
      /\ ToSet(waits) = ToSet(MeshTasks) \cap Pending
      /\ IsInjective(waits)
  BY MeshTasksOnce, ThoseKeeps
<1>2. Needs = [i \in 1..Len(waits) |-> Need(waits[i])]
  BY DEF Needs
<1> HIDE DEF waits
<1>3. /\ Len(waits) \in Nat /\ DOMAIN waits = 1..Len(waits)
      /\ \A i \in DOMAIN waits : waits[i] \in Pending \cap (Chunks \cup Checks)
  BY <1>1 DEF ToSet
<1>4. Len(Needs) = Len(waits) /\ DOMAIN Needs = DOMAIN waits
  BY <1>2, <1>3
<1>5. \A i \in DOMAIN waits : Needs[i].id = waits[i] /\ Needs[i].kind \in Kind
  BY <1>2, <1>3 DEF Need, Kind
<1>6. Listed(Needs)
  BY <1>1, <1>3, <1>4, <1>5 DEF Listed, IsInjective
<1>7. Ids(Needs) \subseteq Pending \cap (Chunks \cup Checks)
  BY <1>3, <1>4, <1>5 DEF Ids
<1> QED
  BY <1>6, <1>7

(* What assign() gives out of them: pending tasks of the mesh, each a free *)
(* machine of its own.                                                     *)
LEMMA PlacedApart ==
  ASSUME checks \in Seq(1..NFinding), IsInjective(checks), listed \subseteq Machine
  PROVE  LET pairs == Assign(Needs, Known, Free \ Occupied) IN
         /\ pairs \in SUBSET ((Pending \cap (Chunks \cup Checks)) \X (Machine \ Occupied))
         /\ \A p, q \in pairs : p[1] = q[1] \/ p[2] = q[2] => p = q
<1> DEFINE free == Free \ Occupied
           pairs == Assign(Needs, Known, free)
<1>1. Known \in SUBSET Machine /\ free \in SUBSET Known
  BY DEF Known, Free
<1>2. Listed(Needs) /\ Ids(Needs) \subseteq Pending \cap (Chunks \cup Checks)
  BY NeedsListed
<1>3. free \subseteq Machine \ Occupied
  BY <1>1
<1> HIDE DEF free
<1>4. pairs \in SUBSET (Ids(Needs) \X free)
  BY <1>1, <1>2, AssignPairs
<1>5. IsAssignment(pairs, Needs, Known, free)
  BY <1>1, <1>2, AssignIsAssignment
<1>6. pairs \in SUBSET ((Pending \cap (Chunks \cup Checks)) \X (Machine \ Occupied))
  BY <1>2, <1>3, <1>4
<1>7. \A p, q \in pairs : p[1] = q[1] \/ p[2] = q[2] => p = q
  BY <1>5 DEF IsAssignment
<1> QED
  BY <1>6, <1>7 DEF free

-----------------------------------------------------------------------------
(* The invariant in parts: the run, the calls, and the rest.               *)
TaskState == {"none", "pending", "running", "done", "gaveup"}
CallState == {"none"} \cup Calling \cup Outcome

RunTypes ==
    /\ loop \in {"top", "snapshot", "wait", "done", "failed"}
    /\ had \in BOOLEAN /\ quiet \in BOOLEAN
    /\ tstate \in [Task -> TaskState]
    /\ attempts \in [Task -> 0..(MaxPaused + MaxFailed)]
    /\ queue \in [Opinions -> Seq(Provider)]
    /\ used \subseteq Provider
    /\ checks \in Seq(1..NFinding)
    /\ raiser \in [1..NFinding -> Nat]

(* A task that has not been given up has attempts left; a finding has one  *)
(* check, from the moment it is raised; an opinion is with, or was done    *)
(* by, a provider that counts as used.                                     *)
RunRules ==
    /\ \A t \in Task : tstate[t] # "gaveup" => attempts[t] < MaxPaused \/ attempts[t] < MaxFailed
    /\ IsInjective(checks)
    /\ \A f \in 1..NFinding : tstate[<<"check", f>>] # "none" <=> f \in ToSet(checks)
    /\ \A t \in Opinions : at[t] \in used \cup {NoNode}

CallTypes ==
    /\ at \in [Caller -> Node \cup {NoNode}]
    /\ call \in [Caller -> CallState]
    /\ work \subseteq Request

(* A call has a node; an answer is awaited by a call that was sent, and by *)
(* one request of it only.                                                 *)
CallRules ==
    /\ \A c \in Caller : call[c] # "none" => at[c] \in Node
    /\ \A w \in work : w.awaited => call[w.from] = "sent"
    /\ \A v, w \in work : v.awaited /\ w.awaited /\ v.from = w.from => v = w

Calls == CallTypes /\ CallRules

(* Who has a call: the running tasks, and the question while it is asked.  *)
Callers ==
    /\ \A t \in Task : tstate[t] = "running" <=> call[t] # "none"
    /\ asker.step = "asking" <=> call[Question] # "none"

(* Tasks, the question, machines and providers are apart from each other.  *)
LEMMA NodeFacts ==
  /\ \A t \in Task : t \in Caller /\ t # Question
  /\ Question \in Caller
  /\ \A c \in Caller : c \in Task \/ c = Question
  /\ Task = Chunks \cup Opinions \cup Checks
  /\ \A t \in Opinions : t \notin Chunks \cup Checks
  /\ \A f \in 1..NFinding : <<"check", f>> \in Checks
  /\ Machine \subseteq Node /\ Provider \subseteq Node /\ Node \subseteq Nat
  /\ NoNode \in Nat /\ NoNode \notin Node
<1>1. \A t \in Task : t[1] \in {"chunk", "opinion", "check"}
  BY DEF Task, Chunks, Opinions, Checks
<1>2. Question[1] = "question"
  BY DEF Question
<1>3. Provider \subseteq Nat
  <2>1. \A k \in 1..NOpinion : ToSet(Rotation[k]) \subseteq Nat
    BY RunAssumption DEF ToSet
  <2> QED
    BY <2>1 DEF Provider
<1>4. Node \subseteq Nat
  BY <1>3, MachineAssumption DEF Node
<1>5. \A t \in Opinions : t \notin Chunks \cup Checks
  BY DEF Opinions, Chunks, Checks
<1>6. \A f \in 1..NFinding : <<"check", f>> \in Checks
  BY DEF Checks
<1> QED
  BY <1>1, <1>2, <1>4, <1>5, <1>6, RunAssumption DEF Caller, Node, NoNode, Task

-----------------------------------------------------------------------------
(* The connection, the machines and the asker.                             *)
LEMMA Bounds ==
  /\ MaxConn \in Nat \ {0} /\ MaxQuestion \in Nat
  /\ MaxHome \in Nat /\ MaxGone \in Nat /\ MaxTimeout \in Nat
  /\ MaxPauses \in Nat /\ MaxFailures \in Nat
  /\ MaxPaused \in Nat \ {0} /\ MaxFailed \in Nat \ {0}
  BY RunAssumption

AskInv == /\ asker \in Thinking
          /\ waiting \in 0..MaxQuestion
          /\ asker.step # "idle" => waiting > 0
          /\ waiting <= tally.asked
Tally  == [home : 0..MaxHome, gone : 0..MaxGone, timeout : 0..MaxTimeout, asked : 0..MaxQuestion]

(* The asker keeps its question counted for as long as it works on it.      *)
LEMMA AskKept ==
  ASSUME AskInv, tally \in Tally, AskStart \/ AskSends \/ AskGivesUp \/ AskResult
  PROVE  AskInv'
<1> USE Bounds DEF AskInv, Thinking, Tally
<1>1. ASSUME AskStart
      PROVE  AskInv'
  BY <1>1 DEF AskStart, Idle
<1>2. ASSUME AskSends
      PROVE  AskInv'
  BY <1>2 DEF AskSends
<1>3. ASSUME NEW failed, AskEnds(failed), asker.step # "idle", tally' = tally
      PROVE  AskInv'
  BY <1>3 DEF AskEnds, Idle
<1>4. ASSUME AskGivesUp
      PROVE  AskInv'
  BY <1>3, <1>4 DEF AskGivesUp
<1>5. ASSUME AskResult
      PROVE  AskInv'
  <2> DEFINE again == [asker EXCEPT !.step = "thinking"]
  <2>1. again \in Thinking /\ again.pauses = asker.pauses /\ again.failures = asker.failures
    OBVIOUS
  <2> HIDE DEF again
  <2>2. ASSUME asker.pauses # MaxPauses
        PROVE  [again EXCEPT !.pauses = @ + 1] \in Thinking
    <3>1. again.pauses + 1 \in 0..MaxPauses
      BY <2>1, <2>2
    <3> QED
      BY <2>1, <3>1
  <2>3. ASSUME asker.failures # MaxFailures
        PROVE  [again EXCEPT !.failures = @ + 1] \in Thinking
    <3>1. again.failures + 1 \in 0..MaxFailures
      BY <2>1, <2>3
    <3> QED
      BY <2>1, <3>1
  <2>4. asker.step # "idle" /\ tally' = tally
    BY <1>5 DEF AskResult
  <2>5. \/ \E failed \in BOOLEAN : AskEnds(failed)
        \/ /\ waiting' = waiting
           /\ \/ asker' = again
              \/ asker.pauses # MaxPauses /\ asker' = [again EXCEPT !.pauses = @ + 1]
              \/ asker.failures # MaxFailures /\ asker' = [again EXCEPT !.failures = @ + 1]
    BY <1>5 DEF AskResult, again
  <2>6. CASE \E failed \in BOOLEAN : AskEnds(failed)
    BY <1>3, <2>4, <2>6
  <2>7. CASE waiting' = waiting /\ asker' \in Thinking
    BY <2>4, <2>7
  <2> QED
    BY <2>1, <2>2, <2>3, <2>5, <2>6, <2>7
<1> QED
  BY <1>1, <1>2, <1>4, <1>5

LinkInv == /\ conn \in 1..MaxConn /\ up \in BOOLEAN /\ tx \in 1..MaxConn
           /\ starting \in {"no", "tx", "drain"}
           /\ ~up => conn < MaxConn
MeshInv == listed \subseteq Machine /\ home \subseteq Machine
RestInv == AskInv /\ tally \in Tally /\ LinkInv /\ MeshInv

(* Every step keeps what is said of link, machines and asker.              *)
LEMMA RestKept ==
  ASSUME RestInv, [Next]_vars
  PROVE  RestInv'
<1> USE DEF RestInv
<1>1. CASE UNCHANGED <<mesh, link, asks, tally>>
  BY <1>1 DEF mesh, link, asks, AskInv, LinkInv, MeshInv
<1>2. CASE \/ Dispatch \/ TimePasses
           \/ \E c \in Caller : Register(c) \/ Send(c)
           \/ \E w \in work : Accept(w) \/ Refuse(w) \/ WorkEnds(w)
           \/ UNCHANGED vars
  <2>1. UNCHANGED <<mesh, link, asks, tally>>
    BY <1>2 DEF Dispatch, Finish, Round, Place, PollTimeout, Result, TimePasses, Register,
       Send, Accept, Refuse, WorkEnds, vars
  <2> QED
    BY <1>1, <2>1
<1>3. ASSUME NEW c \in Caller, Timeout(c)
      PROVE  RestInv'
  <2>1. tally' \in Tally /\ tally'.asked = tally.asked
    BY <1>3, Bounds DEF Timeout, Tally
  <2> QED
    BY <1>3, <2>1 DEF Timeout, mesh, link, asks, AskInv, LinkInv, MeshInv
<1>4. CASE Disconnect \/ Connect \/ SetTx \/ Drain
  <2>1. LinkInv'
    <3>1. CASE Disconnect
      BY <1>4, <3>1 DEF Disconnect, LinkInv
    <3>2. CASE Connect
      <4>1. conn + 1 \in 1..MaxConn
        BY <3>2, Bounds DEF Connect, LinkInv
      <4> QED
        BY <3>2, <4>1 DEF Connect, LinkInv
    <3>3. CASE SetTx \/ Drain
      BY <3>3 DEF SetTx, Drain, LinkInv
    <3> QED
      BY <1>4, <3>1, <3>2, <3>3
  <2>2. UNCHANGED <<mesh, asks, tally>>
    BY <1>4 DEF Disconnect, Connect, SetTx, Drain
  <2> QED
    BY <2>1, <2>2 DEF mesh, asks, AskInv, MeshInv
<1>5. ASSUME NEW m \in Machine, HomeCommand(m) \/ HomeOver(m) \/ DropOut(m) \/ Return(m)
      PROVE  RestInv'
  <2>1. tally' \in Tally /\ tally'.asked = tally.asked
    BY <1>5, Bounds DEF HomeCommand, HomeOver, DropOut, Return, Tally
  <2>2. MeshInv'
    BY <1>5 DEF HomeCommand, HomeOver, DropOut, Return, MeshInv
  <2>3. UNCHANGED <<link, asks>>
    BY <1>5 DEF HomeCommand, HomeOver, DropOut, Return
  <2> QED
    BY <2>1, <2>2, <2>3 DEF link, asks, AskInv, LinkInv
<1>6. CASE Ask
  <2>1. tally' \in Tally /\ tally'.asked = tally.asked + 1 /\ tally'.asked \in 0..MaxQuestion
    BY <1>6, Bounds DEF Ask, Tally
  <2>2. AskInv'
    <3>1. waiting' = waiting + 1 /\ asker' = asker
      BY <1>6 DEF Ask
    <3>2. waiting \in Nat /\ tally.asked \in Nat /\ waiting <= tally.asked
      BY DEF AskInv, Tally
    <3>3. waiting' \in 0..MaxQuestion /\ waiting' <= tally'.asked /\ waiting' > 0
      BY <2>1, <3>1, <3>2, Bounds
    <3> QED
      BY <3>1, <3>3 DEF AskInv
  <2> QED
    BY <1>6, <2>1, <2>2 DEF Ask, mesh, link, LinkInv, MeshInv
<1>7. CASE Asker
  <2>1. UNCHANGED <<mesh, link, tally>>
    BY <1>7 DEF Asker, AskStart, AskSends, AskGivesUp, AskResult
  <2>2. AskInv'
    BY <1>7, AskKept DEF Asker
  <2> QED
    BY <2>1, <2>2 DEF mesh, link, LinkInv, MeshInv
<1> QED
  BY <1>2, <1>3, <1>4, <1>5, <1>6, <1>7 DEF Next
-----------------------------------------------------------------------------
(* Calls, their requests and their answers.                                *)
LEMMA HandOutGives ==
  ASSUME CallTypes, NEW pairs \in SUBSET (Caller \X Node), HandOut(pairs),
         \A p, q \in pairs : p[1] = q[1] => p = q
  PROVE  /\ at' \in [Caller -> Node \cup {NoNode}] /\ call' \in [Caller -> CallState]
         /\ \A p \in pairs : at'[p[1]] = p[2] /\ call'[p[1]] = "spawned"
         /\ \A c \in Caller : (\A p \in pairs : p[1] # c) => at'[c] = at[c] /\ call'[c] = call[c]
<1> DEFINE To(t)  == CHOOSE n \in Node : <<t, n>> \in pairs
           picked == {p[1] : p \in pairs}
<1>1. /\ at' = [c \in Caller |-> IF c \in picked THEN To(c) ELSE at[c]]
      /\ call' = [c \in Caller |-> IF c \in picked THEN "spawned" ELSE call[c]]
  BY DEF HandOut
<1>2. ASSUME NEW p \in pairs
      PROVE  To(p[1]) = p[2] /\ p[2] \in Node
  <2>1. p = <<p[1], p[2]>> /\ p[2] \in Node
    OBVIOUS
  <2>2. \A n \in Node : <<p[1], n>> \in pairs => n = p[2]
    <3>1. \A n \in Node : <<p[1], n>>[1] = p[1] /\ <<p[1], n>>[2] = n
      OBVIOUS
    <3> QED
      BY <3>1
  <2> QED
    BY <2>1, <2>2
<1> HIDE DEF To
<1>3. \A p \in pairs : p[1] \in Caller /\ p[1] \in picked
  OBVIOUS
<1>4. \A c \in picked : \E p \in pairs : p[1] = c
  OBVIOUS
<1> HIDE DEF picked
<1>5. at' \in [Caller -> Node \cup {NoNode}] /\ call' \in [Caller -> CallState]
  BY <1>1, <1>2, <1>4 DEF CallTypes, CallState, Calling
<1>6. \A p \in pairs : at'[p[1]] = p[2] /\ call'[p[1]] = "spawned"
  BY <1>1, <1>2, <1>3
<1>7. \A c \in Caller : (\A p \in pairs : p[1] # c) => at'[c] = at[c] /\ call'[c] = call[c]
  BY <1>1, <1>4
<1> QED
  BY <1>5, <1>6, <1>7

(* Who is handed a task has no call, so no request of it is awaited.       *)
LEMMA HandOutKeeps ==
  ASSUME Calls, NEW pairs \in SUBSET (Caller \X Node), HandOut(pairs), work' = work,
         \A p, q \in pairs : p[1] = q[1] => p = q,
         \A p \in pairs : call[p[1]] = "none"
  PROVE  Calls'
<1> USE DEF Calls
<1>1. /\ at' \in [Caller -> Node \cup {NoNode}] /\ call' \in [Caller -> CallState]
      /\ \A p \in pairs : at'[p[1]] = p[2] /\ call'[p[1]] = "spawned" /\ p[2] \in Node
      /\ \A c \in Caller : (\A p \in pairs : p[1] # c) => at'[c] = at[c] /\ call'[c] = call[c]
  BY HandOutGives
<1>2. \A c \in Caller : call'[c] # "none" => at'[c] \in Node
  BY <1>1 DEF CallRules
<1>3. \A w \in work : w.from \in Caller
  BY DEF CallTypes, Request
<1>4. \A w \in work : w.awaited => call'[w.from] = "sent"
  BY <1>1, <1>3 DEF CallRules
<1> QED
  BY <1>1, <1>2, <1>4 DEF CallTypes, CallRules

(* A step of a call that is on: it stays with its node.                    *)
SameCallers == \A c \in Caller : call'[c] = "none" <=> call[c] = "none"

(* An answer ends the wait of the calls whose requests it takes out.       *)
LEMMA AnswerKeeps ==
  ASSUME Calls, NEW gone \in SUBSET work, NEW o \in Outcome, Answer(gone, o), at' = at
  PROVE  Calls' /\ SameCallers
<1> USE DEF Calls
<1> DEFINE Told(c) == \E w \in gone : w.from = c /\ w.awaited /\ up /\ w.conn = conn
<1>1. /\ work' = work \ gone
      /\ call' = [c \in Caller |-> IF Told(c) THEN o ELSE call[c]]
  BY DEF Answer
<1>2. \A c \in Caller : Told(c) => /\ call[c] = "sent"
                                 /\ \A w \in work \ gone : w.awaited => w.from # c
  BY DEF CallRules
<1>3. o \in CallState /\ o # "none"
  BY DEF CallState, Outcome
<1> HIDE DEF Told
<1>4. CallTypes' /\ SameCallers
  BY <1>1, <1>2, <1>3 DEF CallTypes, SameCallers
<1>5. \A w \in work : w.from \in Caller
  BY DEF CallTypes, Request
<1>6. CallRules'
  BY <1>1, <1>2, <1>3, <1>5 DEF CallRules
<1> QED
  BY <1>4, <1>6

(* The callers in C stop waiting; the others go on as they were.           *)
LEMMA WithdrawEnds ==
  ASSUME Calls, NEW C, work' = Withdraw(C), at' = at,
         call' \in [Caller -> CallState], SameCallers,
         \A c \in Caller : c \notin C => call'[c] = call[c]
  PROVE  Calls'
<1> USE DEF Calls
<1> DEFINE Off(w) == [w EXCEPT !.awaited = @ /\ w.from \notin C]
<1>1. ASSUME NEW w \in work
      PROVE  /\ Off(w) \in Request /\ Off(w).from = w.from /\ w.from \in Caller
             /\ Off(w).awaited => w.awaited /\ w.from \notin C
  <2>1. w \in Request
    BY DEF CallTypes
  <2> QED
    BY <2>1 DEF Request
<1>2. work' = {Off(w) : w \in work}
  BY DEF Withdraw
<1> HIDE DEF Off
<1>3. CallTypes'
  BY <1>1, <1>2 DEF CallTypes
<1>4. CallRules'
  BY <1>1, <1>2 DEF CallRules, SameCallers
<1> QED
  BY <1>3, <1>4

DispatchInv == RunTypes /\ RunRules /\ Calls /\ Callers /\ RestInv

(* The type invariant is among what DispatchInv says.                      *)
LEMMA DispatchInvTypes ==
  ASSUME DispatchInv
  PROVE  TypeOK
  BY DEF DispatchInv, RunTypes, RunRules, Calls, CallTypes, Callers, RestInv, AskInv, Tally,
     LinkInv, MeshInv, TypeOK, TaskState, CallState

(* The pairs of a hand-out: callers without a call, each a node.           *)
HandsOut(pairs) ==
    /\ pairs \in SUBSET (Caller \X Node)
    /\ \A p, q \in pairs : p[1] = q[1] \/ p[2] = q[2] => p = q
    /\ \A p \in pairs : call[p[1]] = "none"

(* A round hands the opinions out to providers, each one once.             *)
LEMMA RoundHandsOut ==
  ASSUME DispatchInv
  PROVE  HandsOut(Sent)
<1>1. /\ Sent \in SUBSET (Opinions \X Provider)
      /\ \A a \in Sent : a[1] \in Pending
      /\ \A a, b \in Sent : a[1] = b[1] \/ a[2] = b[2] => a = b
  BY SentIsFresh DEF DispatchInv, RunTypes
<1>2. \A t \in Pending : t \in Task /\ call[t] = "none"
  BY DEF DispatchInv, RunTypes, Callers, Pending
<1>3. Opinions \subseteq Caller /\ Provider \subseteq Node
  BY NodeFacts
<1> QED
  BY <1>1, <1>2, <1>3 DEF HandsOut

(* Place hands mesh tasks out to machines, each one once.                  *)
LEMMA PlaceHandsOut ==
  ASSUME DispatchInv
  PROVE  HandsOut(Assign(Needs, Known, Free \ Occupied))
<1> DEFINE pairs == Assign(Needs, Known, Free \ Occupied)
<1>1. /\ pairs \in SUBSET ((Pending \cap (Chunks \cup Checks)) \X (Machine \ Occupied))
      /\ \A p, q \in pairs : p[1] = q[1] \/ p[2] = q[2] => p = q
  BY PlacedApart DEF DispatchInv, RunTypes, RunRules, RestInv, MeshInv
<1> HIDE DEF pairs
<1>2. \A t \in Pending : t \in Task /\ call[t] = "none"
  BY DEF DispatchInv, RunTypes, Callers, Pending
<1>3. Pending \subseteq Caller /\ Machine \subseteq Node
  BY NodeFacts DEF Pending
<1>4. \A p \in pairs : p[1] \in Pending /\ p[1] \in Caller /\ p[2] \in Node /\ p = <<p[1], p[2]>>
  BY <1>1, <1>3
<1>5. HandsOut(pairs)
  BY <1>1, <1>2, <1>4 DEF HandsOut
<1> QED
  BY <1>5 DEF pairs

(* A function from 1..n is a sequence.                                     *)
LEMMA IsSequence ==
  ASSUME NEW S, NEW n \in Nat, NEW f \in [1..n -> S]
  PROVE  f \in Seq(S)
  OBVIOUS

(* The findings a review raises that are new: each once, in some order.    *)
LEMMA RaisedFindings ==
  ASSUME NEW found \in SetToAllKPermutations(1..NFinding), NEW new,
         new = ToSet(found) \ ToSet(checks)
  PROVE  /\ new \in SUBSET (1..NFinding)
         /\ Those(found, new) \in Seq(1..NFinding) /\ IsInjective(Those(found, new))
         /\ ToSet(Those(found, new)) = new
<1>1. PICK S \in SUBSET (1..NFinding) : found \in SetToSeqs(S)
  BY DEF SetToAllKPermutations
<1>2. Cardinality(S) \in Nat
  <2>1. IsFiniteSet(1..NFinding)
    BY RunAssumption, FS_Interval
  <2> QED
    BY <2>1, FS_Subset, FS_CardinalityType
<1>3. /\ found \in [1..Cardinality(S) -> S]
      /\ \A i, j \in 1..Cardinality(S) : i # j => found[i] # found[j]
  BY <1>1 DEF SetToSeqs
<1>4. found \in Seq(1..NFinding) /\ IsInjective(found)
  <2>1. PICK n \in Nat : n = Cardinality(S)
    BY <1>2
  <2>2. found \in [1..n -> 1..NFinding] /\ DOMAIN found = 1..n
    BY <1>3, <2>1
  <2>3. IsInjective(found)
    BY <1>3, <2>1, <2>2 DEF IsInjective
  <2>4. found \in Seq(1..NFinding)
    BY <2>1, <2>2, IsSequence
  <2> QED
    BY <2>3, <2>4
<1>5. new \in SUBSET (1..NFinding)
  BY <1>3 DEF ToSet
<1> QED
  BY <1>4, <1>5, ThoseKeeps

Raises(t, new, s) ==
    /\ new \cap ToSet(checks) = {}
    /\ IsInjective(s) /\ ToSet(s) = new /\ checks' = checks \o s
    /\ raiser' = [f \in 1..NFinding |->
          IF f \in new THEN IF at[t] \in Machine THEN ModelOf[at[t]] ELSE at[t]
          ELSE raiser[f]]
    /\ tstate' = [d \in Task |-> IF d = t THEN "done"
                                 ELSE IF d \in {"check"} \X new THEN "pending"
                                 ELSE tstate[d]]

(* What Raise does, without the order: a set of findings is new.           *)
LEMMA RaisedByTask ==
  ASSUME NEW t, Raise(t), checks \in Seq(1..NFinding)
  PROVE  \E new \in SUBSET (1..NFinding), s \in Seq(1..NFinding) : Raises(t, new, s)
<1>1. <<>> \in SetToAllKPermutations(1..NFinding)
  <2>1. {} \in SUBSET (1..NFinding) /\ Cardinality({}) = 0
    BY FS_EmptySet
  <2>2. <<>> \in [1..0 -> {}] /\ \A i, j \in 1..0 : i # j => <<>>[i] # <<>>[j]
    OBVIOUS
  <2>3. <<>> \in SetToSeqs({})
    BY <2>1, <2>2 DEF SetToSeqs
  <2> QED
    BY <2>1, <2>3 DEF SetToAllKPermutations
<1> DEFINE seen == IF at[t] \in Machine THEN ModelOf[at[t]] ELSE at[t]
<1>2. PICK found \in SetToAllKPermutations(1..NFinding) :
        LET new == ToSet(found) \ ToSet(checks)
        IN /\ checks' = checks \o Those(found, new)
           /\ raiser' = [f \in 1..NFinding |-> IF f \in new THEN seen ELSE raiser[f]]
           /\ tstate' = [d \in Task |-> IF d = t THEN "done"
                                        ELSE IF d \in {"check"} \X new THEN "pending"
                                        ELSE tstate[d]]
  BY <1>1 DEF Raise
<1> DEFINE new == ToSet(found) \ ToSet(checks)
           s   == Those(found, new)
<1>3. /\ new \in SUBSET (1..NFinding) /\ new \cap ToSet(checks) = {}
      /\ s \in Seq(1..NFinding) /\ IsInjective(s) /\ ToSet(s) = new
  BY RaisedFindings
<1>4. /\ checks' = checks \o s
      /\ raiser' = [f \in 1..NFinding |-> IF f \in new THEN seen ELSE raiser[f]]
      /\ tstate' = [d \in Task |-> IF d = t THEN "done"
                                   ELSE IF d \in {"check"} \X new THEN "pending"
                                   ELSE tstate[d]]
  BY <1>2
<1>5. Raises(t, new, s)
  BY <1>3, <1>4 DEF Raises
<1> HIDE DEF new, s
<1> QED
  BY <1>3, <1>5

(* Every step keeps what is said of calls and of who has one: a call is    *)
(* ended before its task or question goes on without it.                   *)
LEMMA CallsKept ==
  ASSUME DispatchInv, [Next]_vars
  PROVE  Calls' /\ Callers'
<1> DEFINE Goal == Calls' /\ Callers'
<1> USE DEF DispatchInv
<1>1. ASSUME Calls', SameCallers,
             \A t \in Task : tstate'[t] = "running" <=> tstate[t] = "running",
             asker'.step = "asking" <=> asker.step = "asking"
      PROVE  Goal
  BY <1>1, NodeFacts DEF SameCallers, Callers
(* A step of no call.                                                      *)
<1>2. ASSUME UNCHANGED <<at, call, work>>,
             \A t \in Task : tstate'[t] = "running" <=> tstate[t] = "running",
             asker'.step = "asking" <=> asker.step = "asking"
      PROVE  Goal
  <2>1. Calls' /\ SameCallers
    BY <1>2 DEF Calls, CallTypes, CallRules, SameCallers
  <2> QED
    BY <1>1, <1>2, <2>1
<1>3. CASE \/ Finish \/ TimePasses \/ Ask \/ SetTx \/ Connect \/ UNCHANGED vars
           \/ \E m \in Machine : HomeOver(m) \/ Return(m)
  <2>1. UNCHANGED <<at, call, work, tstate, asker>>
    BY <1>3 DEF Finish, TimePasses, Ask, SetTx, Connect, HomeOver, Return, run, asks, vars
  <2> QED
    BY <1>2, <2>1
<1>4. CASE AskStart \/ AskGivesUp
  <2>1. UNCHANGED <<at, call, work, tstate>> /\ asker.step # "asking"
    BY <1>4 DEF AskStart, AskGivesUp, run
  <2>2. asker'.step # "asking"
    BY <1>4 DEF AskStart, AskGivesUp, AskEnds, Idle
  <2> QED
    BY <1>2, <2>1, <2>2
<1>5. CASE PollTimeout
  <2>1. UNCHANGED <<at, call, work, asker>>
    BY <1>5 DEF PollTimeout, asks
  <2>2. \A t \in Task : tstate'[t] = "running" <=> tstate[t] = "running"
    BY <1>5 DEF PollTimeout, Pending
  <2> QED
    BY <1>2, <2>1, <2>2
(* The hand-outs.                                                          *)
<1>6. ASSUME NEW pairs, HandsOut(pairs), HandOut(pairs), work' = work, asker' = asker,
             \A p \in pairs : p[1] \in Task,
             \A t \in Task : tstate'[t] = "running" <=>
                               tstate[t] = "running" \/ \E p \in pairs : p[1] = t
      PROVE  Goal
  <2>1. pairs \in SUBSET (Caller \X Node) /\ \A p, q \in pairs : p[1] = q[1] => p = q
    BY <1>6 DEF HandsOut
  <2>2. Calls'
    BY <1>6, <2>1, HandOutKeeps DEF HandsOut
  <2>3. /\ \A p \in pairs : call'[p[1]] = "spawned"
        /\ \A c \in Caller : (\A p \in pairs : p[1] # c) => call'[c] = call[c]
    BY <1>6, <2>1, HandOutGives DEF Calls
  <2>4. \A t \in Task : tstate'[t] = "running" <=> call'[t] # "none"
    BY <1>6, <2>3, NodeFacts DEF Callers
  <2>5. call'[Question] = call[Question]
    BY <1>6, <2>3, NodeFacts
  <2> QED
    BY <1>6, <2>2, <2>4, <2>5 DEF Callers
<1>7. CASE Round
  <2> DEFINE go == {p[1] : p \in Sent}
  <2>1. HandsOut(Sent) /\ \A p \in Sent : p[1] \in Task
    BY RoundHandsOut, SentIsFresh, NodeFacts DEF RunTypes
  <2>2. /\ HandOut(Sent) /\ work' = work /\ asker' = asker
        /\ tstate' = [t \in Task |-> IF t \in go THEN "running"
                                     ELSE IF t \in Opinions \cap Pending THEN "gaveup"
                                     ELSE tstate[t]]
    BY <1>7 DEF Round, asks
  <2>3. \A t \in Task : t \in go <=> \E p \in Sent : p[1] = t
    OBVIOUS
  <2> HIDE DEF go
  <2>4. \A t \in Task : tstate'[t] = "running" <=>
                          tstate[t] = "running" \/ \E p \in Sent : p[1] = t
    BY <2>2, <2>3 DEF Pending
  <2> QED
    BY <1>6, <2>1, <2>2, <2>4
<1>8. CASE Place
  <2> DEFINE pairs == Assign(Needs, Known, Free \ Occupied)
  <2>1. HandsOut(pairs) /\ \A p \in pairs : p[1] \in Task
    <3>1. pairs \in SUBSET ((Pending \cap (Chunks \cup Checks)) \X (Machine \ Occupied))
      BY PlacedApart DEF RunTypes, RunRules, RestInv, MeshInv
    <3> QED
      BY <3>1, PlaceHandsOut DEF Pending
  <2>2. /\ HandOut(pairs) /\ work' = work /\ asker' = asker
        /\ tstate' = [t \in Task |-> IF \E p \in pairs : p[1] = t THEN "running" ELSE tstate[t]]
    BY <1>8 DEF Place, asks
  <2> HIDE DEF pairs
  <2>3. \A t \in Task : tstate'[t] = "running" <=>
                          tstate[t] = "running" \/ \E p \in pairs : p[1] = t
    BY <2>2
  <2> QED
    BY <1>6, <2>1, <2>2, <2>3
<1>9. CASE AskSends
  <2>1. PICK m \in Free : HandOut({<<Question, m>>})
    BY <1>9 DEF AskSends
  <2>2. asker.step = "thinking" /\ asker'.step = "asking" /\ work' = work /\ tstate' = tstate
    BY <1>9 DEF AskSends, run, RestInv, AskInv, Thinking
  <2>3. m \in Node /\ call[Question] = "none"
    BY <2>2, NodeFacts DEF Free, RestInv, MeshInv, Callers
  <2> DEFINE pairs == {<<Question, m>>}
  <2>4. /\ pairs \in SUBSET (Caller \X Node)
        /\ \A p, q \in pairs : p[1] = q[1] => p = q
        /\ \A p \in pairs : p[1] = Question
    BY <2>3, NodeFacts
  <2>5. HandOut(pairs) /\ \E p \in pairs : p[1] = Question
    BY <2>1
  <2> HIDE DEF pairs
  <2>6. Calls'
    BY <2>2, <2>3, <2>4, <2>5, HandOutKeeps
  <2>7. call'[Question] = "spawned" /\ \A t \in Task : call'[t] = call[t]
    BY <2>4, <2>5, HandOutGives, NodeFacts DEF Calls
  <2> QED
    BY <2>2, <2>6, <2>7 DEF Callers
(* A result is taken, and the call is over.                                *)
<1>10. ASSUME NEW c \in Caller, call[c] \in Outcome, call' = [call EXCEPT ![c] = "none"],
              at' \in [Caller -> Node \cup {NoNode}],
              \A d \in Caller : d # c => at'[d] = at[d],
              work' = work
       PROVE  Calls'
  <2>1. call[c] # "sent" /\ \A d \in Caller : call'[d] = IF d = c THEN "none" ELSE call[d]
    BY <1>10 DEF Outcome, Calls, CallTypes
  <2>2. \A w \in work : w.from \in Caller
    BY DEF Calls, CallTypes, Request
  <2>3. call' \in [Caller -> CallState]
    BY <1>10 DEF Calls, CallTypes, CallState
  <2> QED
    BY <1>10, <2>1, <2>2, <2>3 DEF Calls, CallTypes, CallRules
<1>11. ASSUME NEW t \in Task, Result(t)
       PROVE  Goal
  <2>1. /\ t \in Running /\ call[t] \in Outcome /\ call' = [call EXCEPT ![t] = "none"]
        /\ work' = work /\ asker' = asker
        /\ at' = at \/ at' = [at EXCEPT ![t] = NoNode]
    BY <1>11 DEF Result, asks
  <2>2. at' \in [Caller -> Node \cup {NoNode}] /\ \A d \in Caller : d # t => at'[d] = at[d]
    BY <2>1, NodeFacts DEF Calls, CallTypes
  <2>3. Calls'
    BY <1>10, <2>1, <2>2, NodeFacts
  <2>4. /\ call'[t] = "none" /\ call'[Question] = call[Question]
        /\ \A d \in Task : d # t => call'[d] = call[d]
    BY <2>1, NodeFacts DEF Calls, CallTypes
  <2>5. \A d \in Task : tstate'[d] = "running" <=> tstate[d] = "running" /\ d # t
    <3>1. CASE call[t] = "finished"
      <4>1. Raise(t)
        BY <1>11, <3>1 DEF Result
      <4>2. PICK new \in SUBSET (1..NFinding), s \in Seq(1..NFinding) : Raises(t, new, s)
        BY <4>1, RaisedByTask DEF RunTypes
      <4> USE DEF Raises
      <4>3. \A d \in {"check"} \X new : d \in Task => tstate[d] # "running"
        <5>1. \A d \in {"check"} \X new : d[2] \in new /\ d = <<"check", d[2]>>
          OBVIOUS
        <5>2. \A f \in new : f \in 1..NFinding /\ f \notin ToSet(checks)
          BY <4>2
        <5> QED
          BY <5>1, <5>2 DEF RunRules
      <4> QED
        BY <4>2, <4>3
    <3>2. CASE call[t] # "finished"
      <4>1. tstate' = [tstate EXCEPT ![t] = Back(t)]
        BY <1>11, <3>2 DEF Result
      <4>2. Back(t) # "running"
        BY DEF Back
      <4> HIDE DEF Back
      <4> QED
        BY <4>1, <4>2 DEF RunTypes
    <3> QED
      BY <3>1, <3>2
  <2> QED
    BY <2>1, <2>3, <2>4, <2>5 DEF Callers
<1>12. CASE AskResult
  <2>1. /\ asker.step = "asking" /\ call[Question] \in Outcome
        /\ call' = [call EXCEPT ![Question] = "none"] /\ at' = [at EXCEPT ![Question] = NoNode]
        /\ work' = work /\ tstate' = tstate
    BY <1>12 DEF AskResult, run
  <2>2. at' \in [Caller -> Node \cup {NoNode}]
        /\ \A d \in Caller : d # Question => at'[d] = at[d]
    BY <2>1 DEF Calls, CallTypes
  <2>3. Calls'
    BY <1>10, <2>1, <2>2, NodeFacts
  <2>4. call'[Question] = "none" /\ \A t \in Task : call'[t] = call[t]
    BY <2>1, NodeFacts DEF Calls, CallTypes
  <2>5. asker'.step # "asking"
    <3> DEFINE again == [asker EXCEPT !.step = "thinking"]
    <3>1. again \in Thinking /\ again.step = "thinking"
      BY DEF RestInv, AskInv, Thinking
    <3>2. \/ asker' = Idle \/ asker' = again
          \/ asker' = [again EXCEPT !.pauses = @ + 1]
          \/ asker' = [again EXCEPT !.failures = @ + 1]
      BY <1>12 DEF AskResult, AskEnds
    <3> HIDE DEF again
    <3> QED
      BY <3>1, <3>2 DEF Idle, Thinking
  <2> QED
    BY <2>1, <2>3, <2>4, <2>5 DEF Callers
(* infer() and start().                                                    *)
<1>13. ASSUME NEW c \in Caller, Register(c)
       PROVE  Goal
  <2>1. /\ call[c] = "spawned" /\ call' = [call EXCEPT ![c] = "registered"]
        /\ UNCHANGED <<at, work, tstate, asker>>
    BY <1>13 DEF Register, run, asks
  <2>2. call' \in [Caller -> CallState] /\ SameCallers
    BY <2>1 DEF Calls, CallTypes, CallState, Calling, SameCallers
  <2>3. \A w \in work : w.awaited => w.from \in Caller /\ w.from # c
    BY <2>1 DEF Calls, CallTypes, CallRules, Request
  <2>4. Calls'
    BY <2>1, <2>2, <2>3 DEF Calls, CallTypes, CallRules
  <2> QED
    BY <1>1, <2>1, <2>2, <2>4
<1>14. ASSUME NEW c \in Caller, Send(c)
       PROVE  Goal
  <2> DEFINE r == [from |-> c, node |-> at[c], conn |-> conn,
                   accepted |-> FALSE, awaited |-> call[c] = "registered"]
  <2>1. /\ call[c] \in {"registered", "drained"} /\ UNCHANGED <<at, tstate, asker>>
        /\ \/ work' = work \cup {r}
              /\ call' = [call EXCEPT ![c] = IF @ = "drained" THEN "failed" ELSE "sent"]
           \/ work' = work /\ call' = [call EXCEPT ![c] = "failed"]
           \/ work' = work /\ call' = [call EXCEPT ![c] = "sent"]
    BY <1>14 DEF Send, run, asks
  <2>2. PICK to \in {"sent", "failed"} : call' = [call EXCEPT ![c] = to]
    BY <2>1 DEF Calls, CallTypes
  <2>3. call' \in [Caller -> CallState] /\ SameCallers
    BY <2>1, <2>2 DEF Calls, CallTypes, CallState, Calling, Outcome, SameCallers
  <2>4. \A w \in work : w.awaited => w.from \in Caller /\ w.from # c
    BY <2>1 DEF Calls, CallTypes, CallRules, Request
  <2>5. CASE work' = work
    <3>1. Calls'
      BY <2>1, <2>2, <2>3, <2>4, <2>5 DEF Calls, CallTypes, CallRules
    <3> QED
      BY <1>1, <2>1, <2>3, <3>1
  <2>6. CASE /\ work' = work \cup {r}
             /\ call' = [call EXCEPT ![c] = IF @ = "drained" THEN "failed" ELSE "sent"]
    <3>1. r \in Request /\ r.from = c /\ (r.awaited => call[c] = "registered")
      BY <2>1 DEF Request, RestInv, LinkInv, Calls, CallTypes, CallRules
    <3>2. r.awaited => call'[c] = "sent"
      BY <2>6, <3>1 DEF Calls, CallTypes
    <3> HIDE DEF r
    <3>3. Calls'
      BY <2>1, <2>2, <2>3, <2>4, <2>6, <3>1, <3>2 DEF Calls, CallTypes, CallRules
    <3> QED
      BY <1>1, <2>1, <2>3, <3>3
  <2> QED
    BY <2>1, <2>5, <2>6
<1>15. ASSUME NEW c \in Caller, Timeout(c)
       PROVE  Goal
  <2>1. /\ call[c] = "sent" /\ call' = [call EXCEPT ![c] = "failed"]
        /\ work' = Withdraw({c}) /\ UNCHANGED <<at, tstate, asker>>
    BY <1>15 DEF Timeout, run, asks
  <2>2. call' \in [Caller -> CallState] /\ SameCallers
    BY <2>1 DEF Calls, CallTypes, CallState, Outcome, SameCallers
  <2>3. \A d \in Caller : d \notin {c} => call'[d] = call[d]
    BY <2>1 DEF Calls, CallTypes
  <2>4. Calls'
    BY <2>1, <2>2, <2>3, WithdrawEnds
  <2> QED
    BY <1>1, <2>1, <2>2, <2>4
<1>16. CASE Drain
  <2> DEFINE C == {c \in Caller : call[c] \in {"sent", "registered"}}
  <2>1. /\ call' = [c \in Caller |-> CASE call[c] = "sent" -> "failed"
                                      [] call[c] = "registered" -> "drained"
                                      [] OTHER -> call[c]]
        /\ work' = Withdraw(C) /\ UNCHANGED <<at, tstate, asker>>
    BY <1>16 DEF Drain, run, asks
  <2>2. call' \in [Caller -> CallState] /\ SameCallers
    BY <2>1 DEF Calls, CallTypes, CallState, Calling, Outcome, SameCallers
  <2>3. \A d \in Caller : d \notin C => call'[d] = call[d]
    BY <2>1
  <2> HIDE DEF C
  <2>4. Calls'
    BY <2>1, <2>2, <2>3, WithdrawEnds
  <2> QED
    BY <1>1, <2>1, <2>2, <2>4
<1>17. CASE Disconnect
  <2>1. UNCHANGED <<at, call, tstate, asker>> /\ work' = {w \in work : w.accepted}
    BY <1>17 DEF Disconnect, run, asks
  <2>2. Calls' /\ SameCallers
    BY <2>1 DEF Calls, CallTypes, CallRules, SameCallers
  <2> QED
    BY <1>1, <2>1, <2>2
(* The coordinator.                                                        *)
<1>18. ASSUME NEW w \in work, Accept(w)
       PROVE  Goal
  <2> DEFINE a == [w EXCEPT !.accepted = TRUE]
  <2>1. UNCHANGED <<at, call, tstate, asker>> /\ work' = (work \ {w}) \cup {a}
    BY <1>18 DEF Accept, run, asks
  <2>2. a \in Request /\ a.from = w.from /\ a.awaited = w.awaited
    BY DEF Calls, CallTypes, Request
  <2> HIDE DEF a
  <2>3. Calls' /\ SameCallers
    BY <2>1, <2>2 DEF Calls, CallTypes, CallRules, SameCallers
  <2> QED
    BY <1>1, <2>1, <2>3
<1>19. ASSUME NEW gone \in SUBSET work, NEW o \in Outcome, Answer(gone, o),
              UNCHANGED <<at, tstate, asker>>
       PROVE  Goal
  BY <1>1, <1>19, AnswerKeeps
<1>20. ASSUME NEW w \in work, Refuse(w) \/ WorkEnds(w)
       PROVE  Goal
  BY <1>19, <1>20 DEF Refuse, WorkEnds, Outcome, run, asks
<1>21. ASSUME NEW m \in Machine, HomeCommand(m) \/ DropOut(m)
       PROVE  Goal
  BY <1>19, <1>21 DEF HomeCommand, DropOut, Outcome, run, asks
<1> QED
  BY <1>3, <1>4, <1>5, <1>7, <1>8, <1>9, <1>11, <1>12, <1>13, <1>14, <1>15, <1>16, <1>17,
     <1>18, <1>20, <1>21 DEF Next, Dispatch, Asker

(* The steps outside of dispatch_all leave the run and its tasks alone.    *)
LEMMA RunAlone ==
  ASSUME DispatchInv, [Next]_vars, ~Dispatch
  PROVE  /\ UNCHANGED <<loop, had, tstate, attempts, queue, used, checks, raiser>>
         /\ quiet' \in {quiet, TRUE}
         /\ \A t \in Task : at'[t] = at[t]
<1> DEFINE Goal == /\ UNCHANGED <<loop, had, tstate, attempts, queue, used, checks, raiser>>
                   /\ quiet' \in {quiet, TRUE}
                   /\ \A t \in Task : at'[t] = at[t]
<1>1. ASSUME UNCHANGED <<run, at>>
      PROVE  Goal
  BY <1>1 DEF run, plan
<1>2. CASE \/ Ask \/ AskStart \/ AskGivesUp \/ Disconnect \/ Connect \/ SetTx \/ Drain
           \/ \E c \in Caller : Register(c) \/ Send(c) \/ Timeout(c)
           \/ \E w \in work : Accept(w) \/ Refuse(w) \/ WorkEnds(w)
           \/ \E m \in Machine : HomeCommand(m) \/ HomeOver(m) \/ DropOut(m) \/ Return(m)
           \/ UNCHANGED vars
  <2>1. UNCHANGED <<run, at>>
    BY <1>2 DEF Ask, AskStart, AskGivesUp, Disconnect, Connect, SetTx, Drain, Register, Send,
       Timeout, Accept, Refuse, WorkEnds, HomeCommand, HomeOver, DropOut, Return, vars
  <2> QED
    BY <1>1, <2>1
<1>3. CASE TimePasses
  BY <1>3 DEF TimePasses, plan
<1>4. CASE AskSends
  <2>1. PICK m \in Free : HandOut({<<Question, m>>})
    BY <1>4 DEF AskSends
  <2>2. \A t \in Task : at'[t] = at[t]
    BY <2>1, NodeFacts DEF HandOut
  <2> QED
    BY <1>4, <2>2 DEF AskSends, run, plan
<1>5. CASE AskResult
  <2>1. \A t \in Task : at'[t] = at[t]
    BY <1>5, NodeFacts DEF AskResult, DispatchInv, Calls, CallTypes
  <2> QED
    BY <1>5, <2>1 DEF AskResult, run, plan
<1> QED
  BY <1>2, <1>3, <1>4, <1>5 DEF Next, Asker

(* Tasks keep an attempt until they are given up.                          *)
LEMMA BackInTime ==
  ASSUME RunTypes, RunRules, NEW t \in Running, call[t] \in Outcome, call[t] # "finished"
  PROVE  LET n == IF t \in Opinions \/ call[t] = "noworker" THEN attempts[t]
                  ELSE attempts[t] + 1
         IN /\ n \in 0..(MaxPaused + MaxFailed)
            /\ Back(t) \in TaskState \ {"none"}
            /\ Back(t) # "gaveup" => n < MaxPaused \/ n < MaxFailed
<1>1. /\ t \in Task /\ attempts[t] \in Nat
      /\ attempts[t] < MaxPaused \/ attempts[t] < MaxFailed
  BY Bounds DEF Running, RunTypes, RunRules
<1>2. call[t] \in {"failed", "preempted", "noworker"}
  BY DEF Outcome
<1>3. CASE t \in Opinions \/ call[t] = "noworker"
  BY <1>1, <1>3, Bounds DEF Back, TaskState
<1>4. CASE t \notin Opinions /\ call[t] = "failed"
  BY <1>1, <1>4, Bounds DEF Back, TaskState
<1>5. CASE t \notin Opinions /\ call[t] = "preempted"
  BY <1>1, <1>5, Bounds DEF Back, TaskState
<1> QED
  BY <1>2, <1>3, <1>4, <1>5

(* New findings are checked after the ones there are, each once.           *)
LEMMA JoinedOnce ==
  ASSUME NEW S, NEW a \in Seq(S), NEW b \in Seq(S), IsInjective(a), IsInjective(b),
         ToSet(b) \cap ToSet(a) = {}
  PROVE  /\ a \o b \in Seq(S) /\ IsInjective(a \o b)
         /\ ToSet(a \o b) = ToSet(a) \cup ToSet(b)
<1> DEFINE ab == a \o b
<1>1. /\ ab \in Seq(S) /\ Len(ab) = Len(a) + Len(b)
      /\ \A i \in 1..(Len(a) + Len(b)) : ab[i] = IF i <= Len(a) THEN a[i] ELSE b[i - Len(a)]
  BY ConcatProperties
<1> HIDE DEF ab
<1>2. /\ Len(a) \in Nat /\ Len(b) \in Nat
      /\ DOMAIN a = 1..Len(a) /\ DOMAIN b = 1..Len(b) /\ DOMAIN ab = 1..(Len(a) + Len(b))
  BY <1>1
<1>3. ASSUME NEW i \in DOMAIN ab
      PROVE  \/ i \in DOMAIN a /\ ab[i] = a[i] /\ ab[i] \in ToSet(a)
             \/ i - Len(a) \in DOMAIN b /\ ab[i] = b[i - Len(a)] /\ ab[i] \in ToSet(b)
  <2>1. CASE i <= Len(a)
    BY <1>1, <1>2, <2>1 DEF ToSet
  <2>2. CASE ~(i <= Len(a))
    <3>1. i - Len(a) \in DOMAIN b
      BY <1>2, <2>2
    <3> QED
      BY <1>1, <1>2, <2>2, <3>1 DEF ToSet
  <2> QED
    BY <2>1, <2>2
<1>4. IsInjective(ab)
  <2> SUFFICES ASSUME NEW i \in DOMAIN ab, NEW j \in DOMAIN ab, ab[i] = ab[j]
               PROVE  i = j
    BY DEF IsInjective
  <2>1. CASE i \in DOMAIN a /\ ab[i] = a[i] /\ ab[i] \in ToSet(a)
    BY <1>3, <2>1 DEF IsInjective
  <2>2. CASE i - Len(a) \in DOMAIN b /\ ab[i] = b[i - Len(a)] /\ ab[i] \in ToSet(b)
    <3>1. j - Len(a) \in DOMAIN b /\ ab[j] = b[j - Len(a)]
      BY <1>3, <2>2
    <3>2. i - Len(a) = j - Len(a)
      BY <2>2, <3>1 DEF IsInjective
    <3> QED
      BY <1>2, <3>2
  <2> QED
    BY <1>3, <2>1, <2>2
<1>5. \A i \in DOMAIN a : i \in DOMAIN ab /\ ab[i] = a[i]
  BY <1>1, <1>2
<1>6. ASSUME NEW i \in DOMAIN b
      PROVE  i + Len(a) \in DOMAIN ab /\ ab[i + Len(a)] = b[i]
  <2>1. i + Len(a) \in DOMAIN ab /\ ~(i + Len(a) <= Len(a)) /\ (i + Len(a)) - Len(a) = i
    BY <1>2
  <2> QED
    BY <1>1, <1>2, <2>1
<1>7. ToSet(ab) = ToSet(a) \cup ToSet(b)
  <2>1. ToSet(ab) \subseteq ToSet(a) \cup ToSet(b)
    BY <1>3 DEF ToSet
  <2>2. ToSet(a) \subseteq ToSet(ab)
    BY <1>5 DEF ToSet
  <2>3. ToSet(b) \subseteq ToSet(ab)
    BY <1>6 DEF ToSet
  <2> QED
    BY <2>1, <2>2, <2>3
<1> QED
  BY <1>1, <1>4, <1>7 DEF ab

(* Every step keeps the types and rules of the run.                        *)
LEMMA RunKept ==
  ASSUME DispatchInv, [Next]_vars
  PROVE  RunTypes' /\ RunRules'
<1> DEFINE Goal == RunTypes' /\ RunRules'
<1> USE DEF DispatchInv
<1>1. CASE ~Dispatch
  <2>1. /\ UNCHANGED <<loop, had, tstate, attempts, queue, used, checks, raiser>>
        /\ quiet' \in {quiet, TRUE}
        /\ \A t \in Task : at'[t] = at[t]
    BY <1>1, RunAlone
  <2>2. \A t \in Opinions : at'[t] = at[t]
    BY <2>1, NodeFacts
  <2> QED
    BY <2>1, <2>2 DEF RunTypes, RunRules
(* A step that takes no attempt and raises nothing.                        *)
<1>2. ASSUME loop' \in {"top", "snapshot", "wait", "done", "failed"},
             had' \in BOOLEAN, quiet' \in BOOLEAN,
             tstate' \in [Task -> TaskState],
             \A t \in Task : tstate'[t] = "gaveup" \/ tstate[t] # "gaveup",
             \A t \in Task : tstate'[t] = "none" <=> tstate[t] = "none",
             used \subseteq used', used' \subseteq Provider,
             \A t \in Opinions : at'[t] \in used' \cup {at[t]},
             UNCHANGED <<attempts, queue, raiser, checks>>
      PROVE  Goal
  <2>1. \A f \in 1..NFinding : <<"check", f>> \in Task
    BY NodeFacts
  <2> QED
    BY <1>2, <2>1 DEF RunTypes, RunRules
<1>3. CASE Finish
  BY <1>2, <1>3 DEF Finish, plan, RunTypes
<1>4. CASE Round
  <2> DEFINE go == {p[1] : p \in Sent}
  <2>1. /\ Sent \in SUBSET (Opinions \X Provider)
        /\ \A p \in Sent : p[1] \in Pending
    BY SentIsFresh DEF RunTypes
  <2>2. HandsOut(Sent) /\ HandOut(Sent)
    BY <1>4, RoundHandsOut DEF Round
  <2>3. /\ used' = used \cup {p[2] : p \in Sent}
        /\ tstate' = [t \in Task |-> IF t \in go THEN "running"
                                     ELSE IF t \in Opinions \cap Pending THEN "gaveup"
                                     ELSE tstate[t]]
        /\ loop' \in {"snapshot", "wait"}
        /\ had' \in BOOLEAN /\ quiet' \in BOOLEAN
        /\ UNCHANGED <<attempts, queue, raiser, checks>>
    BY <1>4 DEF Round
  <2>4. used \subseteq used' /\ used' \subseteq Provider
    BY <2>1, <2>3 DEF RunTypes
  <2>5. \A t \in go : t \in Pending
    BY <2>1
  <2> HIDE DEF go
  <2>6. /\ tstate' \in [Task -> TaskState]
        /\ \A t \in Task : tstate'[t] = "gaveup" \/ tstate[t] # "gaveup"
        /\ \A t \in Task : tstate'[t] = "none" <=> tstate[t] = "none"
    BY <2>3, <2>5 DEF Pending, RunTypes, TaskState
  <2>7. ASSUME NEW t \in Opinions
        PROVE  at'[t] \in used' \cup {at[t]}
    <3>1. t \in Caller /\ CallTypes
      BY NodeFacts DEF Calls
    <3>2. (\A p \in Sent : p[1] # t) => at'[t] = at[t]
      BY <2>2, <3>1, HandOutGives DEF HandsOut
    <3>3. \A p \in Sent : at'[p[1]] = p[2] /\ p[2] \in used'
      BY <2>2, <2>3, <3>1, HandOutGives DEF HandsOut
    <3> QED
      BY <3>2, <3>3
  <2> QED
    BY <1>2, <2>3, <2>4, <2>6, <2>7
<1>5. CASE Place
  <2> DEFINE pairs == Assign(Needs, Known, Free \ Occupied)
  <2>1. pairs \in SUBSET ((Pending \cap (Chunks \cup Checks)) \X (Machine \ Occupied))
    BY PlacedApart DEF RunTypes, RunRules, RestInv, MeshInv
  <2>2. HandsOut(pairs) /\ HandOut(pairs)
    BY <1>5, PlaceHandsOut DEF Place
  <2>3. /\ tstate' = [t \in Task |-> IF \E p \in pairs : p[1] = t THEN "running" ELSE tstate[t]]
        /\ loop' = "wait" /\ had' = had /\ quiet' \in BOOLEAN
        /\ UNCHANGED <<attempts, queue, raiser, checks, used>>
    BY <1>5 DEF Place, plan
  <2> HIDE DEF pairs
  <2>4. \A p \in pairs : p[1] \in Pending /\ p[1] \in Chunks \cup Checks
    BY <2>1
  <2>5. /\ tstate' \in [Task -> TaskState]
        /\ \A t \in Task : tstate'[t] = "gaveup" \/ tstate[t] # "gaveup"
        /\ \A t \in Task : tstate'[t] = "none" <=> tstate[t] = "none"
    BY <2>3, <2>4 DEF Pending, RunTypes, TaskState
  <2>6. ASSUME NEW t \in Opinions
        PROVE  at'[t] = at[t]
    <3>1. t \in Caller /\ CallTypes
      BY NodeFacts DEF Calls
    <3>2. \A p \in pairs : p[1] # t
      BY <2>4, NodeFacts
    <3> QED
      BY <2>2, <3>1, <3>2, HandOutGives DEF HandsOut
  <2> QED
    BY <1>2, <2>3, <2>5, <2>6 DEF RunTypes
<1>6. CASE PollTimeout
  <2>1. /\ tstate' \in [Task -> TaskState]
        /\ \A t \in Task : tstate'[t] = "gaveup" \/ tstate[t] # "gaveup"
        /\ \A t \in Task : tstate'[t] = "none" <=> tstate[t] = "none"
    BY <1>6 DEF PollTimeout, Pending, RunTypes, TaskState
  <2>2. /\ loop' = "top" /\ UNCHANGED <<had, quiet, attempts, queue, used, raiser, checks, at>>
    BY <1>6 DEF PollTimeout, plan
  <2> QED
    BY <1>2, <2>1, <2>2 DEF RunTypes
<1>7. ASSUME NEW t \in Task, Result(t)
      PROVE  Goal
  <2>1. /\ loop' = "top" /\ had' = had /\ quiet' = FALSE /\ used' = used
        /\ t \in Running /\ call[t] \in Outcome
    BY <1>7 DEF Result
  <2>2. CASE call[t] = "finished"
    <3>1. Raise(t) /\ UNCHANGED <<attempts, queue, at>>
      BY <1>7, <2>2 DEF Result
    <3>2. PICK new \in SUBSET (1..NFinding), s \in Seq(1..NFinding) : Raises(t, new, s)
      BY <3>1, RaisedByTask DEF RunTypes
    <3> USE DEF Raises
    <3>3. raiser' \in [1..NFinding -> Nat]
      <4>1. at[t] \in Nat /\ (at[t] \in Machine => ModelOf[at[t]] \in Nat)
        BY NodeFacts, MachineAssumption DEF Calls, CallTypes
      <4> QED
        BY <3>2, <4>1 DEF RunTypes
    <3>4. /\ checks' \in Seq(1..NFinding) /\ IsInjective(checks')
          /\ ToSet(checks') = ToSet(checks) \cup new
      BY <3>2, JoinedOnce DEF RunTypes, RunRules
    <3>5. tstate' \in [Task -> TaskState]
      BY <3>2 DEF RunTypes, TaskState
    <3>6. ASSUME NEW f \in 1..NFinding
          PROVE  tstate'[<<"check", f>>] # "none" <=> f \in ToSet(checks')
      <4>1. <<"check", f>> \in Task /\ (<<"check", f>> \in {"check"} \X new <=> f \in new)
        BY NodeFacts
      <4>2. <<"check", f>> = t => f \in ToSet(checks)
        BY <2>1 DEF Running, RunRules
      <4> QED
        BY <3>2, <3>4, <4>1, <4>2 DEF RunRules
    <3>7. ASSUME NEW d \in Task, tstate'[d] # "gaveup"
          PROVE  attempts[d] < MaxPaused \/ attempts[d] < MaxFailed
      <4>1. d = t => tstate[d] # "gaveup"
        BY <2>1 DEF Running
      <4>2. ASSUME d \in {"check"} \X new
            PROVE  tstate[d] # "gaveup"
        <5>0. d[2] \in new /\ d = <<"check", d[2]>>
          BY <4>2
        <5>1. d = <<"check", d[2]>> /\ d[2] \in 1..NFinding /\ d[2] \notin ToSet(checks)
          BY <3>2, <5>0
        <5>2. tstate[d] = "none"
          BY <5>1 DEF RunRules
        <5> QED
          BY <5>2
      <4> QED
        BY <3>2, <3>7, <4>1, <4>2 DEF RunRules
    <3>8. RunTypes'
      BY <2>1, <3>1, <3>3, <3>4, <3>5 DEF RunTypes
    <3>9. RunRules'
      BY <2>1, <3>1, <3>4, <3>6, <3>7 DEF RunRules
    <3> QED
      BY <3>8, <3>9
  <2>3. CASE call[t] # "finished"
    <3> DEFINE n == IF t \in Opinions \/ call[t] = "noworker" THEN attempts[t]
                    ELSE attempts[t] + 1
    <3>1. /\ n \in 0..(MaxPaused + MaxFailed)
          /\ Back(t) \in TaskState \ {"none"}
          /\ Back(t) # "gaveup" => n < MaxPaused \/ n < MaxFailed
      BY <2>1, <2>3, BackInTime
    <3>2. /\ tstate' = [tstate EXCEPT ![t] = Back(t)]
          /\ at' = [at EXCEPT ![t] = NoNode]
          /\ attempts' = [attempts EXCEPT ![t] = n]
          /\ queue' = [k \in Opinions |->
                 IF k = t THEN Those(queue[t], Provider \ {at[t]}) ELSE queue[k]]
          /\ UNCHANGED <<raiser, checks>>
      BY <1>7, <2>3 DEF Result
    <3> HIDE DEF n
    <3> DEFINE b == Back(t)
    <3> HIDE DEF b
    <3>3. b \in TaskState /\ b # "none" /\ (b # "gaveup" => n < MaxPaused \/ n < MaxFailed)
      BY <3>1 DEF b
    <3>4. /\ tstate' \in [Task -> TaskState]
          /\ \A d \in Task : tstate'[d] = IF d = t THEN b ELSE tstate[d]
      BY <3>2, <3>3 DEF RunTypes, b
    <3>5. /\ attempts' \in [Task -> 0..(MaxPaused + MaxFailed)]
          /\ \A d \in Task : attempts'[d] = IF d = t THEN n ELSE attempts[d]
      BY <3>1, <3>2 DEF RunTypes
    <3>6. queue' \in [Opinions -> Seq(Provider)]
      <4>1. ASSUME NEW k \in Opinions
            PROVE  Those(queue[k], Provider \ {at[k]}) \in Seq(Provider)
        BY ThoseKeeps DEF RunTypes
      <4> QED
        BY <3>2, <4>1 DEF RunTypes
    <3>7. \A k \in Opinions : at'[k] \in used' \cup {NoNode}
      <4>1. \A k \in Opinions : k \in Caller
        BY NodeFacts
      <4> QED
        BY <2>1, <3>2, <4>1 DEF RunRules, Calls, CallTypes
    <3>8. \A f \in 1..NFinding : tstate'[<<"check", f>>] # "none" <=> f \in ToSet(checks')
      <4>1. \A f \in 1..NFinding : <<"check", f>> \in Task
        BY NodeFacts
      <4>2. tstate[t] # "none"
        BY <2>1 DEF Running
      <4>3. \A d \in Task : tstate'[d] # "none" <=> tstate[d] # "none"
        BY <3>3, <3>4, <4>2
      <4> QED
        BY <3>2, <4>1, <4>3 DEF RunRules
    <3>9. \A d \in Task : tstate'[d] # "gaveup"
                            => attempts'[d] < MaxPaused \/ attempts'[d] < MaxFailed
      BY <3>3, <3>4, <3>5 DEF RunRules
    <3>10. RunTypes'
      BY <2>1, <3>2, <3>4, <3>5, <3>6 DEF RunTypes
    <3>11. RunRules'
      BY <3>2, <3>7, <3>8, <3>9 DEF RunRules
    <3> QED
      BY <3>10, <3>11
  <2> QED
    BY <2>2, <2>3
<1> QED
  BY <1>1, <1>3, <1>4, <1>5, <1>6, <1>7 DEF Dispatch

-----------------------------------------------------------------------------
(* The invariant holds at the start and is kept by every step.             *)
LEMMA DispatchStarts ==
  ASSUME Init
  PROVE  DispatchInv /\ OpinionsDiffer /\ MachineTakesOne
<1>1. PICK n \in 1..NChunk, k \in 0..NOpinion :
        tstate = [t \in Task |-> IF t \in {"chunk"} \X (1..n) \cup {"opinion"} \X (1..k)
                                THEN "pending" ELSE "none"]
  BY DEF Init
<1>2. /\ \A t \in Task : tstate[t] \in {"pending", "none"}
      /\ \A f \in 1..NFinding : tstate[<<"check", f>>] = "none"
  <2>1. \A f \in 1..NFinding : <<"check", f>> \in Task
                                /\ <<"check", f>>[1] \notin {"chunk", "opinion"}
    BY NodeFacts
  <2> QED
    BY <1>1, <2>1
<1>3. queue \in [Opinions -> Seq(Provider)]
  <2>1. ASSUME NEW k1 \in 1..NOpinion
        PROVE  Rotation[k1] \in Seq(Provider)
    <3>1. Rotation[k1] \in Seq(Nat)
      BY RunAssumption
    <3>2. \A i \in 1..Len(Rotation[k1]) : Rotation[k1][i] \in ToSet(Rotation[k1])
      BY <3>1 DEF ToSet
    <3>3. \A i \in 1..Len(Rotation[k1]) : Rotation[k1][i] \in Provider
      BY <3>2 DEF Provider
    <3> QED
      BY <3>1, <3>3
  <2>2. \A t \in Opinions : t[2] \in 1..NOpinion
    BY DEF Opinions
  <2> QED
    BY <2>1, <2>2 DEF Init
<1>4. <<>> \in Seq(1..NFinding) /\ ToSet(<<>>) = {} /\ IsInjective(<<>>)
  BY DEF ToSet, IsInjective
<1>5. RunTypes
  <2>1. tstate \in [Task -> TaskState]
    BY <1>1 DEF TaskState
  <2>2. attempts \in [Task -> 0..(MaxPaused + MaxFailed)]
    BY Bounds DEF Init
  <2>3. raiser \in [1..NFinding -> Nat]
    BY NodeFacts DEF Init
  <2> QED
    BY <1>3, <1>4, <2>1, <2>2, <2>3 DEF Init, RunTypes
<1>6. RunRules
  BY <1>2, <1>4, Bounds, NodeFacts DEF Init, RunRules
<1>7. Calls
  BY DEF Init, Calls, CallTypes, CallRules, CallState
<1>8. Callers
  BY <1>2, NodeFacts DEF Init, Callers, Idle
<1>9. RestInv
  BY Bounds DEF Init, RestInv, AskInv, Thinking, Idle, Tally, LinkInv, MeshInv
<1>10. OpinionsDiffer
  BY NodeFacts DEF Init, OpinionsDiffer
<1>11. MachineTakesOne
  BY <1>2 DEF MachineTakesOne, Running
<1> QED
  BY <1>5, <1>6, <1>7, <1>8, <1>9, <1>10, <1>11 DEF DispatchInv

(* The invariant is inductive.                                             *)
LEMMA DispatchKept ==
  ASSUME DispatchInv, [Next]_vars
  PROVE  DispatchInv'
  BY RunKept, CallsKept, RestKept DEF DispatchInv

(* Where a hand-out leaves a caller.                                       *)
LEMMA HandedOut ==
  ASSUME DispatchInv, NEW pairs, HandsOut(pairs), HandOut(pairs)
  PROVE  \A c \in Caller : \/ \E p \in pairs : p[1] = c /\ at'[c] = p[2]
                           \/ at'[c] = at[c] /\ call'[c] = call[c]
<1>1. pairs \in SUBSET (Caller \X Node) /\ \A p, q \in pairs : p[1] = q[1] => p = q
  BY DEF HandsOut
<1> QED
  BY <1>1, HandOutGives DEF DispatchInv, Calls

(* The steps of dispatch_all that hand nothing out leave every task where  *)
(* it is, or take one off its node with its call.                          *)
LEMMA OthersStay ==
  ASSUME DispatchInv, [Next]_vars, ~Round, ~Place
  PROVE  \A t \in Task : \/ at'[t] = at[t] /\ (tstate'[t] = "running" => tstate[t] = "running")
                         \/ at'[t] = NoNode
<1>1. Callers /\ Callers' /\ at \in [Caller -> Node \cup {NoNode}]
  BY CallsKept DEF DispatchInv, Calls, CallTypes
<1>2. CASE ~Dispatch
  BY <1>2, RunAlone
<1>3. CASE Finish
  BY <1>3 DEF Finish
<1>4. CASE PollTimeout
  BY <1>4 DEF PollTimeout, Pending
<1>5. ASSUME NEW s \in Task, Result(s)
      PROVE  \A t \in Task : \/ at'[t] = at[t] /\ (tstate'[t] = "running" => tstate[t] = "running")
                             \/ at'[t] = NoNode
  <2>1. /\ s \in Running /\ call' = [call EXCEPT ![s] = "none"]
        /\ at' = at \/ at' = [at EXCEPT ![s] = NoNode]
    BY <1>5 DEF Result
  <2>2. \A t \in Task : at'[t] = at[t] \/ at'[t] = NoNode
    BY <1>1, <2>1, NodeFacts
  <2>3. \A t \in Task : call'[t] # "none" => call[t] # "none"
    BY <2>1, NodeFacts DEF DispatchInv, Calls, CallTypes
  <2> QED
    BY <1>1, <2>2, <2>3 DEF Callers
<1> QED
  BY <1>2, <1>3, <1>4, <1>5 DEF Dispatch

(* A round gives a review to a provider that none has gone to before.      *)
LEMMA OpinionsStayApart ==
  ASSUME DispatchInv, OpinionsDiffer, [Next]_vars
  PROVE  OpinionsDiffer'
<1> SUFFICES ASSUME NEW s \in Opinions, NEW t \in Opinions, s # t, at'[s] # NoNode
             PROVE  at'[s] # at'[t]
  BY DEF OpinionsDiffer
<1>1. s \in Task /\ t \in Task /\ s \in Caller /\ t \in Caller
  BY NodeFacts
<1>2. CASE ~Round /\ ~Place
  BY <1>1, <1>2, OthersStay DEF OpinionsDiffer
<1>3. CASE Place
  <2> DEFINE pairs == Assign(Needs, Known, Free \ Occupied)
  <2>1. HandsOut(pairs) /\ HandOut(pairs)
    BY <1>3, PlaceHandsOut DEF Place
  <2>2. pairs \in SUBSET ((Pending \cap (Chunks \cup Checks)) \X (Machine \ Occupied))
    BY PlacedApart DEF DispatchInv, RunTypes, RunRules, RestInv, MeshInv
  <2> HIDE DEF pairs
  <2>3. \A p \in pairs : p[1] \in Chunks \cup Checks
    BY <2>2
  <2>4. at'[s] = at[s] /\ at'[t] = at[t]
    BY <1>1, <2>1, <2>3, HandedOut, NodeFacts
  <2> QED
    BY <2>4 DEF OpinionsDiffer
<1>4. CASE Round
  <2>1. HandsOut(Sent) /\ HandOut(Sent)
    BY <1>4, RoundHandsOut DEF Round
  <2>2. /\ \A a \in Sent : a[2] \notin used
        /\ \A a, b \in Sent : a[2] = b[2] => a = b
    BY SentIsFresh DEF DispatchInv, RunTypes
  <2>3. ASSUME NEW c \in Opinions
        PROVE  \/ \E p \in Sent : p[1] = c /\ at'[c] = p[2]
               \/ at'[c] = at[c] /\ at[c] \in used \cup {NoNode}
    BY <2>1, HandedOut, NodeFacts DEF DispatchInv, RunRules
  <2>4. CASE at'[s] = at[s] /\ at'[t] = at[t]
    BY <2>4 DEF OpinionsDiffer
  <2>5. CASE \E p \in Sent : p[1] = s /\ at'[s] = p[2]
    <3>1. PICK p \in Sent : p[1] = s /\ at'[s] = p[2]
      BY <2>5
    <3>2. CASE \E q \in Sent : q[1] = t /\ at'[t] = q[2]
      BY <2>2, <3>1, <3>2
    <3>3. CASE at'[t] \in used \cup {NoNode}
      BY <2>2, <3>1, <3>3
    <3> QED
      BY <2>3, <3>2, <3>3
  <2>6. CASE /\ at'[s] = at[s] /\ at[s] \in used \cup {NoNode}
             /\ \E q \in Sent : q[1] = t /\ at'[t] = q[2]
    BY <2>2, <2>6
  <2> QED
    BY <2>3, <2>4, <2>5, <2>6
<1> QED
  BY <1>2, <1>3, <1>4

(* Place gives a machine to one task, and none to a machine that has one.  *)
LEMMA MachinesStayApart ==
  ASSUME DispatchInv, MachineTakesOne, [Next]_vars
  PROVE  MachineTakesOne'
<1> SUFFICES ASSUME NEW s \in Task, NEW t \in Task, s # t, at'[s] \in Machine,
                    tstate'[s] = "running", tstate'[t] = "running"
             PROVE  at'[s] # at'[t]
  BY DEF MachineTakesOne, Running
<1>1. s \in Caller /\ t \in Caller /\ NoNode \notin Machine
  BY NodeFacts
<1>2. Callers /\ Callers'
  BY CallsKept DEF DispatchInv
<1>3. CASE ~Round /\ ~Place
  BY <1>1, <1>3, OthersStay DEF MachineTakesOne, Running
<1>4. ASSUME NEW pairs, HandsOut(pairs), HandOut(pairs),
             \A p \in pairs : p[2] \in Machine => p[2] \notin Occupied
      PROVE  at'[s] # at'[t]
  <2>1. ASSUME NEW c \in Task, tstate'[c] = "running"
        PROVE  \/ \E p \in pairs : p[1] = c /\ at'[c] = p[2]
               \/ at'[c] = at[c] /\ c \in Running /\ at[c] \in Occupied
    <3>1. CASE at'[c] = at[c] /\ call'[c] = call[c]
      BY <1>2, <2>1, <3>1 DEF Callers, Running, Occupied
    <3> QED
      BY <1>4, <3>1, HandedOut, NodeFacts
  <2>2. CASE \E p \in pairs : p[1] = s /\ at'[s] = p[2]
    <3>1. PICK p \in pairs : p[1] = s /\ at'[s] = p[2]
      BY <2>2
    <3>2. CASE \E q \in pairs : q[1] = t /\ at'[t] = q[2]
      BY <1>4, <3>1, <3>2 DEF HandsOut
    <3>3. CASE at'[t] \in Occupied
      BY <1>4, <3>1, <3>3
    <3> QED
      BY <2>1, <3>2, <3>3
  <2>3. CASE at'[s] = at[s] /\ s \in Running /\ at[s] \in Occupied
    <3>1. CASE \E q \in pairs : q[1] = t /\ at'[t] = q[2]
      BY <1>4, <2>3, <3>1
    <3>2. CASE at'[t] = at[t] /\ t \in Running
      BY <2>3, <3>2 DEF MachineTakesOne
    <3> QED
      BY <2>1, <3>1, <3>2
  <2> QED
    BY <2>1, <2>2, <2>3
<1>5. CASE Round
  <2>1. HandsOut(Sent) /\ HandOut(Sent)
    BY <1>5, RoundHandsOut DEF Round
  <2>2. \A p \in Sent : p[2] \in Provider
    BY SentIsFresh DEF DispatchInv, RunTypes
  <2> QED
    BY <1>4, <2>1, <2>2, RunAssumption
<1>6. CASE Place
  <2> DEFINE pairs == Assign(Needs, Known, Free \ Occupied)
  <2>1. HandsOut(pairs) /\ HandOut(pairs)
    BY <1>6, PlaceHandsOut DEF Place
  <2>2. pairs \in SUBSET ((Pending \cap (Chunks \cup Checks)) \X (Machine \ Occupied))
    BY PlacedApart DEF DispatchInv, RunTypes, RunRules, RestInv, MeshInv
  <2> HIDE DEF pairs
  <2>3. \A p \in pairs : p[2] \notin Occupied
    BY <2>2
  <2> QED
    BY <1>4, <2>1, <2>3
<1> QED
  BY <1>3, <1>5, <1>6

(* Whatever the order of calls, answers, home commands and drop-outs, the  *)
(* run's state stays of its type; among it, a task runs exactly while it   *)
(* has a call, and a finding has a check exactly when it is on the list.   *)
THEOREM DispatchTyping == Spec => []TypeOK
<1>1. QED
  BY DispatchStarts, DispatchKept, DispatchInvTypes, PTL DEF Spec

(* However slowly the coordinator learns of a hand-out, a run has one task *)
(* of its own on a machine: the machines of its running tasks are taken.   *)
THEOREM OneTaskEach == Spec => []MachineTakesOne
<1>1. QED
  BY DispatchStarts, DispatchKept, MachinesStayApart, PTL DEF Spec

(* With any machines listed and free, the tasks that wait are assigned as  *)
(* assign() promises.                                                      *)
THEOREM SoundAssignment == Spec => []AssignmentIsSound
<1>1. DispatchInv => AssignmentIsSound
  <2> SUFFICES ASSUME DispatchInv, NEW L \in SUBSET Machine, NEW F \in SUBSET L
               PROVE  IsAssignment(Assign(Needs, L, F), Needs, L, F)
    BY DEF AssignmentIsSound
  <2>1. Listed(Needs)
    BY NeedsListed DEF DispatchInv, RunTypes, RunRules
  <2> QED
    BY <2>1, AssignIsAssignment
<1>2. QED
  BY <1>1, DispatchStarts, DispatchKept, PTL DEF Spec

(* A provider that failed for one review is not tried for the other, and   *)
(* one that reviews is not given the second review too.                    *)
THEOREM DifferentOpinions == Spec => []OpinionsDiffer
<1>1. QED
  BY DispatchStarts, DispatchKept, OpinionsStayApart, PTL DEF Spec

-----------------------------------------------------------------------------
(* A task that exists stays one, a raised finding has its check, and the   *)
(* end comes only from the top of the loop with nothing left.              *)
TasksInv ==
    /\ tstate \in [Task -> {"none", "pending", "running", "done", "gaveup"}]
    /\ tstate[<<"chunk", 1>>] # "none"
    /\ \A f \in 1..NFinding : raiser[f] # NoNode => tstate[<<"check", f>>] # "none"
    /\ EndedIsComplete

(* Every step keeps the tasks.                                             *)
LEMMA TasksKept ==
  ASSUME TasksInv, DispatchInv, [Next]_vars
  PROVE  TasksInv'
<1> USE RunAssumption DEF TasksInv
<1>1. <<"chunk", 1>> \in Task /\ \A f \in 1..NFinding : <<"check", f>> \in Task
  BY DEF Task, Chunks, Checks
<1>2. ASSUME UNCHANGED <<loop, tstate, raiser>>
      PROVE  TasksInv'
  BY <1>2 DEF EndedIsComplete, Ended
<1>3. ASSUME Finish
      PROVE  TasksInv'
  <2>1. \A t \in Task : tstate[t] \in {"none", "done", "gaveup"}
    BY <1>3 DEF Finish, NothingLeft, Pending, Running
  <2> QED
    BY <1>3, <2>1 DEF Finish, EndedIsComplete, plan
(* No other step of the loop ends it, or takes a task away.                *)
<1>4. ASSUME loop' \in {"top", "snapshot", "wait"},
             tstate' \in [Task -> {"none", "pending", "running", "done", "gaveup"}],
             \A t \in Task : tstate[t] # "none" => tstate'[t] # "none",
             \A f \in 1..NFinding : raiser'[f] \in {raiser[f], NoNode}
                                      \/ tstate'[<<"check", f>>] # "none"
      PROVE  TasksInv'
  BY <1>1, <1>4 DEF EndedIsComplete, Ended
<1>5. ASSUME Round
      PROVE  TasksInv'
  BY <1>4, <1>5 DEF Round, Pending
<1>6. ASSUME Place
      PROVE  TasksInv'
  BY <1>4, <1>6 DEF Place, plan
<1>7. ASSUME NEW t \in Task, Result(t)
      PROVE  TasksInv'
  <2>1. CASE call[t] = "finished"
    <3>0. Raise(t) /\ checks \in Seq(1..NFinding)
      BY <1>7, <2>1 DEF Result, DispatchInv, RunTypes
    <3>1. PICK new \in SUBSET (1..NFinding), s \in Seq(1..NFinding) : Raises(t, new, s)
      BY <3>0, RaisedByTask
    <3> USE DEF Raises
    <3>2. \A f \in 1..NFinding : raiser'[f] = raiser[f] \/ tstate'[<<"check", f>>] # "none"
      BY <1>1, <3>1
    <3> QED
      BY <1>4, <1>7, <3>1, <3>2 DEF Result
  <2>2. CASE call[t] # "finished"
    <3>1. Back(t) \in {"pending", "gaveup"}
      BY DEF Back
    <3>2. tstate' = [tstate EXCEPT ![t] = Back(t)] /\ raiser' = raiser
      BY <1>7, <2>2 DEF Result
    <3> HIDE DEF Back
    <3> QED
      BY <1>4, <1>7, <3>1, <3>2 DEF Result
  <2> QED
    BY <2>1, <2>2
<1>8. ASSUME PollTimeout
      PROVE  TasksInv'
  BY <1>4, <1>8 DEF PollTimeout, plan
<1>9. ASSUME \/ TimePasses \/ Ask \/ Asker
             \/ \E c \in Caller : Register(c) \/ Send(c) \/ Timeout(c)
             \/ Disconnect \/ Connect \/ SetTx \/ Drain
             \/ \E w \in work : Accept(w) \/ Refuse(w) \/ WorkEnds(w)
             \/ \E m \in Machine : HomeCommand(m) \/ HomeOver(m) \/ DropOut(m) \/ Return(m)
             \/ UNCHANGED vars
      PROVE  TasksInv'
  <2>1. UNCHANGED <<loop, tstate, raiser>>
    BY <1>9 DEF TimePasses, Ask, Asker, AskStart, AskSends, AskGivesUp, AskResult, Register,
       Send, Timeout, Disconnect, Connect, SetTx, Drain, Accept, Refuse, WorkEnds,
       HomeCommand, HomeOver, DropOut, Return, run, plan, vars
  <2> QED
    BY <1>2, <2>1
<1> QED
  BY <1>3, <1>5, <1>6, <1>7, <1>8, <1>9 DEF Next, Dispatch

(* A run that ended has dealt with every task, the checks of all findings  *)
(* among them, however often tasks were put back or given up.              *)
THEOREM EndsComplete == Spec => []EndedIsComplete
<1>1. Init => TasksInv
  <2> SUFFICES ASSUME Init
               PROVE  TasksInv
    OBVIOUS
  <2>1. PICK n \in 1..NChunk, k \in 0..NOpinion :
           tstate = [t \in Task |-> IF t \in {"chunk"} \X (1..n) \cup {"opinion"} \X (1..k)
                                   THEN "pending" ELSE "none"]
    BY DEF Init
  <2>2. <<"chunk", 1>> \in Task /\ <<"chunk", 1>> \in {"chunk"} \X (1..n)
    BY RunAssumption DEF Task, Chunks
  <2> QED
    BY <2>1, <2>2 DEF Init, TasksInv, EndedIsComplete, Ended
<1>2. TasksInv => EndedIsComplete
  BY DEF TasksInv
<1>3. QED
  BY <1>1, <1>2, TasksKept, DispatchStarts, DispatchKept, PTL DEF Spec

-----------------------------------------------------------------------------
(* A call that waits for its answer does not wait for nothing: the         *)
(* coordinator has its request, on the newest connection, or a connection  *)
(* is lost or new and the drain of the waiters is still to come.           *)
OnItsWay(c)   == \E w \in work : w.from = c /\ w.awaited /\ w.conn = conn
CallIsAwaited == \A c \in Caller : call[c] = "sent" => OnItsWay(c) \/ ~up \/ starting # "no"

(* start() sets tx before it drains: what is sent in between goes out.     *)
TxBeforeDrain == tx # conn => starting = "tx"

LEMMA TxBeforeDrainKept ==
  ASSUME TxBeforeDrain, [Next]_vars
  PROVE  TxBeforeDrain'
<1> USE DEF TxBeforeDrain, link
<1>1. CASE UNCHANGED link
  BY <1>1
<1>2. CASE Disconnect \/ Connect \/ SetTx \/ Drain
  BY <1>2 DEF Disconnect, Connect, SetTx, Drain
<1>3. UNCHANGED link \/ Disconnect \/ Connect \/ SetTx \/ Drain
  BY DEF Next, Dispatch, Finish, Round, Place, PollTimeout, Result, TimePasses, Ask, Asker,
     AskStart, AskSends, AskGivesUp, AskResult, Register, Send, Timeout, Accept, Refuse,
     WorkEnds, HomeCommand, HomeOver, DropOut, Return, vars
<1> QED
  BY <1>1, <1>2, <1>3

LEMMA CallIsAwaitedKept ==
  ASSUME DispatchInv, TxBeforeDrain, CallIsAwaited, [Next]_vars
  PROVE  CallIsAwaited'
<1> USE DEF DispatchInv, Calls, CallTypes
(* Nothing new waits, and the requests of those that do stay.              *)
<1>1. ASSUME UNCHANGED link,
             \A c \in Caller : call'[c] = "sent" => call[c] = "sent",
             \A c \in Caller : call'[c] = "sent" /\ OnItsWay(c) => OnItsWay(c)'
      PROVE  CallIsAwaited'
  BY <1>1 DEF CallIsAwaited, link
<1>2. ASSUME UNCHANGED link, work \subseteq work',
             \A c \in Caller : call'[c] = "sent" => call[c] = "sent"
      PROVE  CallIsAwaited'
  BY <1>1, <1>2 DEF OnItsWay, link
<1>3. CASE \/ Finish \/ TimePasses \/ PollTimeout \/ Ask \/ AskStart \/ AskGivesUp \/ UNCHANGED vars
           \/ \E m \in Machine : HomeOver(m) \/ Return(m)
  <2>1. UNCHANGED <<link, work, call>>
    BY <1>3 DEF Finish, TimePasses, PollTimeout, Ask, AskStart, AskGivesUp, HomeOver, Return, vars
  <2> QED
    BY <1>2, <2>1
<1>4. CASE Round \/ Place \/ AskSends
  <2>1. UNCHANGED <<link, work>> /\ \E pairs : HandOut(pairs)
    BY <1>4 DEF Round, Place, AskSends
  <2>2. \A c \in Caller : call'[c] = "sent" => call[c] = "sent"
    BY <2>1 DEF HandOut
  <2> QED
    BY <1>2, <2>1, <2>2
<1>5. CASE AskResult \/ (\E t \in Task : Result(t)) \/ \E c \in Caller : Register(c)
  <2>1. UNCHANGED <<link, work>>
    BY <1>5 DEF AskResult, Result, Register
  <2>2. \E d \in Caller : call' = [call EXCEPT ![d] = "none"] \/ call' = [call EXCEPT ![d] = "registered"]
    BY <1>5, NodeFacts DEF AskResult, Result, Register
  <2>3. \A c \in Caller : call'[c] = "sent" => call[c] = "sent"
    BY <2>2
  <2> QED
    BY <1>2, <2>1, <2>3
(* What is sent on the newest connection is on its way; what is lost goes  *)
(* out while tx is another one, or the connection is gone.                 *)
<1>6. ASSUME NEW c \in Caller, Send(c)
      PROVE  CallIsAwaited'
  <2> DEFINE r == [from |-> c, node |-> at[c], conn |-> conn,
                   accepted |-> FALSE, awaited |-> call[c] = "registered"]
  <2>1. /\ call[c] \in {"registered", "drained"} /\ UNCHANGED link
        /\ \/ /\ work' = work \cup {r}
              /\ call' = [call EXCEPT ![c] = IF @ = "drained" THEN "failed" ELSE "sent"]
           \/ work' = work /\ call' = [call EXCEPT ![c] = "failed"]
           \/ ~Live /\ work' = work /\ call' = [call EXCEPT ![c] = "sent"]
    BY <1>6 DEF Send
  <2>2. work \subseteq work' /\ \A d \in Caller : d # c => call'[d] = call[d]
    BY <2>1
  <2>3. \A d \in Caller : d # c /\ call'[d] = "sent" => OnItsWay(d)' \/ ~up' \/ starting' # "no"
    BY <2>1, <2>2 DEF CallIsAwaited, OnItsWay, link
  <2>4. call'[c] = "sent" => OnItsWay(c)' \/ ~up' \/ starting' # "no"
    <3>1. CASE /\ work' = work \cup {r}
               /\ call' = [call EXCEPT ![c] = IF @ = "drained" THEN "failed" ELSE "sent"]
      <4>1. r \in work' /\ r.from = c /\ r.conn = conn /\ conn' = conn
        BY <2>1, <3>1 DEF link
      <4>2. call'[c] = "sent" => r.awaited
        BY <2>1, <3>1
      <4> HIDE DEF r
      <4> QED
        BY <4>1, <4>2 DEF OnItsWay
    <3>2. CASE call' = [call EXCEPT ![c] = "failed"]
      BY <3>2
    <3>3. CASE ~Live
      BY <2>1, <3>3 DEF Live, TxBeforeDrain, link
    <3> QED
      BY <2>1, <3>1, <3>2, <3>3
  <2> QED
    BY <2>3, <2>4 DEF CallIsAwaited
<1>7. ASSUME NEW c \in Caller, Timeout(c)
      PROVE  CallIsAwaited'
  <2> DEFINE Off(w) == [w EXCEPT !.awaited = @ /\ w.from \notin {c}]
  <2>1. /\ UNCHANGED link /\ call' = [call EXCEPT ![c] = "failed"]
        /\ work' = {Off(w) : w \in work}
    BY <1>7 DEF Timeout, Withdraw
  <2>2. \A w \in work : Off(w).from = w.from /\ Off(w).conn = w.conn
                          /\ (w.awaited /\ w.from # c => Off(w).awaited)
    BY DEF Request
  <2> HIDE DEF Off
  <2>3. \A d \in Caller : call'[d] = "sent" => call[d] = "sent" /\ d # c
    BY <2>1
  <2>4. \A d \in Caller : d # c /\ OnItsWay(d) => OnItsWay(d)'
    BY <2>1, <2>2 DEF OnItsWay, link
  <2> QED
    BY <1>1, <2>1, <2>3, <2>4
(* A connection that is lost, or new, will drain; the drain leaves nothing *)
(* waiting.                                                                *)
<1>8. CASE Disconnect \/ Connect \/ SetTx
  <2>1. ~up' \/ starting' # "no"
    BY <1>8 DEF Disconnect, Connect, SetTx
  <2> QED
    BY <2>1 DEF CallIsAwaited
<1>9. CASE Drain
  <2>1. \A c \in Caller : call'[c] # "sent"
    BY <1>9 DEF Drain
  <2> QED
    BY <2>1 DEF CallIsAwaited
(* The coordinator: a request on the newest connection that it takes out   *)
(* is answered there.                                                      *)
<1>10. ASSUME NEW w \in work, Accept(w)
       PROVE  CallIsAwaited'
  <2> DEFINE a == [w EXCEPT !.accepted = TRUE]
  <2>1. UNCHANGED <<call, link>> /\ work' = (work \ {w}) \cup {a}
    BY <1>10 DEF Accept
  <2>2. a.from = w.from /\ a.awaited = w.awaited /\ a.conn = w.conn
    BY DEF Request
  <2> HIDE DEF a
  <2>3. \A c \in Caller : OnItsWay(c) => OnItsWay(c)'
    BY <2>1, <2>2 DEF OnItsWay, link
  <2> QED
    BY <1>1, <2>1, <2>3
<1>11. ASSUME NEW gone \in SUBSET work, NEW o \in Outcome, Answer(gone, o), UNCHANGED link
       PROVE  CallIsAwaited'
  <2> DEFINE Told(c) == \E w \in gone : w.from = c /\ w.awaited /\ up /\ w.conn = conn
  <2>1. /\ work' = work \ gone
        /\ \A c \in Caller : call'[c] = IF Told(c) THEN o ELSE call[c]
    BY <1>11 DEF Answer
  <2>2. ASSUME NEW c \in Caller, call'[c] = "sent"
        PROVE  OnItsWay(c)' \/ ~up' \/ starting' # "no"
    <3>1. call[c] = "sent" /\ ~Told(c)
      BY <2>1, <2>2 DEF Outcome
    <3>2. up /\ OnItsWay(c) => OnItsWay(c)'
      BY <1>11, <2>1, <3>1 DEF OnItsWay, link
    <3> QED
      BY <1>11, <3>1, <3>2 DEF CallIsAwaited, link
  <2> QED
    BY <2>2 DEF CallIsAwaited
<1>12. CASE \/ \E w \in work : Refuse(w) \/ WorkEnds(w)
            \/ \E m \in Machine : HomeCommand(m) \/ DropOut(m)
  <2>1. PICK gone \in SUBSET work, o \in Outcome : Answer(gone, o) /\ UNCHANGED link
    BY <1>12 DEF Refuse, WorkEnds, HomeCommand, DropOut, Outcome
  <2> QED
    BY <1>11, <2>1
<1> QED
  BY <1>3, <1>4, <1>5, <1>6, <1>7, <1>8, <1>9, <1>10, <1>12 DEF Next, Dispatch, Asker

(* No call is left waiting for an answer nobody will give, whatever        *)
(* connection its request went out on, was lost with or is answered on     *)
(* (lib.rs, infer and start): what CallEnds rests on.                      *)
THEOREM NoCallForgotten == Spec => []CallIsAwaited
<1>1. Init => CallIsAwaited /\ TxBeforeDrain
  BY DEF Init, CallIsAwaited, TxBeforeDrain
<1>2. Init => DispatchInv
  BY DispatchStarts
<1> QED
  BY <1>1, <1>2, DispatchKept, TxBeforeDrainKept, CallIsAwaitedKept, PTL DEF Spec

=============================================================================
