--------------------------- MODULE LlmAgentProofs ---------------------------
(***************************************************************************)
(* The invariants of the llm capability, for any number of models,         *)
(* connections, commands and requests: its types, what is loaded is served *)
(* and listed, and a generation can be cancelled.                          *)
(***************************************************************************)
EXTENDS LlmAgent, TLAPS, FiniteSetTheorems

AnyAttempt == [step : AttemptStep, model : Model \cup {NoModel}, gen : Nat]

(* What the steps of a load need to know of the shape of the state.        *)
Shape ==
    /\ conn \in Conn
    /\ sent \in 0..MaxCommand
    /\ inbox \subseteq Message
    /\ gen \in Nat
    /\ wanted \in Model \cup {NoModel}
    /\ guard \in Seq(Waiter)
    /\ loaded \in Model \cup {NoModel}
    /\ attempt \in [Chain -> AnyAttempt]
    /\ server \in Model \cup {NoModel}
    /\ unload \in [step : UnloadStep, model : Model \cup {NoModel}, conn : Conn]

Guarded(c) == attempt[c].step \in {"pulling", "starting"}

(* LoadedIsServed and what makes it inductive: a pull holds the guard and  *)
(* has nothing loaded beside it, the server is the one of the attempt that *)
(* is starting or was killed, and an unload past the guard leaves nothing  *)
(* loaded until it is through.                                             *)
LoadInv ==
    /\ Shape
    /\ \A c \in Chain : Guarded(c) => Holds(<<"load", c>>) /\ loaded = NoModel
    /\ \A c \in Chain : attempt[c].step = "starting" => server \in {NoModel, attempt[c].model}
    /\ unload.step \in {"cleared", "flagged", "killed"} => loaded = NoModel
    /\ LoadedIsServed

(* What the guard does to its queue.                                       *)
LEMMA GuardQueue ==
  ASSUME guard \in Seq(Waiter), NEW w \in Waiter
  PROVE  /\ Append(guard, w) \in Seq(Waiter)
         /\ guard # <<>> => /\ Append(guard, w) # <<>>
                            /\ Head(Append(guard, w)) = Head(guard)
         /\ guard # <<>> => Tail(guard) \in Seq(Waiter)
  OBVIOUS

(* Two attempts never pull or start a server at once: the guard is one.    *)
LEMMA OneGuarded ==
  ASSUME LoadInv, NEW c \in Chain, NEW d \in Chain, Guarded(c), Guarded(d)
  PROVE  c = d
  BY DEF LoadInv, Holds

(* Whoever holds the guard and is not pulling keeps every attempt out.     *)
LEMMA NoneGuarded ==
  ASSUME LoadInv, NEW w, Holds(w),
         \A c \in Chain : w = <<"load", c>> => ~Guarded(c)
  PROVE  \A c \in Chain : ~Guarded(c)
  BY DEF LoadInv, Holds

LEMMA LoadInvKept ==
  ASSUME LoadInv, [Next]_vars
  PROVE  LoadInv'
<1> USE ModelAssumption, BoundAssumption
<1> USE DEF LoadInv, Shape, Guarded, LoadedIsServed, loading, tasks, bounds
<1>1. ASSUME UNCHANGED <<conn, sent, inbox, unload, loading>>
      PROVE  LoadInv'
  BY <1>1 DEF Holds
<1>2. ASSUME Shape', UNCHANGED <<guard, loaded, attempt, server, unload>>
      PROVE  LoadInv'
  BY <1>2 DEF Holds
<1>3. ASSUME Connect
      PROVE  LoadInv'
  <2>1. Shape'
    BY <1>3 DEF Connect, Conn
  <2> QED
    BY <1>2, <1>3, <2>1 DEF Connect
<1>4. ASSUME Disconnect
      PROVE  LoadInv'
  BY <1>1, <1>4 DEF Disconnect
<1>5. ASSUME Restart
      PROVE  LoadInv'
  BY <1>5 DEF Restart, Holds, NoAttempt, NoUnload, AnyAttempt, AttemptStep, UnloadStep, Conn
<1>6. ASSUME NEW kind \in {"load", "unload"}, NEW m \in Model, SendCommand(kind, m)
      PROVE  LoadInv'
  <2>1. [kind |-> kind, n |-> sent + 1, model |-> m, conn |-> conn] \in Message
    BY <1>6 DEF SendCommand, Message
  <2>2. Shape'
    BY <1>6, <2>1 DEF SendCommand
  <2> QED
    BY <1>2, <1>6, <2>2 DEF SendCommand
<1>7. ASSUME NEW q \in Req, SendRequest(q) \/ SendCancel(q)
      PROVE  LoadInv'
  <2>1. /\ [kind |-> "request", q |-> q, conn |-> conn] \in Message
        /\ [kind |-> "cancel", q |-> q, conn |-> conn] \in Message
    BY DEF Message
  <2>2. Shape'
    BY <1>7, <2>1 DEF SendRequest, SendCancel
  <2> QED
    BY <1>2, <1>7, <2>2 DEF SendRequest, SendCancel
<1>8. ASSUME NEW c \in Conn, StartSetsTx(c)
      PROVE  LoadInv'
  <2>1. <<"start", c>> \in Waiter
    BY DEF Waiter
  <2> QED
    BY <1>8, <2>1, GuardQueue DEF StartSetsTx, Join, Holds
<1>9. ASSUME NEW c \in Conn, StartReads(c)
      PROVE  LoadInv'
  <2>1. \A d \in Chain : ~Guarded(d)
    BY <1>9, NoneGuarded DEF StartReads, TakesGuard
  <2>2. attempt' \in [Chain -> AnyAttempt]
    BY <1>9 DEF StartReads, SpawnLoad, AnyAttempt, AttemptStep
  <2>3. \A d \in Chain : ~Guarded(d)'
    BY <1>9, <2>1 DEF StartReads, SpawnLoad
  <2>4. guard' \in Seq(Waiter)
    BY <1>9, GuardQueue DEF StartReads, Release, TakesGuard, Holds
  <2> QED
    BY <1>9, <2>2, <2>3, <2>4 DEF StartReads
<1>10. ASSUME NEW msg \in inbox, HandleLoad(msg)
      PROVE  LoadInv'
  <2>1. msg.model \in Model
    BY <1>10 DEF HandleLoad, Message
  <2>2. attempt' \in [Chain -> AnyAttempt]
    <3>1. [step |-> "spawned", model |-> msg.model, gen |-> gen + 1] \in AnyAttempt
      BY <2>1 DEF AnyAttempt, AttemptStep
    <3> QED
      BY <1>10, <3>1 DEF HandleLoad, SpawnLoad
  <2>3. \A d \in Chain : attempt'[d] = attempt[d] \/ attempt'[d].step = "spawned"
    BY <1>10 DEF HandleLoad, SpawnLoad
  <2> QED
    BY <1>10, <2>1, <2>2, <2>3 DEF HandleLoad, Holds
<1>11. ASSUME NEW msg \in inbox, HandleUnload(msg)
      PROVE  LoadInv'
  <2>1. msg.model \in Model /\ msg.conn \in Conn
    BY <1>11 DEF HandleUnload, Message
  <2>2. <<"unload", 0>> \in Waiter
    BY DEF Waiter
  <2> QED
    BY <1>11, <2>1, <2>2, GuardQueue DEF HandleUnload, Join, Holds, UnloadStep
<1>12. ASSUME UnloadClears
      PROVE  LoadInv'
  <2>1. \A d \in Chain : ~Guarded(d)
    BY <1>12, NoneGuarded DEF UnloadClears, TakesGuard
  <2>2. guard' \in Seq(Waiter)
    BY <1>12, GuardQueue DEF UnloadClears, Release, TakesGuard, Holds
  <2> QED
    BY <1>12, <2>1, <2>2 DEF UnloadClears, UnloadStep
<1>13. ASSUME UnloadFlags
      PROVE  LoadInv'
  BY <1>13 DEF UnloadFlags, UnloadStep, Holds
<1>14. ASSUME UnloadKills
      PROVE  LoadInv'
  BY <1>14 DEF UnloadKills, UnloadStep, Holds
<1>15. ASSUME UnloadReports
      PROVE  LoadInv'
  BY <1>15 DEF UnloadReports, NoUnload, UnloadStep, Conn, Holds
<1>16. ASSUME NEW q \in Req, HandleRequest(q) \/ HandleCancel(q)
      PROVE  LoadInv'
  BY <1>2, <1>16 DEF HandleRequest, HandleCancel
<1>17. ASSUME EnterHandle
      PROVE  LoadInv'
  BY <1>1, <1>17 DEF EnterHandle
<1>18. ASSUME NEW c \in Chain, Announce(c)
      PROVE  LoadInv'
  <2>1. <<"load", c>> \in Waiter
    BY DEF Waiter
  <2>2. attempt' \in [Chain -> AnyAttempt]
    BY <1>18 DEF Announce, GoTo, AnyAttempt, AttemptStep
  <2>3. \A d \in Chain : attempt'[d] = attempt[d] \/ attempt'[d].step = "waiting"
    BY <1>18 DEF Announce, GoTo, AnyAttempt
  <2> QED
    BY <1>18, <2>1, <2>2, <2>3, GuardQueue DEF Announce, Join, Holds
<1>19. ASSUME NEW c \in Chain, AlreadyLoaded(c)
      PROVE  LoadInv'
  <2>1. \A d \in Chain : ~Guarded(d)
    BY <1>19, NoneGuarded DEF AlreadyLoaded, TakesGuard
  <2>2. attempt' \in [Chain -> AnyAttempt]
    BY <1>19 DEF AlreadyLoaded, EndOf, NoAttempt, AnyAttempt, AttemptStep
  <2>3. \A d \in Chain : attempt'[d] = attempt[d] \/ attempt'[d].step = "none"
    BY <1>19 DEF AlreadyLoaded, EndOf, NoAttempt
  <2>4. guard' \in Seq(Waiter)
    BY <1>19, GuardQueue DEF AlreadyLoaded, Release, TakesGuard, Holds
  <2> QED
    BY <1>19, <2>1, <2>2, <2>3, <2>4 DEF AlreadyLoaded
<1>20. ASSUME NEW c \in Chain, Pull(c)
      PROVE  LoadInv'
  <2>1. \A d \in Chain : ~Guarded(d)
    BY <1>20, NoneGuarded DEF Pull, TakesGuard
  <2>2. attempt' \in [Chain -> AnyAttempt]
    BY <1>20 DEF Pull, GoTo, AnyAttempt, AttemptStep
  <2>3. \A d \in Chain : d # c => attempt'[d] = attempt[d]
    BY <1>20 DEF Pull, GoTo
  <2>4. attempt'[c].step = "pulling"
    BY <1>20 DEF Pull, GoTo, AnyAttempt
  <2> QED
    BY <1>20, <2>1, <2>2, <2>3, <2>4 DEF Pull, TakesGuard, Holds
<1> DEFINE Others(c, s) == /\ attempt' \in [Chain -> AnyAttempt]
                           /\ \A d \in Chain : d # c => attempt'[d] = attempt[d]
                           /\ attempt'[c].step = s
<1>21. ASSUME NEW c \in Chain, Guarded(c), Release, UNCHANGED <<conn, sent, inbox, gen, wanted, unload>>,
              Others(c, attempt'[c].step), ~Guarded(c)',
              loaded' \in Model \cup {NoModel}, server' \in Model \cup {NoModel},
              loaded' # NoModel => server' = loaded',
              unload.step \in {"cleared", "flagged", "killed"} => loaded' = NoModel
       PROVE  LoadInv'
  <2>1. \A d \in Chain : ~Guarded(d)'
    BY <1>21, OneGuarded
  <2>2. guard' \in Seq(Waiter)
    BY <1>21, GuardQueue DEF Release, Holds
  <2> QED
    BY <1>21, <2>1, <2>2
<1>22. ASSUME NEW c \in Chain, NEW s \in AttemptStep, GoTo(c, s)
       PROVE  Others(c, s)
  BY <1>22 DEF GoTo, AnyAttempt
<1>23. ASSUME NEW c \in Chain, EndOf(c)
       PROVE  Others(c, "none")
  BY <1>23 DEF EndOf, NoAttempt, AnyAttempt, AttemptStep
<1>24. ASSUME NEW c \in Chain, NotResolved(c)
       PROVE  LoadInv'
  <2>1. Others(c, "refused")
    BY <1>22, <1>24 DEF NotResolved, Fails, AttemptStep
  <2> QED
    BY <1>21, <1>24, <2>1 DEF NotResolved, Fails
<1>25. ASSUME NEW c \in Chain, DownloadFails(c)
       PROVE  LoadInv'
  <2>1. Others(c, "failed")
    BY <1>22, <1>25 DEF DownloadFails, Fails, AttemptStep
  <2> QED
    BY <1>21, <1>25, <2>1 DEF DownloadFails, Fails
<1>26. ASSUME NEW c \in Chain, StartServer(c)
       PROVE  LoadInv'
  <2>1. Others(c, "starting")
    BY <1>22, <1>26 DEF StartServer, AttemptStep
  <2>2. attempt'[c].model = attempt[c].model
    BY <1>26 DEF StartServer, GoTo, AnyAttempt
  <2>3. \A d \in Chain : Guarded(d)' => d = c
    BY <1>26, <2>1, OneGuarded DEF StartServer
  <2>4. attempt[c].model \in Model \cup {NoModel}
    BY DEF AnyAttempt
  <2> QED
    BY <1>26, <2>1, <2>2, <2>3, <2>4 DEF StartServer, Holds
<1>27. ASSUME NEW c \in Chain, Unloaded(c)
       PROVE  LoadInv'
  <2>1. Others(c, "none")
    BY <1>23, <1>27 DEF Unloaded
  <2> QED
    BY <1>21, <1>27, <2>1 DEF Unloaded
<1>28. ASSUME NEW c \in Chain, StartupFails(c)
       PROVE  LoadInv'
  <2>1. Others(c, "failed")
    BY <1>22, <1>28 DEF StartupFails, Fails, AttemptStep
  <2> QED
    BY <1>21, <1>28, <2>1 DEF StartupFails, Fails
<1>29. ASSUME NEW c \in Chain, Healthy(c)
       PROVE  LoadInv'
  <2>1. Others(c, "loaded")
    BY <1>22, <1>29 DEF Healthy, AttemptStep
  <2>2. loaded' = server /\ server' = server
    BY <1>29 DEF Healthy
  <2> QED
    BY <1>21, <1>29, <2>1, <2>2 DEF Healthy
<1>30. ASSUME NEW c \in Chain, ReportsReady(c) \/ ReportsFailed(c) \/ Retry(c)
       PROVE  LoadInv'
  <2>1. attempt' \in [Chain -> AnyAttempt]
    BY <1>22, <1>23, <1>30 DEF ReportsReady, ReportsFailed, Retry, AttemptStep
  <2>2. \A d \in Chain : attempt'[d] = attempt[d] \/ ~Guarded(d)'
    BY <1>22, <1>23, <1>30 DEF ReportsReady, ReportsFailed, Retry, AttemptStep
  <2> QED
    BY <1>30, <2>1, <2>2 DEF ReportsReady, ReportsFailed, Retry, Holds
<1>31. ASSUME NEW q \in Req, AcquirePermit(q) \/ Finish(q)
       PROVE  LoadInv'
  BY <1>1, <1>31 DEF AcquirePermit, Finish
<1>32. CASE UNCHANGED vars
  BY <1>1, <1>32 DEF vars
<1> QED
  BY <1>3, <1>4, <1>5, <1>6, <1>7, <1>8, <1>9, <1>10, <1>11, <1>12, <1>13, <1>14,
     <1>15, <1>16, <1>17, <1>18, <1>19, <1>20, <1>24, <1>25, <1>26, <1>27, <1>28,
     <1>29, <1>30, <1>31, <1>32
  DEF Next, Environment, Start, Handle, Unload, Load, PullStep, Startup, Generate

(* What the guard names as loaded is what llama-server runs, through every *)
(* crossing of loads, retries, unloads, reconnects and restarts.           *)
THEOREM LoadedServed == Spec => []LoadedIsServed
<1>1. Init => LoadInv
  BY ModelAssumption, BoundAssumption
  DEF Init, LoadInv, Shape, Guarded, LoadedIsServed, NoAttempt, NoUnload, AnyAttempt,
      AttemptStep, UnloadStep, Conn
<1>2. LoadInv => LoadedIsServed
  BY DEF LoadInv
<1>3. QED
  BY <1>1, <1>2, LoadInvKept, PTL DEF Spec

-----------------------------------------------------------------------------
(* A request's task is in INFLIGHT from the moment a cancel could be       *)
(* handled until it ends.                                                  *)
THEOREM Cancellable == Spec => []RunningIsCancellable
<1> DEFINE Inv == task \in [Req -> {"none", "queued", "running", "done"}] /\ RunningIsCancellable
<1> USE ReqAssumption
<1>1. Init => Inv
  BY DEF Init, RunningIsCancellable
<1>2. Inv /\ [Next]_vars => Inv'
  <2> SUFFICES ASSUME Inv, [Next]_vars
               PROVE  Inv'
    OBVIOUS
  <2> USE DEF RunningIsCancellable, tasks
  <2>1. ASSUME UNCHANGED tasks
        PROVE  Inv'
    BY <2>1
  <2>2. ASSUME NEW q \in Req, HandleRequest(q)
        PROVE  Inv'
    BY <2>2 DEF HandleRequest, SlotFree
  <2>3. ASSUME EnterHandle
        PROVE  Inv'
    BY <2>3 DEF EnterHandle
  <2>4. ASSUME NEW q \in Req, HandleCancel(q)
        PROVE  Inv'
    BY <2>4 DEF HandleCancel, SlotFree
  <2>5. ASSUME NEW q \in Req, AcquirePermit(q)
        PROVE  Inv'
    BY <2>5 DEF AcquirePermit
  <2>6. ASSUME NEW q \in Req, Finish(q)
        PROVE  Inv'
    BY <2>6 DEF Finish
  <2>7. ASSUME Restart
        PROVE  Inv'
    BY <2>7 DEF Restart
  <2>8. ASSUME \/ Connect \/ Disconnect
               \/ \E kind \in {"load", "unload"}, m \in Model : SendCommand(kind, m)
               \/ \E q \in Req : SendRequest(q) \/ SendCancel(q)
               \/ \E c \in Conn : Start(c)
               \/ \E msg \in inbox : HandleLoad(msg) \/ HandleUnload(msg)
               \/ Unload
        PROVE  Inv'
    BY <2>1, <2>8 DEF Connect, Disconnect, SendCommand, SendRequest, SendCancel,
       Start, StartSetsTx, StartReads, HandleLoad, HandleUnload, Unload,
       UnloadClears, UnloadFlags, UnloadKills, UnloadReports
  <2>9. ASSUME NEW c \in Chain, Load(c)
        PROVE  Inv'
    BY <2>1, <2>9 DEF Load, Announce, AlreadyLoaded, Pull, PullStep, NotResolved,
       DownloadFails, StartServer, Startup, Unloaded, StartupFails, Healthy, Fails,
       ReportsReady, ReportsFailed, Retry
  <2>10. CASE UNCHANGED vars
    BY <2>1, <2>10 DEF vars
  <2> QED
    BY <2>2, <2>3, <2>4, <2>5, <2>6, <2>7, <2>8, <2>9, <2>10
    DEF Next, Environment, Handle, Generate
<1>3. QED
  BY <1>1, <1>2, PTL DEF Spec

-----------------------------------------------------------------------------
(* The types.  A generation number is a command that has been handled, so  *)
(* it stays below those that were sent: with those still on their way it   *)
(* makes up no more than all of them.                                      *)
Commands == {msg \in inbox : msg.kind \in {"load", "unload"}}
Numbered == IsFiniteSet(Commands) /\ gen + Cardinality(Commands) \leq sent

LEMMA AttemptForm ==
  /\ NoAttempt \in Attempt
  /\ \A s \in AttemptStep \ {"none"}, m \in Model, g \in 0..MaxCommand :
        [step |-> s, model |-> m, gen |-> g] \in Attempt
  /\ \A a \in Attempt : a # NoAttempt =>
        a \in [step : AttemptStep \ {"none"}, model : Model, gen : 0..MaxCommand]
  BY DEF Attempt, Asked

(* Moving on keeps an attempt's model and generation.                      *)
LEMMA GoToTypes ==
  ASSUME attempt \in [Chain -> Attempt], NEW c \in Chain, attempt[c].step # "none",
         NEW s \in AttemptStep \ {"none"}, GoTo(c, s)
  PROVE  attempt' \in [Chain -> Attempt]
<1>1. attempt[c] # NoAttempt
  BY DEF NoAttempt
<1>2. [attempt[c] EXCEPT !.step = s] \in Attempt
  <2>1. attempt[c] \in [step : AttemptStep \ {"none"}, model : Model, gen : 0..MaxCommand]
    BY <1>1, AttemptForm
  <2> DEFINE b == [step |-> s, model |-> attempt[c].model, gen |-> attempt[c].gen]
  <2>2. [attempt[c] EXCEPT !.step = s] = b
    BY <2>1
  <2>3. b \in Attempt
    BY <2>1, AttemptForm
  <2> QED
    BY <2>2, <2>3
<1> QED
  BY <1>2 DEF GoTo

LEMMA SpawnTypes ==
  ASSUME attempt \in [Chain -> Attempt], NEW c \in Chain, NEW m \in Model,
         NEW g \in 0..MaxCommand, SpawnLoad(c, m, g)
  PROVE  attempt' \in [Chain -> Attempt]
<1>1. [step |-> "spawned", model |-> m, gen |-> g] \in Attempt
  BY AttemptForm DEF AttemptStep
<1> QED
  BY <1>1 DEF SpawnLoad

LEMMA EndTypes ==
  ASSUME attempt \in [Chain -> Attempt], NEW c \in Chain, EndOf(c)
  PROVE  attempt' \in [Chain -> Attempt]
  BY AttemptForm DEF EndOf

Row == {"none", "loading", "ready", "failed"}

(* A closed connection leaves no row; a restart leaves no attempt.         *)
LEMMA NothingReported ==
  /\ [m \in Model |-> "none"] \in [Model -> Row]
  /\ \A n \in Model : [m \in Model |-> "none"][n] = "none"
  BY DEF Row

LEMMA NothingAttempted == [c \in Chain |-> NoAttempt] \in [Chain -> Attempt]
<1>1. NoAttempt \in Attempt
  BY AttemptForm
<1> QED
  BY <1>1

(* A report is written on an open connection only.                         *)
LEMMA ReportTypes ==
  ASSUME view \in [Model -> Row], ~up => \A m \in Model : view[m] = "none",
         NEW c, NEW m, NEW state \in Row
  PROVE  /\ Reported(c, m, state) \in [Model -> Row]
         /\ ~up => \A n \in Model : Reported(c, m, state)[n] = "none"
  BY DEF Reported, Open

(* A command that is handled is off its way.                               *)
LEMMA CommandsCounted ==
  ASSUME Numbered, sent \in Nat, gen \in Nat, NEW msg \in Commands, inbox' = inbox \ {msg},
         sent' = sent, gen' = gen + 1
  PROVE  Numbered' /\ gen' \leq sent
<1>1. Commands' = Commands \ {msg}
  BY DEF Commands
<1>2. /\ IsFiniteSet(Commands \ {msg})
      /\ Cardinality(Commands \ {msg}) = Cardinality(Commands) - 1
  BY FS_RemoveElement DEF Numbered
<1>3. Cardinality(Commands) \in Nat /\ Cardinality(Commands \ {msg}) \in Nat
  BY <1>2, FS_CardinalityType DEF Numbered
<1> QED
  BY <1>1, <1>2, <1>3 DEF Numbered

Reporting ==
    /\ up \in BOOLEAN
    /\ view \in [Model -> Row]
    /\ ~up => \A m \in Model : view[m] = "none"
Loading ==
    /\ starting \subseteq Conn /\ curTx \in Conn
    /\ gen \in 0..MaxCommand
    /\ attempt \in [Chain -> Attempt]
    /\ flag \in BOOLEAN /\ overtaken \in BOOLEAN
    /\ Numbered
Working ==
    /\ task \in [Req -> {"none", "queued", "running", "done"}]
    /\ inflight \subseteq Req /\ entering \in Req \cup {NoReq}
    /\ trouble \in 0..MaxTrouble /\ lost \in 0..MaxLost

TypeInv == LoadInv /\ Reporting /\ Loading /\ Working

LEMMA TypeInvKept ==
  ASSUME TypeInv, [Next]_vars
  PROVE  TypeInv'
<1> USE ModelAssumption, BoundAssumption, LoadInvKept DEF TypeInv, loading, tasks, bounds
<1>1. conn \in Conn /\ sent \in Nat /\ sent \leq MaxCommand /\ gen \in Nat /\ inbox \subseteq Message
      /\ wanted \in Model \cup {NoModel} /\ loaded \in Model \cup {NoModel}
  BY DEF LoadInv, Shape
<1>2. ASSUME UNCHANGED <<sent, gen>>, Commands' = Commands
      PROVE  Numbered'
  BY <1>2 DEF Loading, Numbered
<1>3. ASSUME UNCHANGED <<up, view>>
      PROVE  Reporting'
  BY <1>3 DEF Reporting
<1>4. ASSUME UNCHANGED <<starting, curTx, gen, attempt, flag, overtaken, sent>>, Commands' = Commands
      PROVE  Loading'
  BY <1>2, <1>4 DEF Loading
<1>5. ASSUME UNCHANGED <<tasks, trouble, lost>>
      PROVE  Working'
  BY <1>5 DEF Working
<1>6. ASSUME UNCHANGED <<sent, inbox, starting, curTx, gen, flag>>, overtaken' \in BOOLEAN,
             attempt' \in [Chain -> Attempt]
      PROVE  Loading'
  BY <1>2, <1>6 DEF Loading, Commands
<1>7. ASSUME NEW c, NEW m, NEW state \in Row, up' = up, view' = Reported(c, m, state)
      PROVE  Reporting'
  BY <1>7, ReportTypes DEF Reporting
<1>8. ASSUME NEW w, TakesGuard(w)
      PROVE  overtaken' \in BOOLEAN
  BY <1>8 DEF TakesGuard, ReportIsOut
<1>9. ASSUME Connect
      PROVE  TypeInv'
  <2>1. Loading'
    <3>1. starting' \subseteq Conn
      BY <1>1, <1>9 DEF Connect, Loading, Conn
    <3> QED
      BY <1>2, <1>9, <3>1 DEF Connect, Loading, Commands
  <2>2. Reporting'
    BY <1>9 DEF Connect, Reporting
  <2> QED
    BY <1>5, <1>9, <2>1, <2>2 DEF Connect
<1>10. ASSUME Disconnect
       PROVE  TypeInv'
  <2>1. Reporting'
    BY <1>10, NothingReported DEF Disconnect, Reporting
  <2>2. Working'
    BY <1>10 DEF Disconnect, Working
  <2> QED
    BY <1>4, <1>10, <2>1, <2>2 DEF Disconnect, Commands
<1>11. ASSUME Restart
       PROVE  TypeInv'
  <2>1. Reporting'
    BY <1>11, NothingReported DEF Restart, Reporting
  <2>2. Numbered'
    <3>1. Commands' = {}
      BY <1>11 DEF Restart, Commands
    <3> QED
      BY <1>1, <1>11, <3>1, FS_EmptySet DEF Restart, Numbered
  <2>3. Loading'
    <3>1. attempt' \in [Chain -> Attempt]
      BY <1>11, NothingAttempted DEF Restart
    <3>2. gen' \in 0..MaxCommand /\ curTx' \in Conn /\ starting' \subseteq Conn
      BY <1>11 DEF Restart, Conn
    <3> QED
      BY <1>11, <2>2, <3>1, <3>2 DEF Restart, Loading
  <2>4. Working'
    BY <1>11 DEF Restart, Working
  <2> QED
    BY <2>1, <2>3, <2>4
<1>12. ASSUME NEW kind \in {"load", "unload"}, NEW m \in Model, SendCommand(kind, m)
       PROVE  TypeInv'
  <2> DEFINE msg == [kind |-> kind, n |-> sent + 1, model |-> m, conn |-> conn]
  <2>1. Commands' = Commands \cup {msg}
    BY <1>12 DEF SendCommand, Commands
  <2>2. /\ IsFiniteSet(Commands \cup {msg})
        /\ Cardinality(Commands \cup {msg}) \leq Cardinality(Commands) + 1
        /\ Cardinality(Commands) \in Nat /\ Cardinality(Commands \cup {msg}) \in Nat
    <3>1. IsFiniteSet(Commands)
      BY DEF Loading, Numbered
    <3> HIDE DEF msg
    <3>2. /\ IsFiniteSet(Commands \cup {msg})
          /\ \/ Cardinality(Commands \cup {msg}) = Cardinality(Commands)
             \/ Cardinality(Commands \cup {msg}) = Cardinality(Commands) + 1
      BY <3>1, FS_AddElement
    <3>3. Cardinality(Commands) \in Nat
      BY <3>1, FS_CardinalityType
    <3> QED
      BY <3>2, <3>3
  <2>3. Numbered'
    BY <1>1, <1>12, <2>1, <2>2 DEF SendCommand, Loading, Numbered
  <2> QED
    BY <1>3, <1>5, <1>12, <2>3 DEF SendCommand, Loading
<1>13. ASSUME NEW q \in Req, SendRequest(q) \/ SendCancel(q)
       PROVE  TypeInv'
  <2>1. Commands' = Commands
    BY <1>13 DEF SendRequest, SendCancel, Commands
  <2> QED
    BY <1>3, <1>4, <1>5, <1>13, <2>1 DEF SendRequest, SendCancel
<1>14. ASSUME NEW c \in Conn, StartSetsTx(c)
       PROVE  TypeInv'
  <2>1. Loading'
    BY <1>2, <1>14 DEF StartSetsTx, Loading, Commands
  <2> QED
    BY <1>3, <1>5, <1>14, <2>1 DEF StartSetsTx
<1>15. ASSUME NEW c \in Conn, StartReads(c)
       PROVE  TypeInv'
  <2>1. Reporting'
    BY <1>3, <1>7, <1>15 DEF StartReads, Row
  <2>2. ChainOf(c) \in Chain \/ c = 0
    BY DEF ChainOf, Chain, Conn
  <2>3. attempt' \in [Chain -> Attempt]
    BY <1>1, <1>15, SpawnTypes DEF StartReads, Loading, SpawnLoad
  <2> QED
    BY <1>5, <1>6, <1>8, <1>15, <2>1, <2>3 DEF StartReads
<1>16. ASSUME NEW msg \in inbox, HandleLoad(msg)
       PROVE  TypeInv'
  <2>1. msg \in Commands /\ msg.model \in Model /\ msg.conn \in Conn /\ msg.n \in Chain
    BY <1>1, <1>16 DEF HandleLoad, Commands, Message, Chain
  <2>2. Numbered' /\ gen' \in 0..MaxCommand
    BY <1>1, <1>16, <2>1, CommandsCounted DEF HandleLoad, Loading
  <2>3. attempt' \in [Chain -> Attempt]
    BY <1>16, <2>1, <2>2, SpawnTypes DEF HandleLoad, Loading
  <2>4. Loading'
    BY <1>16, <2>1, <2>2, <2>3 DEF HandleLoad, Loading
  <2> QED
    BY <1>3, <1>5, <1>16, <2>4 DEF HandleLoad
<1>17. ASSUME NEW msg \in inbox, HandleUnload(msg)
       PROVE  TypeInv'
  <2>1. msg \in Commands
    BY <1>17 DEF HandleUnload, Commands
  <2>2. Numbered' /\ gen' \in 0..MaxCommand
    BY <1>1, <1>17, <2>1, CommandsCounted DEF HandleUnload, Loading
  <2>3. Loading'
    BY <1>17, <2>2 DEF HandleUnload, Loading
  <2> QED
    BY <1>3, <1>5, <1>17, <2>3 DEF HandleUnload
<1>18. ASSUME UnloadClears \/ UnloadFlags \/ UnloadKills
       PROVE  TypeInv'
  <2>1. Loading'
    BY <1>2, <1>8, <1>18 DEF UnloadClears, UnloadFlags, UnloadKills, Loading, Commands
  <2> QED
    BY <1>3, <1>5, <1>18, <2>1 DEF UnloadClears, UnloadFlags, UnloadKills
<1>19. ASSUME UnloadReports
       PROVE  TypeInv'
  <2>1. Reporting'
    BY <1>7, <1>19 DEF UnloadReports, Row
  <2> QED
    BY <1>4, <1>5, <1>19, <2>1 DEF UnloadReports, Commands
<1>20. ASSUME (\E q \in Req : HandleRequest(q) \/ HandleCancel(q)) \/ EnterHandle
       PROVE  TypeInv'
  <2>1. Commands' = Commands
    BY <1>20 DEF HandleRequest, HandleCancel, EnterHandle, Commands
  <2>2. Working'
    BY <1>20 DEF HandleRequest, HandleCancel, EnterHandle, Working
  <2> QED
    BY <1>3, <1>4, <1>20, <2>1, <2>2 DEF HandleRequest, HandleCancel, EnterHandle
<1>21. ASSUME NEW c \in Chain, Announce(c)
       PROVE  TypeInv'
  <2>1. attempt' \in [Chain -> Attempt] /\ overtaken' \in BOOLEAN
    BY <1>21, GoToTypes DEF Announce, Loading, AttemptStep
  <2> QED
    BY <1>5, <1>6, <1>7, <1>21, <2>1 DEF Announce, Report, Row
<1>22. ASSUME NEW c \in Chain, AlreadyLoaded(c)
       PROVE  TypeInv'
  <2>1. attempt' \in [Chain -> Attempt]
    BY <1>22, EndTypes DEF AlreadyLoaded, Loading
  <2> QED
    BY <1>5, <1>6, <1>7, <1>8, <1>22, <2>1 DEF AlreadyLoaded, Report, Row
<1>23. ASSUME NEW c \in Chain, Pull(c)
       PROVE  TypeInv'
  <2>1. attempt' \in [Chain -> Attempt]
    BY <1>23, GoToTypes DEF Pull, Loading, AttemptStep
  <2>2. Reporting'
    BY <1>3, <1>7, <1>23 DEF Pull, Row
  <2> QED
    BY <1>5, <1>6, <1>8, <1>23, <2>1, <2>2 DEF Pull
<1>24. ASSUME NEW c \in Chain, NotResolved(c) \/ DownloadFails(c) \/ StartupFails(c)
       PROVE  TypeInv'
  <2>1. attempt' \in [Chain -> Attempt] /\ overtaken' \in BOOLEAN
    BY <1>24, GoToTypes
    DEF NotResolved, DownloadFails, StartupFails, Fails, Loading, AttemptStep
  <2>2. Working'
    BY <1>24 DEF NotResolved, DownloadFails, StartupFails, Fails, Working
  <2> QED
    BY <1>3, <1>6, <1>24, <2>1, <2>2 DEF NotResolved, DownloadFails, StartupFails, Fails
<1>25. ASSUME NEW c \in Chain, StartServer(c)
       PROVE  TypeInv'
  <2>1. attempt' \in [Chain -> Attempt]
    BY <1>25, GoToTypes DEF StartServer, Loading, AttemptStep
  <2>2. Loading'
    BY <1>2, <1>25, <2>1 DEF StartServer, Loading, Commands
  <2> QED
    BY <1>3, <1>5, <1>25, <2>2 DEF StartServer
<1>26. ASSUME NEW c \in Chain, Unloaded(c) \/ Healthy(c) \/ Retry(c)
       PROVE  TypeInv'
  <2>1. attempt' \in [Chain -> Attempt] /\ overtaken' \in BOOLEAN
    BY <1>26, GoToTypes, EndTypes DEF Unloaded, Healthy, Retry, Loading, AttemptStep
  <2> QED
    BY <1>3, <1>5, <1>6, <1>26, <2>1 DEF Unloaded, Healthy, Retry
<1>27. ASSUME NEW c \in Chain, ReportsReady(c) \/ ReportsFailed(c)
       PROVE  TypeInv'
  <2>1. attempt' \in [Chain -> Attempt] /\ overtaken' \in BOOLEAN
    BY <1>27, GoToTypes, EndTypes DEF ReportsReady, ReportsFailed, Loading, AttemptStep
  <2>2. Reporting'
    BY <1>7, <1>27 DEF ReportsReady, ReportsFailed, Report, Row
  <2> QED
    BY <1>5, <1>6, <1>27, <2>1, <2>2 DEF ReportsReady, ReportsFailed
<1>28. ASSUME NEW q \in Req, AcquirePermit(q) \/ Finish(q)
       PROVE  TypeInv'
  <2>1. Working'
    BY <1>28 DEF AcquirePermit, Finish, Working
  <2> QED
    BY <1>3, <1>4, <1>28, <2>1 DEF AcquirePermit, Finish, Commands
<1>29. CASE UNCHANGED vars
  BY <1>3, <1>4, <1>5, <1>29 DEF vars, Commands
<1> QED
  BY <1>9, <1>10, <1>11, <1>12, <1>13, <1>14, <1>15, <1>16, <1>17, <1>18, <1>19, <1>20,
     <1>21, <1>22, <1>23, <1>24, <1>25, <1>26, <1>27, <1>28, <1>29
  DEF Next, Environment, Start, Handle, Unload, Load, PullStep, Startup, Generate

LEMMA TypeInvHolds == Init => TypeInv
<1> SUFFICES ASSUME Init
             PROVE  TypeInv
  OBVIOUS
<1> USE ModelAssumption, BoundAssumption DEF Init
<1>1. LoadInv
  BY DEF LoadInv, Shape, Guarded, LoadedIsServed, NoAttempt, NoUnload, AnyAttempt,
     AttemptStep, UnloadStep, Conn
<1>2. Reporting /\ Working
  <2>1. task \in [Req -> {"none", "queued", "running", "done"}]
    OBVIOUS
  <2>2. trouble \in 0..MaxTrouble /\ lost \in 0..MaxLost
    OBVIOUS
  <2> QED
    BY <2>1, <2>2, NothingReported DEF Reporting, Working
<1>3. Numbered
  <2>1. Commands = {}
    BY DEF Commands
  <2> QED
    BY <2>1, FS_EmptySet DEF Numbered
<1>4. Loading
  <2>1. attempt \in [Chain -> Attempt]
    BY NothingAttempted
  <2>2. gen \in 0..MaxCommand /\ curTx \in Conn /\ starting \subseteq Conn
    BY DEF Conn
  <2> QED
    BY <1>3, <2>1, <2>2 DEF Loading
<1> QED
  BY <1>1, <1>2, <1>4 DEF TypeInv

(* Every reachable state is well typed: no generation number passes the    *)
(* commands sent, and a row of a closed connection says nothing.           *)
THEOREM LlmTypes == Spec => []TypeOK
<1>1. TypeInv => TypeOK
  BY DEF TypeInv, LoadInv, Shape, Reporting, Row, Loading, Working, TypeOK
<1>2. QED
  BY <1>1, TypeInvHolds, TypeInvKept, PTL DEF Spec

-----------------------------------------------------------------------------
(* What is loaded is listed.                                               *)

Queued(w, q) == \E i \in 1..Len(q) : q[i] = w

(* No connection is heard of before it is there.                           *)
Reached ==
    /\ curTx \leq conn
    /\ \A c \in starting : c \leq conn
    /\ \A msg \in inbox : msg.conn \leq conn

(* A failure that is not reported yet finds nothing loaded, and nothing on *)
(* its way to be.                                                          *)
FailuresFirst ==
    \A c \in Chain : attempt[c].step \in {"failed", "refused"} /\ ~overtaken =>
                         loaded = NoModel /\ \A d \in Chain : ~Guarded(d)

(* What is still to report the model that is loaded.                       *)
ToBeListed ==
    \/ Queued(<<"start", curTx>>, guard)
    \/ \E c \in Chain : attempt[c].step \in {"spawned", "waiting"}
    \/ \E c \in Chain : attempt[c].step = "loaded" /\ attempt[c].model = loaded
Listed ==
    Open(curTx) /\ ~overtaken /\ loaded # NoModel => view[loaded] = "ready" \/ ToBeListed

ListInv == TypeInv /\ Reached /\ FailuresFirst /\ Listed

(* A queue keeps its members when one more joins, and all but its head     *)
(* when that is let go.                                                    *)
LEMMA QueueMembers ==
  ASSUME NEW q \in Seq(Waiter), NEW w \in Waiter, NEW v
  PROVE  /\ Queued(w, Append(q, w))
         /\ Queued(v, q) => Queued(v, Append(q, w))
         /\ q # <<>> /\ Queued(v, q) /\ v # Head(q) => Queued(v, Tail(q))
<1>1. Len(Append(q, w)) = Len(q) + 1 /\ Append(q, w)[Len(q) + 1] = w /\ Len(q) \in Nat
  OBVIOUS
<1>2. Queued(w, Append(q, w))
  BY <1>1 DEF Queued
<1>3. Queued(v, q) => Queued(v, Append(q, w))
  BY DEF Queued
<1>4. ASSUME q # <<>>, Queued(v, q), v # Head(q)
      PROVE  Queued(v, Tail(q))
  <2>1. PICK i \in 1..Len(q) : q[i] = v
    BY <1>4 DEF Queued
  <2>2. i # 1
    BY <1>4, <2>1
  <2>3. i - 1 \in 1..Len(Tail(q)) /\ Tail(q)[i - 1] = v
    BY <1>4, <2>1, <2>2
  <2> QED
    BY <2>3 DEF Queued
<1> QED
  BY <1>2, <1>3, <1>4

(* What a step of one chain leaves of the attempts.                        *)
LEMMA ChainSteps ==
  ASSUME attempt \in [Chain -> Attempt], NEW c \in Chain
  PROVE  /\ \A s : GoTo(c, s) => /\ attempt'[c].step = s
                                 /\ attempt'[c].model = attempt[c].model
                                 /\ \A d \in Chain : d # c => attempt'[d] = attempt[d]
         /\ EndOf(c) => /\ attempt'[c].step = "none"
                        /\ \A d \in Chain : d # c => attempt'[d] = attempt[d]
         /\ \A m, g : SpawnLoad(c, m, g) =>
                         /\ attempt'[c].step = "spawned"
                         /\ \A d \in Chain : d # c => attempt'[d] = attempt[d]
         /\ attempt[c].step # "none" => attempt[c].model \in Model
<1>1. attempt[c] \in [step : AttemptStep, model : Model \cup {NoModel}, gen : 0..MaxCommand]
  BY AttemptForm, BoundAssumption DEF NoAttempt, AttemptStep
<1>2. attempt[c].step # "none" => attempt[c].model \in Model
  BY AttemptForm DEF NoAttempt
<1> QED
  BY <1>1, <1>2 DEF GoTo, EndOf, SpawnLoad, NoAttempt

LEMMA ReachedKept ==
  ASSUME TypeInv, Reached, [Next]_vars
  PROVE  Reached'
<1> USE ModelAssumption, BoundAssumption DEF Reached
<1>1. conn \in Conn /\ curTx \in Conn /\ starting \subseteq Conn /\ inbox \subseteq Message
      /\ \A msg \in inbox : msg.conn \in Conn
  BY DEF TypeInv, Loading, LoadInv, Shape, Message
<1>2. ASSUME UNCHANGED <<conn, curTx, starting>>, inbox' \subseteq inbox
      PROVE  Reached'
  BY <1>2
<1>3. ASSUME Connect
      PROVE  Reached'
  BY <1>1, <1>3 DEF Connect, Conn
<1>4. ASSUME Restart
      PROVE  Reached'
  BY <1>1, <1>4 DEF Restart, Conn
<1>5. ASSUME UNCHANGED <<conn, curTx, starting>>, NEW msg, msg.conn = conn,
             inbox' = inbox \cup {msg}
      PROVE  Reached'
  BY <1>1, <1>5 DEF Conn
<1>6. ASSUME NEW kind \in {"load", "unload"}, NEW m \in Model, SendCommand(kind, m)
      PROVE  Reached'
  BY <1>5, <1>6 DEF SendCommand
<1>7. ASSUME NEW q \in Req, SendRequest(q) \/ SendCancel(q)
      PROVE  Reached'
  BY <1>5, <1>7 DEF SendRequest, SendCancel
<1>8. ASSUME NEW c \in Conn, StartSetsTx(c)
      PROVE  Reached'
  BY <1>8 DEF StartSetsTx
<1>9. ASSUME NEW msg \in inbox, HandleLoad(msg)
      PROVE  Reached'
  BY <1>9 DEF HandleLoad
<1>10. ASSUME \/ \E msg \in inbox : HandleUnload(msg)
              \/ \E q \in Req : HandleRequest(q) \/ HandleCancel(q)
       PROVE  UNCHANGED <<conn, curTx, starting>> /\ inbox' \subseteq inbox
  BY <1>10 DEF HandleUnload, HandleRequest, HandleCancel
<1>11. ASSUME NEW c \in Chain, Load(c)
       PROVE  UNCHANGED <<conn, curTx, starting, inbox>>
  BY <1>11 DEF Load, PullStep, Startup, Announce, AlreadyLoaded, Pull, NotResolved, DownloadFails,
     StartServer, Unloaded, StartupFails, Fails, Healthy, ReportsReady, ReportsFailed, Retry
<1>12. ASSUME \/ \E c \in Conn : StartReads(c)
              \/ \E q \in Req : Generate(q)
              \/ Disconnect \/ Unload \/ EnterHandle
       PROVE  UNCHANGED <<conn, curTx, starting, inbox>>
  BY <1>12 DEF StartReads, Generate, AcquirePermit, Finish, Disconnect, EnterHandle,
     Unload, UnloadClears, UnloadFlags, UnloadKills, UnloadReports
<1>13. CASE UNCHANGED vars
  BY <1>13 DEF vars
<1> QED
  BY <1>2, <1>3, <1>4, <1>6, <1>7, <1>8, <1>9, <1>10, <1>11, <1>12, <1>13
  DEF Next, Environment, Start, Handle

LEMMA FailuresFirstKept ==
  ASSUME TypeInv, FailuresFirst, [Next]_vars
  PROVE  FailuresFirst'
<1> USE DEF Guarded
<1>1. attempt \in [Chain -> Attempt] /\ LoadInv
  BY DEF TypeInv, Loading
<1> DEFINE Others(c) == \A d \in Chain : d # c => attempt'[d] = attempt[d]
<1>2. ASSUME UNCHANGED <<loaded, attempt, overtaken>>
      PROVE  FailuresFirst'
  BY <1>2 DEF FailuresFirst
<1>3. ASSUME NEW w, TakesGuard(w), UNCHANGED attempt, loaded' \in {loaded, NoModel}
      PROVE  FailuresFirst'
  BY <1>3 DEF FailuresFirst, TakesGuard, ReportIsOut
<1>4. ASSUME Restart
      PROVE  FailuresFirst'
  BY <1>4 DEF Restart, FailuresFirst, NoAttempt
<1>5. ASSUME NEW c \in Conn, StartReads(c)
      PROVE  FailuresFirst'
  <2>1. UNCHANGED attempt \/ (ChainOf(c) \in Chain /\ SpawnLoad(ChainOf(c), wanted, gen))
    <3>1. UNCHANGED attempt \/ SpawnLoad(ChainOf(c), wanted, gen)
      BY <1>5 DEF StartReads
    <3>2. ASSUME ChainOf(c) \notin Chain, SpawnLoad(ChainOf(c), wanted, gen)
          PROVE  UNCHANGED attempt
      BY <1>1, <3>2 DEF SpawnLoad
    <3> QED
      BY <3>1, <3>2
  <2>2. CASE UNCHANGED attempt
    BY <1>3, <1>5, <2>2 DEF StartReads
  <2>3. CASE ChainOf(c) \in Chain /\ SpawnLoad(ChainOf(c), wanted, gen)
    <3>1. Others(ChainOf(c)) /\ attempt'[ChainOf(c)].step = "spawned"
      BY <1>1, <2>3, ChainSteps
    <3> QED
      BY <1>5, <2>3, <3>1 DEF StartReads, TakesGuard, FailuresFirst
  <2> QED
    BY <1>5, <2>1, <2>2, <2>3 DEF StartReads
<1>6. ASSUME NEW msg \in inbox, HandleLoad(msg)
      PROVE  FailuresFirst'
  <2>1. msg.n \in Chain
    BY <1>1, <1>6, BoundAssumption DEF HandleLoad, LoadInv, Shape, Message, Chain
  <2>2. Others(msg.n) /\ attempt'[msg.n].step = "spawned"
    BY <1>1, <1>6, <2>1, ChainSteps DEF HandleLoad
  <2> QED
    BY <1>6, <2>1, <2>2 DEF HandleLoad, FailuresFirst
<1>7. ASSUME UnloadClears
      PROVE  FailuresFirst'
  BY <1>3, <1>7 DEF UnloadClears
<1>8. ASSUME NEW c \in Chain, AlreadyLoaded(c)
      PROVE  FailuresFirst'
  <2>1. Others(c) /\ attempt'[c].step = "none"
    BY <1>1, <1>8, ChainSteps DEF AlreadyLoaded
  <2> QED
    BY <1>8, <2>1 DEF AlreadyLoaded, TakesGuard, FailuresFirst
<1>9. ASSUME NEW c \in Chain, Pull(c)
       PROVE  FailuresFirst'
  <2>1. Others(c) /\ attempt'[c].step = "pulling"
    BY <1>1, <1>9, ChainSteps DEF Pull
  <2>2. overtaken' \/ \A d \in Chain : attempt[d].step \notin {"failed", "refused"}
    BY <1>9 DEF Pull, TakesGuard, ReportIsOut
  <2> QED
    BY <2>1, <2>2 DEF FailuresFirst
<1>10. ASSUME NEW c \in Chain, NotResolved(c) \/ DownloadFails(c) \/ StartupFails(c)
       PROVE  FailuresFirst'
  <2>1. Others(c) /\ attempt'[c].step \in {"failed", "refused"} /\ Guarded(c) /\ loaded' = loaded
    BY <1>1, <1>10, ChainSteps DEF NotResolved, DownloadFails, StartupFails, Fails
  <2>2. loaded = NoModel /\ \A d \in Chain : d # c => ~Guarded(d)
    BY <1>1, <2>1, OneGuarded DEF LoadInv
  <2> QED
    BY <2>1, <2>2 DEF FailuresFirst
<1>11. ASSUME NEW c \in Chain, StartServer(c) \/ Healthy(c)
       PROVE  FailuresFirst'
  <2>1. /\ Others(c) /\ attempt'[c].step \in {"starting", "loaded"} /\ Guarded(c)
        /\ overtaken' = overtaken
    BY <1>1, <1>11, ChainSteps DEF StartServer, Healthy
  <2> QED
    BY <2>1 DEF FailuresFirst
<1>12. ASSUME NEW c \in Chain, Announce(c) \/ Unloaded(c) \/ ReportsReady(c) \/ ReportsFailed(c) \/ Retry(c)
       PROVE  FailuresFirst'
  <2>1. Others(c) /\ attempt'[c].step \in {"waiting", "none", "resting", "spawned"}
    BY <1>1, <1>12, ChainSteps DEF Announce, Unloaded, ReportsReady, ReportsFailed, Retry
  <2>2. UNCHANGED <<loaded, overtaken>>
    BY <1>12 DEF Announce, Unloaded, ReportsReady, ReportsFailed, Retry
  <2> QED
    BY <2>1, <2>2 DEF FailuresFirst
<1>13. ASSUME \/ Connect \/ Disconnect
              \/ \E kind \in {"load", "unload"}, m \in Model : SendCommand(kind, m)
              \/ \E q \in Req : SendRequest(q) \/ SendCancel(q) \/ HandleRequest(q)
                                \/ HandleCancel(q) \/ Generate(q)
              \/ \E c \in Conn : StartSetsTx(c)
              \/ \E msg \in inbox : HandleUnload(msg)
              \/ EnterHandle \/ UnloadFlags \/ UnloadKills \/ UnloadReports
       PROVE  FailuresFirst'
  <2>1. UNCHANGED <<loaded, attempt, overtaken>>
    BY <1>13 DEF Connect, Disconnect, SendCommand, SendRequest, SendCancel, HandleRequest,
       HandleCancel, Generate, AcquirePermit, Finish, StartSetsTx, HandleUnload, EnterHandle,
       UnloadFlags, UnloadKills, UnloadReports, loading
  <2> QED
    BY <1>2, <2>1
<1>14. CASE UNCHANGED vars
  BY <1>2, <1>14 DEF vars, loading
<1> QED
  BY <1>4, <1>5, <1>6, <1>7, <1>8, <1>9, <1>10, <1>11, <1>12, <1>13, <1>14
  DEF Next, Environment, Start, Handle, Unload, Load, PullStep, Startup

LEMMA ListedKept ==
  ASSUME ListInv, [Next]_vars
  PROVE  Listed'
<1>1. /\ attempt \in [Chain -> Attempt] /\ LoadInv /\ view \in [Model -> Row]
      /\ guard \in Seq(Waiter) /\ loaded \in Model \cup {NoModel}
  BY DEF ListInv, TypeInv, Loading, LoadInv, Shape, Reporting
<1> DEFINE Others(c) == \A d \in Chain : d # c => attempt'[d] = attempt[d]
<1>2. ASSUME UNCHANGED <<conn, up, view, curTx, guard, loaded, attempt, overtaken>>
      PROVE  Listed'
  BY <1>2 DEF ListInv, Listed, ToBeListed, Queued, Open
<1>3. ASSUME loaded' = NoModel \/ ~up'
      PROVE  Listed'
  BY <1>3 DEF Listed, Open
<1>4. ASSUME NEW c \in Chain, attempt'[c].step \in {"spawned", "waiting"}
      PROVE  Listed'
  BY <1>4 DEF Listed, ToBeListed
<1>5. ASSUME Connect \/ Disconnect \/ Restart
      PROVE  Listed'
  <2>1. CASE Connect
    <3>1. curTx' # conn'
      <4>1. curTx \leq conn /\ conn \in Nat /\ curTx \in Nat
        BY BoundAssumption DEF ListInv, Reached, TypeInv, Loading, LoadInv, Shape, Conn
      <4> QED
        BY <2>1, <4>1 DEF Connect
    <3> QED
      BY <3>1 DEF Listed, Open
  <2> QED
    BY <1>3, <1>5, <2>1 DEF Disconnect, Restart
<1>6. ASSUME NEW c \in Conn, StartSetsTx(c)
      PROVE  Listed'
  <2>1. <<"start", c>> \in Waiter
    BY DEF Waiter
  <2>2. Queued(<<"start", c>>, guard')
    BY <1>1, <1>6, <2>1, QueueMembers DEF StartSetsTx, Join
  <2> QED
    BY <1>6, <2>2 DEF StartSetsTx, Listed, ToBeListed
<1>7. ASSUME NEW c \in Conn, StartReads(c)
      PROVE  Listed'
  <2> SUFFICES ASSUME loaded # NoModel
               PROVE  Listed'
    BY <1>3, <1>7 DEF StartReads
  <2>1. /\ view' = Reported(c, loaded, "ready") /\ loaded \in Model
        /\ guard # <<>> /\ Head(guard) = <<"start", c>> /\ guard' = Tail(guard)
        /\ UNCHANGED <<attempt, loaded, curTx, up, conn>> /\ (overtaken => overtaken')
    BY <1>1, <1>7 DEF StartReads, TakesGuard, Holds, Release
  <2>2. CASE c = curTx
    BY <1>1, <2>1, <2>2 DEF Listed, Reported, Open
  <2>3. CASE c # curTx
    <3>1. Queued(<<"start", curTx>>, guard) => Queued(<<"start", curTx>>, guard')
      <4>1. <<"unload", 0>> \in Waiter
        BY DEF Waiter
      <4>2. <<"start", curTx>> # Head(guard)
        BY <2>1, <2>3
      <4> QED
        BY <1>1, <2>1, <4>1, <4>2, QueueMembers
    <3>2. view[loaded] = "ready" => view'[loaded] = "ready"
      BY <1>1, <2>1 DEF Reported
    <3> QED
      BY <2>1, <3>1, <3>2 DEF ListInv, Listed, ToBeListed, Open
  <2> QED
    BY <2>2, <2>3
<1>8. ASSUME NEW msg \in inbox, HandleLoad(msg)
      PROVE  Listed'
  <2>1. msg.n \in Chain
    BY <1>1, <1>8, BoundAssumption DEF HandleLoad, LoadInv, Shape, Message, Chain
  <2>2. attempt'[msg.n].step = "spawned"
    BY <1>1, <1>8, <2>1, ChainSteps DEF HandleLoad
  <2> QED
    BY <1>4, <2>1, <2>2
<1>9. ASSUME NEW msg \in inbox, HandleUnload(msg)
      PROVE  Listed'
  <2>1. <<"unload", 0>> \in Waiter
    BY DEF Waiter
  <2>2. Queued(<<"start", curTx>>, guard) => Queued(<<"start", curTx>>, guard')
    BY <1>1, <1>9, <2>1, QueueMembers DEF HandleUnload, Join
  <2> QED
    BY <1>9, <2>2 DEF HandleUnload, ListInv, Listed, ToBeListed, Open
<1>10. ASSUME UnloadClears \/ (\E c \in Chain : Pull(c))
       PROVE  Listed'
  BY <1>3, <1>10 DEF UnloadClears, Pull
<1>11. ASSUME UnloadReports
       PROVE  Listed'
  BY <1>1, <1>3, <1>11 DEF UnloadReports, LoadInv, loading
<1>12. ASSUME NEW c \in Chain, Announce(c)
       PROVE  Listed'
  <2>1. attempt'[c].step = "waiting"
    BY <1>1, <1>12, ChainSteps DEF Announce
  <2> QED
    BY <1>4, <2>1
<1>13. ASSUME NEW c \in Chain, AlreadyLoaded(c)
       PROVE  Listed'
  BY <1>1, <1>13 DEF AlreadyLoaded, Report, Reported, Listed, Open
<1>14. ASSUME NEW c \in Chain, NotResolved(c) \/ DownloadFails(c) \/ StartServer(c)
                               \/ Unloaded(c) \/ StartupFails(c)
       PROVE  Listed'
  <2>1. Guarded(c) /\ loaded' = loaded
    BY <1>14 DEF Guarded, NotResolved, DownloadFails, StartServer, Unloaded, StartupFails, Fails
  <2> QED
    BY <1>1, <1>3, <2>1 DEF LoadInv
<1>15. ASSUME NEW c \in Chain, Healthy(c)
       PROVE  Listed'
  <2>1. attempt'[c].step = "loaded" /\ attempt'[c].model = loaded'
    BY <1>1, <1>15, ChainSteps DEF Healthy
  <2> QED
    BY <2>1 DEF Listed, ToBeListed
<1>16. ASSUME NEW c \in Chain, ReportsReady(c)
       PROVE  Listed'
  <2>1. Others(c) /\ attempt[c].model \in Model /\ attempt[c].step = "loaded"
    BY <1>1, <1>16, ChainSteps DEF ReportsReady
  <2>2. view' = Reported(curTx, attempt[c].model, "ready")
    BY <1>16 DEF ReportsReady, Report
  <2>3. UNCHANGED <<conn, up, curTx, guard, loaded, overtaken>>
    BY <1>16 DEF ReportsReady
  <2>4. CASE attempt[c].model = loaded
    BY <1>1, <2>1, <2>2, <2>3, <2>4 DEF Listed, Reported, Open
  <2>5. CASE attempt[c].model # loaded
    <3>1. ToBeListed => ToBeListed'
      BY <2>1, <2>3, <2>5 DEF ToBeListed, Queued
    <3>2. view'[loaded] = view[loaded]
      BY <1>1, <2>1, <2>2, <2>5 DEF Reported
    <3> QED
      BY <2>3, <3>1, <3>2 DEF ListInv, Listed, Open
  <2> QED
    BY <2>4, <2>5
<1>17. ASSUME NEW c \in Chain, ReportsFailed(c)
       PROVE  Listed'
  <2>1. overtaken \/ loaded = NoModel
    BY <1>17 DEF ReportsFailed, ListInv, FailuresFirst
  <2> QED
    BY <1>17, <2>1 DEF ReportsFailed, Listed
<1>18. ASSUME NEW c \in Chain, Retry(c)
       PROVE  Listed'
  <2>1. Others(c) /\ attempt[c].step = "resting"
    BY <1>1, <1>18, ChainSteps DEF Retry
  <2>2. UNCHANGED <<conn, up, view, curTx, guard, loaded, overtaken>>
    BY <1>18 DEF Retry
  <2>3. ToBeListed => ToBeListed'
    BY <2>1, <2>2 DEF ToBeListed, Queued
  <2> QED
    BY <2>2, <2>3 DEF ListInv, Listed, Open
<1>19. ASSUME \/ \E kind \in {"load", "unload"}, m \in Model : SendCommand(kind, m)
              \/ \E q \in Req : SendRequest(q) \/ SendCancel(q) \/ HandleRequest(q)
                                \/ HandleCancel(q) \/ Generate(q)
              \/ EnterHandle \/ UnloadFlags \/ UnloadKills
       PROVE  Listed'
  <2>1. UNCHANGED <<conn, up, view, curTx, guard, loaded, attempt, overtaken>>
    BY <1>19 DEF SendCommand, SendRequest, SendCancel, HandleRequest, HandleCancel, Generate,
       AcquirePermit, Finish, EnterHandle, UnloadFlags, UnloadKills, loading
  <2> QED
    BY <1>2, <2>1
<1>20. CASE UNCHANGED vars
  BY <1>2, <1>20 DEF vars, loading
<1> QED
  BY <1>5, <1>6, <1>7, <1>8, <1>9, <1>10, <1>11, <1>12, <1>13, <1>14, <1>15, <1>16, <1>17,
     <1>18, <1>19, <1>20
  DEF Next, Environment, Start, Handle, Unload, Load, PullStep, Startup

(* With nothing of a load in progress the coordinator lists what is        *)
(* loaded, unless a load took the guard before the last one's report.      *)
THEOREM LlmListsLoaded == Spec => []LoadedIsListed
<1>1. Init => ListInv
  <2>1. Init => Reached /\ FailuresFirst /\ Listed
    BY DEF Init, Reached, FailuresFirst, Listed, NoAttempt
  <2> QED
    BY <2>1, TypeInvHolds DEF ListInv
<1>2. ListInv /\ [Next]_vars => ListInv'
  BY TypeInvKept, ReachedKept, FailuresFirstKept, ListedKept DEF ListInv
<1>3. ListInv => LoadedIsListed
  BY DEF ListInv, Listed, ToBeListed, Queued, LoadedIsListed, Quiet
<1>4. QED
  BY <1>1, <1>2, <1>3, PTL DEF Spec

-----------------------------------------------------------------------------
(* The load guard is never stuck.  It is let go by the step that ends what *)
(* it was taken for, so whoever stands in its queue twice, or stands in it *)
(* without waiting, would hold it for ever.                                *)
Queueing(c) == attempt[c].step \in {"waiting", "pulling", "starting"}
Once(q)     == \A i, j \in 1..Len(q) : q[i] = q[j] => i = j
GuardInv ==
    /\ Once(guard)
    /\ \A c \in Chain : Queued(<<"load", c>>, guard) <=> Queueing(c)
    /\ Queued(<<"unload", 0>>, guard) <=> unload.step = "waiting"

(* A chain is started once: by the first start() of its connection, or by  *)
(* its command.                                                            *)
ToStart(c) == c \in starting \/ Queued(<<"start", c>>, guard)
ConnChains ==
    /\ \A c \in Conn : ToStart(c) => 1 \leq c /\ c \leq conn
    /\ \A c \in starting : ~Queued(<<"start", c>>, guard)
    /\ \A c \in Conn : ToStart(c) \/ conn < c => attempt[ChainOf(c)].step = "none"
CommandChains ==
    /\ \A msg \in Commands : msg.n \leq sent /\ attempt[msg.n].step = "none"
    /\ \A m1, m2 \in Commands : m1.n = m2.n => m1 = m2
    /\ \A n \in 1..MaxCommand : sent < n => attempt[n].step = "none"

QueueInv == TypeInv /\ GuardInv /\ ConnChains /\ CommandChains

(* Who queues for the guard is who he is.                                  *)
LEMMA WaitersApart ==
  /\ \A c, d : <<"load", c>> = <<"load", d>> => c = d
  /\ \A c, d : <<"start", c>> = <<"start", d>> => c = d
  /\ \A c, d : <<"load", c>> # <<"start", d>>
  /\ \A c, d : <<"load", c>> # <<"unload", d>>
  /\ \A c, d : <<"start", c>> # <<"unload", d>>
<1>1. \A k1, k2, c, d : <<k1, c>> = <<k2, d>> => k1 = k2 /\ c = d
  OBVIOUS
<1> QED
  BY <1>1

(* A queue without doubles, when one joins and when its head leaves.       *)
LEMMA QueueOnce ==
  ASSUME NEW q \in Seq(Waiter), Once(q), NEW w \in Waiter
  PROVE  /\ ~Queued(w, q) => Once(Append(q, w))
         /\ \A v : Queued(v, Append(q, w)) <=> Queued(v, q) \/ v = w
         /\ q # <<>> => Once(Tail(q))
         /\ q # <<>> => \A v : Queued(v, Tail(q)) <=> Queued(v, q) /\ v # Head(q)
<1>1. /\ Len(q) \in Nat /\ Len(Append(q, w)) = Len(q) + 1
      /\ \A i \in 1..Len(q) + 1 : Append(q, w)[i] = IF i = Len(q) + 1 THEN w ELSE q[i]
  OBVIOUS
<1>2. ASSUME ~Queued(w, q)
      PROVE  Once(Append(q, w))
  <2>1. \A i \in 1..Len(q) : q[i] # w
    BY <1>2 DEF Queued
  <2> QED
    BY <1>1, <2>1 DEF Once
<1>3. ASSUME NEW v
      PROVE  Queued(v, Append(q, w)) <=> Queued(v, q) \/ v = w
  <2>1. \A i \in 1..Len(q) : i \in 1..Len(q) + 1 /\ i # Len(q) + 1
    BY <1>1
  <2>2. \A i \in 1..Len(q) + 1 : i \in 1..Len(q) \/ i = Len(q) + 1
    BY <1>1
  <2>3. Len(q) + 1 \in 1..Len(q) + 1
    BY <1>1
  <2> QED
    BY <1>1, <2>1, <2>2, <2>3 DEF Queued
<1>4. ASSUME q # <<>>
      PROVE  /\ Once(Tail(q))
             /\ \A v : Queued(v, Tail(q)) <=> Queued(v, q) /\ v # Head(q)
  <2>1. /\ Len(Tail(q)) = Len(q) - 1 /\ Len(q) \geq 1 /\ Head(q) = q[1]
        /\ \A i \in 1..Len(q) - 1 : Tail(q)[i] = q[i + 1]
    BY <1>4
  <2>2. \A i \in 1..Len(q) - 1 : i + 1 \in 1..Len(q) /\ i + 1 # 1
    BY <1>1, <2>1
  <2>3. \A i \in 1..Len(q) : i # 1 => i - 1 \in 1..Len(q) - 1 /\ (i - 1) + 1 = i
    BY <1>1, <2>1
  <2>4. Once(Tail(q))
    <3>1. \A i, j \in 1..Len(q) - 1 : q[i + 1] = q[j + 1] => i + 1 = j + 1
      BY <2>2 DEF Once
    <3> QED
      BY <1>1, <2>1, <3>1 DEF Once
  <2>5. ASSUME NEW v, Queued(v, Tail(q))
        PROVE  Queued(v, q) /\ v # Head(q)
    <3>1. PICK i \in 1..Len(q) - 1 : Tail(q)[i] = v
      BY <2>1, <2>5 DEF Queued
    <3>2. i + 1 \in 1..Len(q) /\ i + 1 # 1 /\ q[i + 1] = v /\ 1 \in 1..Len(q)
      BY <1>1, <2>1, <2>2, <3>1
    <3> QED
      BY <2>1, <3>2 DEF Queued, Once
  <2>6. ASSUME NEW v, Queued(v, q), v # Head(q)
        PROVE  Queued(v, Tail(q))
    BY <1>4, <2>6, QueueMembers
  <2> QED
    BY <2>4, <2>5, <2>6
<1> QED
  BY <1>2, <1>3, <1>4

(* Whoever holds the guard stands in its queue.                            *)
LEMMA HolderQueued ==
  ASSUME guard \in Seq(Waiter), NEW w, Holds(w)
  PROVE  guard # <<>> /\ Head(guard) = w /\ Queued(w, guard)
<1>1. 1 \in 1..Len(guard) /\ Head(guard) = guard[1]
  BY DEF Holds
<1> QED
  BY <1>1 DEF Holds, Queued

(* Chains of connections and of commands are different ones.               *)
LEMMA ChainsApart ==
  /\ \A c \in Conn : 1 \leq c => ChainOf(c) \in Chain /\ ChainOf(c) > MaxCommand
  /\ \A c, d \in Conn : ChainOf(c) = ChainOf(d) => c = d
  /\ \A n \in 1..MaxCommand : n \in Chain
  /\ \A msg \in Commands : msg \in Message => msg.n \in 1..MaxCommand
<1>1. \A msg \in Commands : msg \in Message => msg.n \in 1..MaxCommand
  BY DEF Commands, Message
<1> QED
  BY <1>1, BoundAssumption DEF ChainOf, Chain, Conn

(* A chain that is not started stays so, but for the step that starts it.  *)
LEMMA Unstarted ==
  ASSUME TypeInv, [Next]_vars, NEW c \in Chain, attempt[c].step = "none"
  PROVE  \/ attempt'[c].step = "none"
         \/ \E d \in Conn : StartReads(d) /\ c = ChainOf(d)
         \/ \E msg \in inbox : HandleLoad(msg) /\ c = msg.n
<1>1. attempt \in [Chain -> Attempt] /\ inbox \subseteq Message
  BY DEF TypeInv, Loading, LoadInv, Shape
<1>2. ASSUME NEW d \in Chain, Load(d)
      PROVE  attempt'[c] = attempt[c]
  <2>1. attempt[d].step # "none"
    BY <1>2 DEF Load, PullStep, Startup, Announce, AlreadyLoaded, Pull, NotResolved, DownloadFails,
       StartServer, Unloaded, StartupFails, Healthy, ReportsReady, ReportsFailed, Retry
  <2>2. attempt' = [attempt EXCEPT ![d].step = attempt'[d].step] \/ EndOf(d)
    <3>1. EndOf(d) \/ \E s : GoTo(d, s)
      BY <1>2 DEF Load, PullStep, Startup, Announce, AlreadyLoaded, Pull, NotResolved,
         DownloadFails, StartServer, Unloaded, StartupFails, Fails, Healthy, ReportsReady,
         ReportsFailed, Retry
    <3> QED
      BY <1>1, <3>1, ChainSteps DEF GoTo
  <2> QED
    BY <1>1, <2>1, <2>2 DEF EndOf
<1>3. ASSUME NEW d \in Conn, StartReads(d), c # ChainOf(d)
      PROVE  attempt'[c] = attempt[c]
  BY <1>1, <1>3 DEF StartReads, SpawnLoad
<1>4. ASSUME NEW msg \in inbox, HandleLoad(msg), c # msg.n
      PROVE  attempt'[c] = attempt[c]
  BY <1>1, <1>4 DEF HandleLoad, SpawnLoad
<1>5. CASE Restart
  BY <1>5 DEF Restart, NoAttempt
<1>6. ASSUME \/ Connect \/ Disconnect
             \/ \E kind \in {"load", "unload"}, m \in Model : SendCommand(kind, m)
             \/ \E q \in Req : SendRequest(q) \/ SendCancel(q) \/ HandleRequest(q)
                               \/ HandleCancel(q) \/ Generate(q)
             \/ \E d \in Conn : StartSetsTx(d)
             \/ \E msg \in inbox : HandleUnload(msg)
             \/ EnterHandle \/ Unload \/ UNCHANGED vars
      PROVE  attempt' = attempt
  BY <1>6 DEF Connect, Disconnect, SendCommand, SendRequest, SendCancel, HandleRequest,
     HandleCancel, Generate, AcquirePermit, Finish, StartSetsTx, HandleUnload, EnterHandle,
     Unload, UnloadClears, UnloadFlags, UnloadKills, UnloadReports, loading, vars
<1> QED
  BY <1>2, <1>3, <1>4, <1>5, <1>6 DEF Next, Environment, Start, Handle

LEMMA GuardKept ==
  ASSUME QueueInv, [Next]_vars
  PROVE  GuardInv'
<1> USE DEF GuardInv
<1>1. /\ attempt \in [Chain -> Attempt] /\ guard \in Seq(Waiter) /\ LoadInv
      /\ inbox \subseteq Message /\ GuardInv /\ TypeInv
  BY DEF QueueInv, TypeInv, Loading, LoadInv, Shape
<1>2. /\ \A c \in Chain : <<"load", c>> \in Waiter
      /\ \A c \in Conn : <<"start", c>> \in Waiter
      /\ <<"unload", 0>> \in Waiter
  BY DEF Waiter
<1> DEFINE Others(c) == \A d \in Chain : d # c => attempt'[d] = attempt[d]
(* One joins, the holder lets go, or the queue stays.                      *)
<1>3. ASSUME NEW w \in Waiter, ~Queued(w, guard), guard' = Append(guard, w),
             \A c \in Chain : Queueing(c)' <=> Queueing(c) \/ w = <<"load", c>>,
             unload'.step = "waiting" <=> unload.step = "waiting" \/ w = <<"unload", 0>>
      PROVE  GuardInv'
  <2>1. Once(guard') /\ \A v : Queued(v, guard') <=> Queued(v, guard) \/ v = w
    BY <1>1, <1>3, QueueOnce
  <2> QED
    BY <1>1, <1>3, <2>1
<1>4. ASSUME NEW w, Holds(w), guard' = Tail(guard),
             \A c \in Chain : Queueing(c)' <=> Queueing(c) /\ w # <<"load", c>>,
             unload'.step = "waiting" <=> unload.step = "waiting" /\ w # <<"unload", 0>>
      PROVE  GuardInv'
  <2>1. guard # <<>> /\ Head(guard) = w
    BY <1>1, <1>4, HolderQueued
  <2>2. Once(guard') /\ \A v : Queued(v, guard') <=> Queued(v, guard) /\ v # w
    BY <1>1, <1>2, <1>4, <2>1, QueueOnce
  <2> QED
    BY <1>1, <1>4, <2>2
<1>5. ASSUME guard' = guard, \A c \in Chain : Queueing(c)' <=> Queueing(c),
             unload'.step = "waiting" <=> unload.step = "waiting"
      PROVE  GuardInv'
  BY <1>1, <1>5
<1>6. ASSUME UNCHANGED <<guard, attempt, unload>>
      PROVE  GuardInv'
  BY <1>5, <1>6 DEF Queueing
<1>7. CASE Restart
  <2>1. /\ guard' = <<>> /\ unload'.step = "idle" /\ \A c \in Chain : ~Queueing(c)'
    BY <1>7 DEF Restart, NoUnload, NoAttempt, Queueing
  <2>2. Once(<<>>) /\ \A v : ~Queued(v, <<>>)
    BY DEF Once, Queued
  <2> QED
    BY <2>1, <2>2
<1>8. CASE \/ Connect \/ Disconnect
           \/ \E kind \in {"load", "unload"}, m \in Model : SendCommand(kind, m)
           \/ \E q \in Req : SendRequest(q) \/ SendCancel(q) \/ HandleRequest(q)
                             \/ HandleCancel(q) \/ Generate(q)
           \/ EnterHandle \/ UNCHANGED vars
  <2>1. UNCHANGED <<guard, attempt, unload>>
    BY <1>8 DEF Connect, Disconnect, SendCommand, SendRequest, SendCancel, HandleRequest,
       HandleCancel, Generate, AcquirePermit, Finish, EnterHandle, loading, vars
  <2> QED
    BY <1>6, <2>1
<1>9. CASE UnloadFlags \/ UnloadKills \/ UnloadReports
  <2>1. /\ UNCHANGED <<guard, attempt>> /\ unload.step # "waiting"
        /\ \/ \E s \in {"flagged", "killed"} : unload' = [unload EXCEPT !.step = s]
           \/ unload' = NoUnload
    BY <1>9 DEF UnloadFlags, UnloadKills, UnloadReports, loading
  <2>2. unload'.step # "waiting"
    BY <1>1, <2>1 DEF NoUnload, LoadInv, Shape
  <2> QED
    BY <1>5, <2>1, <2>2 DEF Queueing
<1>10. CASE UnloadClears
  <2>1. /\ Holds(<<"unload", 0>>) /\ guard' = Tail(guard) /\ attempt' = attempt
        /\ unload'.step # "waiting"
    BY <1>1, <1>10 DEF UnloadClears, TakesGuard, Release, LoadInv, Shape
  <2>2. \A c \in Chain : Queueing(c)' <=> Queueing(c) /\ <<"unload", 0>> # <<"load", c>>
    BY <2>1, WaitersApart DEF Queueing
  <2> QED
    BY <1>4, <2>1, <2>2
<1>11. ASSUME NEW msg \in inbox, HandleUnload(msg)
       PROVE  GuardInv'
  <2>1. /\ unload.step = "idle" /\ unload'.step = "waiting" /\ attempt' = attempt
        /\ guard' = Append(guard, <<"unload", 0>>)
    BY <1>11 DEF HandleUnload, SlotFree, Join
  <2>2. \A c \in Chain : Queueing(c)' <=> Queueing(c) \/ <<"unload", 0>> = <<"load", c>>
    BY <2>1, WaitersApart DEF Queueing
  <2> QED
    BY <1>1, <1>2, <1>3, <2>1, <2>2
<1>12. ASSUME NEW c \in Conn, StartSetsTx(c)
       PROVE  GuardInv'
  <2>1. /\ ~Queued(<<"start", c>>, guard) /\ guard' = Append(guard, <<"start", c>>)
        /\ attempt' = attempt /\ unload' = unload
    BY <1>12 DEF StartSetsTx, Join, QueueInv, ConnChains
  <2>2. \A d \in Chain : Queueing(d)' <=> Queueing(d) \/ <<"start", c>> = <<"load", d>>
    BY <2>1, WaitersApart DEF Queueing
  <2> QED
    BY <1>2, <1>3, <2>1, <2>2, WaitersApart
<1>13. ASSUME NEW c \in Conn, StartReads(c)
       PROVE  GuardInv'
  <2>1. Holds(<<"start", c>>) /\ guard' = Tail(guard) /\ unload' = unload
    BY <1>13 DEF StartReads, TakesGuard, Release
  <2>2. ToStart(c) /\ 1 \leq c /\ attempt[ChainOf(c)].step = "none" /\ ChainOf(c) \in Chain
    BY <1>1, <2>1, HolderQueued, ChainsApart DEF ToStart, QueueInv, ConnChains
  <2>3. attempt' = attempt \/ SpawnLoad(ChainOf(c), wanted, gen)
    BY <1>13 DEF StartReads
  <2>4. \A d \in Chain : Queueing(d)' <=> Queueing(d)
    BY <1>1, <2>2, <2>3, ChainSteps DEF Queueing
  <2> QED
    BY <1>4, <2>1, <2>4, WaitersApart
<1>14. ASSUME NEW msg \in inbox, HandleLoad(msg)
       PROVE  GuardInv'
  <2>1. msg \in Commands /\ msg.n \in Chain
    BY <1>1, <1>14, ChainsApart DEF HandleLoad, Commands
  <2>2. attempt[msg.n].step = "none"
    BY <2>1 DEF QueueInv, CommandChains
  <2>3. \A d \in Chain : Queueing(d)' <=> Queueing(d)
    BY <1>1, <1>14, <2>1, <2>2, ChainSteps DEF HandleLoad, Queueing
  <2>4. UNCHANGED <<guard, unload>>
    BY <1>14 DEF HandleLoad
  <2> QED
    BY <1>5, <2>3, <2>4
<1>15. ASSUME NEW c \in Chain, Announce(c)
       PROVE  GuardInv'
  <2>1. /\ attempt[c].step = "spawned" /\ attempt'[c].step = "waiting" /\ Others(c)
        /\ guard' = Append(guard, <<"load", c>>) /\ unload' = unload
    BY <1>1, <1>15, ChainSteps DEF Announce, Join
  <2>2. \A d \in Chain : Queueing(d)' <=> Queueing(d) \/ <<"load", c>> = <<"load", d>>
    BY <2>1, WaitersApart DEF Queueing
  <2>3. ~Queued(<<"load", c>>, guard)
    BY <1>1, <2>1 DEF Queueing
  <2> QED
    BY <1>2, <1>3, <2>1, <2>2, <2>3, WaitersApart
<1>16. ASSUME NEW c \in Chain, Holds(<<"load", c>>), guard' = Tail(guard), unload' = unload,
              Others(c), ~Queueing(c)'
       PROVE  GuardInv'
  <2>1. \A d \in Chain : Queueing(d)' <=> Queueing(d) /\ <<"load", c>> # <<"load", d>>
    BY <1>16, WaitersApart DEF Queueing
  <2> QED
    BY <1>4, <1>16, <2>1, WaitersApart
<1>17. ASSUME NEW c \in Chain, AlreadyLoaded(c) \/ NotResolved(c) \/ DownloadFails(c) \/ Unloaded(c)
                                \/ StartupFails(c) \/ Healthy(c)
       PROVE  GuardInv'
  <2>1. Holds(<<"load", c>>)
    <3>1. CASE AlreadyLoaded(c)
      BY <3>1 DEF AlreadyLoaded, TakesGuard
    <3>2. CASE ~AlreadyLoaded(c)
      BY <1>1, <1>17, <3>2 DEF LoadInv, Guarded, NotResolved, DownloadFails, Unloaded,
         StartupFails, Healthy
    <3> QED
      BY <3>1, <3>2
  <2>2. guard' = Tail(guard) /\ unload' = unload
    BY <1>17 DEF AlreadyLoaded, NotResolved, DownloadFails, Unloaded, StartupFails, Healthy,
       Fails, Release
  <2>3. Others(c) /\ ~Queueing(c)'
    <3>1. EndOf(c) \/ \E s \in {"refused", "failed", "loaded"} : GoTo(c, s)
      BY <1>17 DEF AlreadyLoaded, NotResolved, DownloadFails, Unloaded, StartupFails, Healthy, Fails
    <3> QED
      BY <1>1, <3>1, ChainSteps DEF Queueing
  <2> QED
    BY <1>16, <2>1, <2>2, <2>3
<1>18. ASSUME NEW c \in Chain, Pull(c) \/ StartServer(c) \/ ReportsReady(c) \/ ReportsFailed(c) \/ Retry(c)
       PROVE  GuardInv'
  <2>1. UNCHANGED <<guard, unload>>
    BY <1>18 DEF Pull, StartServer, ReportsReady, ReportsFailed, Retry
  <2>2. \/ /\ attempt[c].step \in {"waiting", "pulling"}
           /\ \E s \in {"pulling", "starting"} : GoTo(c, s)
        \/ /\ attempt[c].step \in {"loaded", "failed", "refused", "resting"}
           /\ EndOf(c) \/ \E s \in {"resting", "spawned"} : GoTo(c, s)
    BY <1>18 DEF Pull, StartServer, ReportsReady, ReportsFailed, Retry
  <2>3. Others(c) /\ (Queueing(c)' <=> Queueing(c))
    BY <1>1, <2>2, ChainSteps DEF Queueing
  <2>4. \A d \in Chain : Queueing(d)' <=> Queueing(d)
    BY <2>3 DEF Queueing
  <2> QED
    BY <1>5, <2>1, <2>4
<1> QED
  BY <1>7, <1>8, <1>9, <1>10, <1>11, <1>12, <1>13, <1>14, <1>15, <1>17, <1>18
  DEF Next, Environment, Start, Handle, Unload, Load, PullStep, Startup

(* The first start() of a connection starts its chain, if any.             *)
LEMMA ConnChainsKept ==
  ASSUME QueueInv, [Next]_vars
  PROVE  ConnChains'
<1>1. /\ attempt \in [Chain -> Attempt] /\ guard \in Seq(Waiter) /\ Once(guard) /\ TypeInv
      /\ conn \in 0..MaxConn /\ MaxConn \in Nat /\ starting \subseteq Conn /\ inbox \subseteq Message
  BY BoundAssumption DEF QueueInv, GuardInv, TypeInv, Loading, LoadInv, Shape, Conn
<1>2. /\ \A c \in Conn : <<"start", c>> \in Waiter
      /\ \A c \in Chain : <<"load", c>> \in Waiter
      /\ <<"unload", 0>> \in Waiter
  BY DEF Waiter
<1>3. ConnChains
  BY DEF QueueInv
(* Who is in the queue when one joins it, and when its head leaves.        *)
<1>4. ASSUME NEW w \in Waiter, guard' = Append(guard, w)
       PROVE  \A v : Queued(v, guard') <=> Queued(v, guard) \/ v = w
  BY <1>1, <1>4, QueueOnce
<1>5. ASSUME guard # <<>>, guard' = Tail(guard)
       PROVE  \A v : Queued(v, guard') => Queued(v, guard)
  BY <1>1, <1>2, <1>5, QueueOnce
<1> DEFINE Early(c) == c \in Conn /\ (ToStart(c) \/ conn < c)
(* What a chain of a connection that is still to come keeps.               *)
<1>6. ASSUME NEW c \in Conn, Early(c), ~StartReads(c)
      PROVE  attempt'[ChainOf(c)].step = "none"
  <2>1. 1 \leq c /\ attempt[ChainOf(c)].step = "none"
    BY <1>1, <1>3, <1>6 DEF ConnChains, Conn
  <2>2. ChainOf(c) \in Chain /\ ChainOf(c) > MaxCommand
    BY <2>1, ChainsApart
  <2>3. ASSUME NEW msg \in inbox, HandleLoad(msg), ChainOf(c) = msg.n
        PROVE  FALSE
    <3>1. msg.n \in 1..MaxCommand
      BY <1>1, <2>3, ChainsApart DEF HandleLoad, Commands
    <3> QED
      BY <2>2, <2>3, <3>1, BoundAssumption
  <2>4. ASSUME NEW d \in Conn, StartReads(d), ChainOf(c) = ChainOf(d)
        PROVE  FALSE
    BY <1>6, <2>4, ChainsApart
  <2> QED
    BY <1>1, <2>1, <2>2, <2>3, <2>4, Unstarted
<1>7. ASSUME UNCHANGED <<conn, starting>>, \A c \in Conn : ~StartReads(c),
             \A c \in Conn : Queued(<<"start", c>>, guard') => Queued(<<"start", c>>, guard)
      PROVE  ConnChains'
  <2>1. \A c \in Conn : ToStart(c)' => ToStart(c)
    BY <1>7 DEF ToStart
  <2> QED
    BY <1>1, <1>3, <1>6, <1>7, <2>1 DEF ConnChains
<1>8. CASE Connect
  <2>1. /\ conn' = conn + 1 /\ starting' = starting \cup {conn + 1} /\ guard' = guard
        /\ attempt' = attempt
    BY <1>8 DEF Connect, loading
  <2>2. conn + 1 \in Conn
    BY <1>1, <1>8 DEF Connect, Conn
  <2>3. \A c \in Conn : ToStart(c)' => ToStart(c) \/ c = conn + 1
    BY <2>1 DEF ToStart
  <2>4. ~Queued(<<"start", conn + 1>>, guard)
    BY <1>1, <1>3, <2>2 DEF ConnChains, ToStart
  <2> QED
    BY <1>1, <1>3, <2>1, <2>2, <2>3, <2>4 DEF ConnChains, Conn
<1>9. CASE Restart
  <2>1. /\ conn' = conn /\ starting' = {} /\ guard' = <<>>
        /\ attempt' = [c \in Chain |-> NoAttempt]
    BY <1>9 DEF Restart
  <2>2. \A c \in Conn : ~ToStart(c)' /\ (conn < c => attempt'[ChainOf(c)].step = "none")
    BY <1>1, <2>1, ChainsApart DEF ToStart, Queued, Conn, NoAttempt
  <2> QED
    BY <2>1, <2>2 DEF ConnChains
<1>10. ASSUME NEW c \in Conn, StartSetsTx(c)
      PROVE  ConnChains'
  <2>1. /\ c \in starting /\ starting' = starting \ {c} /\ conn' = conn /\ attempt' = attempt
        /\ guard' = Append(guard, <<"start", c>>)
    BY <1>10 DEF StartSetsTx, Join
  <2>2. \A d \in Conn : Queued(<<"start", d>>, guard') <=> Queued(<<"start", d>>, guard) \/ d = c
    <3>1. \A v : Queued(v, guard') <=> Queued(v, guard) \/ v = <<"start", c>>
      BY <1>2, <1>4, <2>1
    <3> QED
      BY <3>1, WaitersApart
  <2>3. \A d \in Conn : ToStart(d)' => ToStart(d)
    BY <2>1, <2>2 DEF ToStart
  <2> QED
    BY <1>1, <1>3, <2>1, <2>2, <2>3 DEF ConnChains
<1>11. ASSUME NEW c \in Conn, StartReads(c)
      PROVE  ConnChains'
  <2>1. Holds(<<"start", c>>) /\ guard' = Tail(guard) /\ UNCHANGED <<conn, starting>>
    BY <1>11 DEF StartReads, TakesGuard, Release
  <2>2. Queued(<<"start", c>>, guard) /\ c \notin starting /\ c \leq conn
    BY <1>1, <1>3, <2>1, HolderQueued DEF ConnChains, ToStart
  <2>3. /\ \A v : Queued(v, guard') => Queued(v, guard)
        /\ ~Queued(<<"start", c>>, guard')
    BY <1>1, <1>2, <2>1, HolderQueued, QueueOnce
  <2>4. \A d \in Conn : ToStart(d)' => ToStart(d) /\ d # c
    BY <2>1, <2>2, <2>3 DEF ToStart
  <2>5. ASSUME NEW d \in Conn, d # c, Early(d)
        PROVE  attempt'[ChainOf(d)].step = "none"
    <3>1. ~StartReads(d)
      BY <2>1, <2>5, WaitersApart DEF StartReads, TakesGuard, Holds
    <3> QED
      BY <1>6, <2>5, <3>1
  <2>6. \A d \in Conn : ToStart(d)' \/ conn' < d => Early(d) /\ d # c
    BY <1>1, <2>1, <2>2, <2>4 DEF Conn
  <2> QED
    BY <1>1, <1>3, <2>1, <2>3, <2>4, <2>5, <2>6 DEF ConnChains
(* The other steps let the guard go, join its queue as someone else, or    *)
(* leave it.                                                               *)
<1>12. ASSUME ~Connect, ~Restart, \A c \in Conn : ~Start(c)
       PROVE  /\ UNCHANGED <<conn, starting>>
              /\ \/ guard' = guard
                 \/ guard # <<>> /\ guard' = Tail(guard)
                 \/ guard' = Append(guard, <<"unload", 0>>)
                 \/ \E c \in Chain : guard' = Append(guard, <<"load", c>>)
  <2>1. CASE Unload
    BY <2>1 DEF Unload, UnloadClears, UnloadFlags, UnloadKills, UnloadReports, Release, TakesGuard,
       Holds, loading
  <2>2. CASE Handle
    BY <2>2 DEF Handle, HandleLoad, HandleUnload, HandleRequest, HandleCancel, EnterHandle, Join,
       loading
  <2>3. ASSUME NEW c \in Chain, Load(c)
        PROVE  UNCHANGED <<conn, starting>>
    BY <2>3 DEF Load, PullStep, Startup, Announce, AlreadyLoaded, Pull, NotResolved, DownloadFails,
       StartServer, Unloaded, StartupFails, Fails, Healthy, ReportsReady, ReportsFailed, Retry
  <2>4. ASSUME NEW c \in Chain, Load(c)
        PROVE  \/ guard' = guard
               \/ guard # <<>> /\ guard' = Tail(guard)
               \/ guard' = Append(guard, <<"load", c>>)
    <3>1. CASE Announce(c)
      BY <3>1 DEF Announce, Join
    <3>2. CASE AlreadyLoaded(c)
      BY <3>2 DEF AlreadyLoaded, TakesGuard, Holds, Release
    <3>3. CASE NotResolved(c) \/ DownloadFails(c) \/ Unloaded(c) \/ StartupFails(c) \/ Healthy(c)
      <4>1. Holds(<<"load", c>>)
        BY <1>1, <3>3 DEF TypeInv, LoadInv, Guarded, NotResolved, DownloadFails, Unloaded,
           StartupFails, Healthy
      <4>2. guard' = Tail(guard)
        BY <3>3 DEF NotResolved, DownloadFails, Unloaded, StartupFails, Healthy, Fails, Release
      <4> QED
        BY <4>1, <4>2 DEF Holds
    <3>4. CASE Pull(c) \/ StartServer(c) \/ ReportsReady(c) \/ ReportsFailed(c) \/ Retry(c)
      BY <3>4 DEF Pull, StartServer, ReportsReady, ReportsFailed, Retry
    <3> QED
      BY <2>4, <3>1, <3>2, <3>3, <3>4 DEF Load, PullStep, Startup
  <2>5. CASE \/ Disconnect
             \/ \E kind \in {"load", "unload"}, m \in Model : SendCommand(kind, m)
             \/ \E q \in Req : SendRequest(q) \/ SendCancel(q) \/ Generate(q)
             \/ UNCHANGED vars
    BY <2>5 DEF Disconnect, SendCommand, SendRequest, SendCancel, Generate, AcquirePermit, Finish,
       loading, vars
  <2> QED
    BY <1>12, <2>1, <2>2, <2>3, <2>4, <2>5 DEF Next, Environment
<1>13. ASSUME ~Connect, ~Restart, \A c \in Conn : ~Start(c)
       PROVE  ConnChains'
  <2>1. \A c \in Conn : Queued(<<"start", c>>, guard') => Queued(<<"start", c>>, guard)
    <3>1. CASE guard' = guard
      BY <3>1
    <3>2. CASE guard # <<>> /\ guard' = Tail(guard)
      BY <1>5, <3>2
    <3>3. CASE guard' = Append(guard, <<"unload", 0>>)
      BY <1>2, <1>4, <3>3, WaitersApart
    <3>4. ASSUME NEW c \in Chain, guard' = Append(guard, <<"load", c>>)
          PROVE  \A d \in Conn : Queued(<<"start", d>>, guard') => Queued(<<"start", d>>, guard)
      BY <1>2, <1>4, <3>4, WaitersApart
    <3> QED
      BY <1>12, <1>13, <3>1, <3>2, <3>3, <3>4
  <2> QED
    BY <1>7, <1>12, <1>13, <2>1 DEF Start
<1> QED
  BY <1>8, <1>9, <1>10, <1>11, <1>13 DEF Start

(* A command starts its chain when it is handled.                          *)
LEMMA CommandChainsKept ==
  ASSUME QueueInv, [Next]_vars
  PROVE  CommandChains'
<1>1. /\ attempt \in [Chain -> Attempt] /\ guard \in Seq(Waiter) /\ TypeInv
      /\ sent \in 0..MaxCommand /\ MaxCommand \in Nat /\ inbox \subseteq Message
  BY BoundAssumption DEF QueueInv, TypeInv, Loading, LoadInv, Shape
<1>2. CommandChains
  BY DEF QueueInv
<1>3. ASSUME NEW n \in 1..MaxCommand, attempt[n].step = "none",
             \A msg \in inbox : HandleLoad(msg) => msg.n # n
      PROVE  attempt'[n].step = "none"
  <2>1. ASSUME NEW d \in Conn, StartReads(d), n = ChainOf(d)
        PROVE  FALSE
    <3>1. ToStart(d)
      BY <1>1, <2>1, HolderQueued DEF StartReads, TakesGuard, ToStart
    <3>2. ChainOf(d) > MaxCommand
      BY <3>1, ChainsApart DEF QueueInv, ConnChains
    <3> QED
      BY <1>1, <2>1, <3>2
  <2> QED
    BY <1>1, <1>3, <2>1, ChainsApart, Unstarted
<1>4. \A msg \in Commands : msg.n \in 1..MaxCommand
  BY <1>1, ChainsApart DEF Commands
<1>5. ASSUME sent' = sent, Commands' \subseteq Commands, \A msg \in inbox : ~HandleLoad(msg)
      PROVE  CommandChains'
  <2>1. \A n \in 1..MaxCommand : attempt[n].step = "none" => attempt'[n].step = "none"
    BY <1>3, <1>5
  <2> QED
    BY <1>2, <1>4, <1>5, <2>1 DEF CommandChains
<1>6. ASSUME NEW msg \in inbox, HandleLoad(msg)
      PROVE  CommandChains'
  <2>1. /\ msg \in Commands /\ Commands' = Commands \ {msg} /\ sent' = sent
    BY <1>6 DEF HandleLoad, Commands
  <2>2. \A m \in inbox : HandleLoad(m) => m = msg
    <3>1. ASSUME NEW m \in inbox, HandleLoad(m)
          PROVE  m = msg
      BY <1>6, <3>1 DEF HandleLoad
    <3> QED
      BY <3>1
  <2>3. \A n \in 1..MaxCommand : attempt[n].step = "none" /\ n # msg.n => attempt'[n].step = "none"
    BY <1>3, <2>2
  <2>4. \A m \in Commands' : m.n # msg.n
    BY <1>2, <2>1 DEF CommandChains
  <2>5. \A n \in 1..MaxCommand : sent < n => n # msg.n
    BY <1>1, <1>2, <1>4, <2>1 DEF CommandChains
  <2> QED
    BY <1>2, <1>4, <2>1, <2>3, <2>4, <2>5 DEF CommandChains
<1>7. ASSUME NEW kind \in {"load", "unload"}, NEW m \in Model, SendCommand(kind, m)
      PROVE  CommandChains'
  <2> DEFINE new == [kind |-> kind, n |-> sent + 1, model |-> m, conn |-> conn]
  <2>1. /\ sent' = sent + 1 /\ inbox' = inbox \cup {new} /\ attempt' = attempt /\ sent < MaxCommand
        /\ new.n = sent + 1
    BY <1>7 DEF SendCommand, loading
  <2>2. sent + 1 \in 1..MaxCommand
    BY <1>1, <2>1
  <2> HIDE DEF new
  <2>3. Commands' \subseteq Commands \cup {new}
    BY <2>1 DEF Commands
  <2>4. \A msg \in Commands : msg.n # new.n /\ msg.n \leq sent'
    BY <1>1, <1>2, <1>4, <2>1 DEF CommandChains
  <2>5. attempt[new.n].step = "none" /\ new.n \leq sent'
    BY <1>1, <1>2, <2>1, <2>2 DEF CommandChains
  <2>6. \A n \in 1..MaxCommand : sent' < n => sent < n
    BY <1>1, <2>1
  <2> QED
    BY <1>2, <2>1, <2>3, <2>4, <2>5, <2>6 DEF CommandChains
<1>8. ASSUME \A kind \in {"load", "unload"}, m \in Model : ~SendCommand(kind, m)
      PROVE  sent' = sent /\ Commands' \subseteq Commands
  <2>1. CASE Connect \/ Disconnect \/ Restart \/ Unload \/ UNCHANGED vars
    BY <2>1 DEF Connect, Disconnect, Restart, Unload, UnloadClears, UnloadFlags, UnloadKills,
       UnloadReports, Commands, vars
  <2>2. ASSUME NEW q \in Req, SendRequest(q) \/ SendCancel(q)
        PROVE  sent' = sent /\ Commands' \subseteq Commands
    BY <2>2 DEF SendRequest, SendCancel, Commands
  <2>3. CASE (\E q \in Req : Generate(q)) \/ \E c \in Conn : Start(c)
    BY <2>3 DEF Generate, AcquirePermit, Finish, Start, StartSetsTx, StartReads, Commands
  <2>4. CASE Handle
    BY <2>4 DEF Handle, HandleLoad, HandleUnload, HandleRequest, HandleCancel, EnterHandle, Commands
  <2>5. CASE \E c \in Chain : Load(c)
    BY <2>5 DEF Load, PullStep, Startup, Announce, AlreadyLoaded, Pull, NotResolved, DownloadFails,
       StartServer, Unloaded, StartupFails, Fails, Healthy, ReportsReady, ReportsFailed, Retry, Commands
  <2> QED
    BY <1>8, <2>1, <2>2, <2>3, <2>4, <2>5 DEF Next, Environment
<1> QED
  BY <1>5, <1>6, <1>7, <1>8

LEMMA QueueInvAlways == Spec => []QueueInv
<1>1. Init => QueueInv
  <2> SUFFICES ASSUME Init PROVE QueueInv
    OBVIOUS
  <2>1. GuardInv
    BY DEF Init, GuardInv, Once, Queued, Queueing, NoAttempt, NoUnload
  <2>2. ConnChains
    <3>1. \A c \in Conn : ~ToStart(c)
      BY DEF Init, ToStart, Queued
    <3>2. \A c \in Conn : conn < c => attempt[ChainOf(c)].step = "none"
      BY ChainsApart, BoundAssumption DEF Init, Conn, NoAttempt
    <3> QED
      BY <3>1, <3>2 DEF Init, ConnChains
  <2>3. CommandChains
    BY ChainsApart DEF Init, CommandChains, Commands, NoAttempt
  <2> QED
    BY <2>1, <2>2, <2>3, TypeInvHolds DEF QueueInv
<1>2. QueueInv /\ [Next]_vars => QueueInv'
  BY TypeInvKept, GuardKept, ConnChainsKept, CommandChainsKept DEF QueueInv
<1> QED
  BY <1>1, <1>2, PTL DEF Spec

(* Whoever waits for the load guard stands in its queue, and whoever is at *)
(* the front has a step to take: a start() reads what is loaded, an unload *)
(* clears it, and a load is about to take the guard, pulls or starts the   *)
(* server.                                                                 *)
GuardMoves ==
    /\ \A c \in Chain : attempt[c].step = "waiting" => Queued(<<"load", c>>, guard)
    /\ unload.step = "waiting" => Queued(<<"unload", 0>>, guard)
    /\ guard # <<>> =>
         \/ \E c \in Conn : Head(guard) = <<"start", c>>
         \/ Head(guard) = <<"unload", 0>> /\ unload.step = "waiting"
         \/ \E c \in Chain : Head(guard) = <<"load", c>> /\ Queueing(c)

(* Nobody waits for a guard that nobody lets go, whatever loads, unloads,  *)
(* reconnects and restarts came together (lib.rs, LOAD_GUARD): what        *)
(* CancelIsHandled rests on.                                               *)
THEOREM GuardNeverStuck == Spec => []GuardMoves
<1>1. QueueInv => GuardMoves
  <2> SUFFICES ASSUME QueueInv PROVE GuardMoves
    OBVIOUS
  <2>1. GuardInv /\ guard \in Seq(Waiter)
    BY DEF QueueInv, TypeInv, LoadInv, Shape
  <2>2. ASSUME guard # <<>>
        PROVE  \/ \E c \in Conn : Head(guard) = <<"start", c>>
               \/ Head(guard) = <<"unload", 0>> /\ unload.step = "waiting"
               \/ \E c \in Chain : Head(guard) = <<"load", c>> /\ Queueing(c)
    <3>1. Queued(Head(guard), guard) /\ Head(guard) \in Waiter
      BY <2>1, <2>2, HolderQueued DEF Holds
    <3>2. \/ \E c \in Conn : Head(guard) = <<"start", c>>
          \/ \E c \in Chain : Head(guard) = <<"load", c>>
          \/ Head(guard) = <<"unload", 0>>
      BY <3>1 DEF Waiter
    <3> QED
      BY <2>1, <3>1, <3>2 DEF GuardInv
  <2> QED
    BY <2>1, <2>2 DEF GuardMoves, GuardInv, Queueing
<1> QED
  BY <1>1, QueueInvAlways, PTL

-----------------------------------------------------------------------------
(* What a restart promises.  Until the first command after it, the only    *)
(* loads are those of the wanted model: nothing replaces it, and a server  *)
(* that is starting is let finish or fails.                                *)
SinceStart ==
    gen = 0 =>
      /\ unload.step = "idle" /\ ~flag
      /\ loaded \in {NoModel, wanted}
      /\ \A c \in Chain : attempt[c].step # "none" => attempt[c].model = wanted /\ attempt[c].gen = 0
      /\ \A c \in Chain : attempt[c].step = "starting" => server # NoModel
      /\ \A c \in Chain : attempt[c].step = "loaded" => loaded = wanted
      /\ \A c \in Chain : attempt[c].step = "refused" => wanted \in Unknown

(* A start() of the connection or a load of the model is on.               *)
Pursued == (\E c \in Conn : ToStart(c)) \/ \E c \in Chain : attempt[c].step # "none"
Promised == up /\ gen = 0 /\ wanted \in Model \ Unknown
Kept == Promised => loaded = wanted \/ Pursued

LEMMA SinceStartKept ==
  ASSUME QueueInv, SinceStart, [Next]_vars
  PROVE  SinceStart'
<1>1. /\ attempt \in [Chain -> Attempt] /\ gen \in Nat /\ LoadInv /\ TypeInv
      /\ wanted \in Model \cup {NoModel} /\ NoModel \notin Model
      /\ inbox \subseteq Message
  BY ModelAssumption DEF QueueInv, TypeInv, Loading, LoadInv, Shape
<1> DEFINE Others(c) == \A d \in Chain : d # c => attempt'[d] = attempt[d]
<1>2. ASSUME UNCHANGED <<gen, wanted, loaded, attempt, server, flag, unload>>
      PROVE  SinceStart'
  BY <1>2 DEF SinceStart
<1>3. CASE Restart
  BY <1>3 DEF Restart, NoUnload, NoAttempt, SinceStart
<1>4. CASE Unload
  <2>1. gen' = gen /\ unload.step # "idle"
    BY <1>4 DEF Unload, UnloadClears, UnloadFlags, UnloadKills, UnloadReports, loading
  <2> QED
    BY <2>1 DEF SinceStart
<1>5. ASSUME NEW msg \in inbox, HandleLoad(msg) \/ HandleUnload(msg)
      PROVE  SinceStart'
  <2>1. gen' = gen + 1
    BY <1>5 DEF HandleLoad, HandleUnload
  <2> QED
    BY <1>1, <2>1 DEF SinceStart
<1>6. ASSUME NEW c \in Conn, StartReads(c)
      PROVE  SinceStart'
  <2>1. UNCHANGED <<gen, wanted, loaded, server, flag, unload>>
    BY <1>6 DEF StartReads
  <2>2. attempt' = attempt \/ SpawnLoad(ChainOf(c), wanted, gen)
    BY <1>6 DEF StartReads
  <2>3. \A d \in Chain : \/ attempt'[d] = attempt[d]
                          \/ attempt'[d] = [step |-> "spawned", model |-> wanted, gen |-> gen]
    BY <1>1, <2>2 DEF SpawnLoad
  <2> QED
    BY <2>1, <2>3 DEF SinceStart
(* The steps of a load: it has the guard while it pulls and starts.        *)
<1>7. ASSUME NEW c \in Chain, Load(c), gen = 0
      PROVE  /\ attempt[c].model = wanted /\ attempt[c].gen = 0 /\ wanted \in Model
             /\ UNCHANGED <<gen, wanted, unload>> /\ attempt[c].step # "none"
             /\ Others(c)
             /\ attempt'[c].step # "none" =>
                  attempt'[c].model = wanted /\ attempt'[c].gen = 0
  <2>1. attempt[c].step # "none" /\ UNCHANGED <<gen, wanted, unload>>
    BY <1>7 DEF Load, PullStep, Startup, Announce, AlreadyLoaded, Pull, NotResolved, DownloadFails,
       StartServer, Unloaded, StartupFails, Fails, Healthy, ReportsReady, ReportsFailed, Retry
  <2>2. attempt[c].model = wanted /\ attempt[c].gen = 0 /\ wanted \in Model
    BY <1>1, <1>7, <2>1, ChainSteps DEF SinceStart
  <2>3. EndOf(c) \/ \E s : GoTo(c, s)
    BY <1>7 DEF Load, PullStep, Startup, Announce, AlreadyLoaded, Pull, NotResolved,
       DownloadFails, StartServer, Unloaded, StartupFails, Fails, Healthy, ReportsReady,
       ReportsFailed, Retry
  <2>4. \A s : GoTo(c, s) => attempt'[c].gen = attempt[c].gen
    <3>1. attempt[c] \in [step : AttemptStep, model : Model \cup {NoModel}, gen : 0..MaxCommand]
      BY <1>1, AttemptForm, BoundAssumption DEF NoAttempt, AttemptStep
    <3> QED
      BY <1>1, <3>1 DEF GoTo
  <2> QED
    BY <1>1, <2>1, <2>2, <2>3, <2>4, ChainSteps
<1>8. ASSUME NEW c \in Chain, Load(c), gen = 0, ~flag', loaded' \in {NoModel, wanted},
             attempt'[c].step = "starting" => server' # NoModel,
             attempt'[c].step = "loaded" => loaded' = wanted,
             attempt'[c].step = "refused" => wanted \in Unknown,
             \A d \in Chain : d # c /\ attempt[d].step = "starting" => server' # NoModel,
             \A d \in Chain : d # c /\ attempt[d].step = "loaded" => loaded' = wanted
      PROVE  SinceStart'
  BY <1>7, <1>8 DEF SinceStart
<1>9. ASSUME NEW c \in Chain, Announce(c) \/ AlreadyLoaded(c) \/ NotResolved(c) \/ DownloadFails(c)
                               \/ Unloaded(c) \/ ReportsReady(c) \/ ReportsFailed(c) \/ Retry(c), gen = 0
      PROVE  SinceStart'
  <2>1. UNCHANGED <<loaded, server, flag>>
    BY <1>9 DEF Announce, AlreadyLoaded, NotResolved, DownloadFails, Unloaded, Fails, ReportsReady,
       ReportsFailed, Retry
  <2>2. \/ EndOf(c) \/ \E s \in {"waiting", "failed", "resting", "spawned"} : GoTo(c, s)
        \/ GoTo(c, "refused") /\ attempt[c].model \in Unknown
    BY <1>9 DEF Announce, AlreadyLoaded, NotResolved, DownloadFails, Unloaded, Fails, ReportsReady,
       ReportsFailed, Retry
  <2>3. /\ attempt'[c].step \notin {"starting", "loaded"}
        /\ attempt'[c].step = "refused" => attempt[c].model \in Unknown
    BY <1>1, <2>2, ChainSteps
  <2>4. Load(c)
    BY <1>9 DEF Load, PullStep, Startup
  <2> QED
    BY <1>7, <1>8, <1>9, <2>1, <2>3, <2>4 DEF SinceStart
<1>10. ASSUME NEW c \in Chain, Pull(c), gen = 0
       PROVE  SinceStart'
  <2>1. /\ loaded # attempt[c].model /\ loaded' = NoModel /\ UNCHANGED <<server, flag>>
        /\ attempt'[c].step = "pulling" /\ Load(c)
    BY <1>1, <1>10, ChainSteps DEF Pull, Load
  <2>2. \A d \in Chain : attempt[d].step # "loaded"
    BY <1>7, <1>10, <2>1 DEF SinceStart
  <2> QED
    BY <1>8, <1>10, <2>1, <2>2 DEF SinceStart
<1>11. ASSUME NEW c \in Chain, StartServer(c) \/ StartupFails(c) \/ Healthy(c), gen = 0
       PROVE  SinceStart'
  <2>1. Load(c) /\ Guarded(c) /\ ~flag' /\ wanted \in Model
    <3>1. Load(c)
      BY <1>11 DEF Load, PullStep, Startup
    <3>2. Guarded(c) /\ ~flag'
      BY <1>11 DEF StartServer, StartupFails, Fails, Healthy, Guarded
    <3> QED
      BY <1>7, <1>11, <3>1, <3>2
  <2>2. \A d \in Chain : d # c => ~Guarded(d)
    BY <1>1, <2>1, OneGuarded
  <2>3. \/ /\ GoTo(c, "starting") /\ server' = attempt[c].model /\ loaded' = loaded
        \/ /\ GoTo(c, "failed") /\ loaded' = loaded
        \/ /\ GoTo(c, "loaded") /\ loaded' = attempt[c].model
    BY <1>11 DEF StartServer, StartupFails, Fails, Healthy
  <2>4. \/ attempt'[c].step = "starting" /\ server' = wanted /\ loaded' = loaded
        \/ attempt'[c].step = "failed" /\ loaded' = loaded
        \/ attempt'[c].step = "loaded" /\ loaded' = wanted
    BY <1>1, <1>7, <1>11, <2>1, <2>3, ChainSteps
  <2> QED
    BY <1>1, <1>8, <1>11, <2>1, <2>2, <2>4 DEF SinceStart, Guarded
<1>12. ASSUME NEW c \in Chain, Load(c)
       PROVE  SinceStart'
  <2>1. gen' = gen
    BY <1>12 DEF Load, PullStep, Startup, Announce, AlreadyLoaded, Pull, NotResolved, DownloadFails,
       StartServer, Unloaded, StartupFails, Fails, Healthy, ReportsReady, ReportsFailed, Retry
  <2>2. CASE gen = 0
    BY <1>9, <1>10, <1>11, <1>12, <2>2 DEF Load, PullStep, Startup
  <2> QED
    BY <2>1, <2>2 DEF SinceStart
<1>13. CASE \/ Connect \/ Disconnect
            \/ \E kind \in {"load", "unload"}, m \in Model : SendCommand(kind, m)
            \/ \E q \in Req : SendRequest(q) \/ SendCancel(q) \/ HandleRequest(q)
                              \/ HandleCancel(q) \/ Generate(q)
            \/ \E c \in Conn : StartSetsTx(c)
            \/ EnterHandle \/ UNCHANGED vars
  <2>1. UNCHANGED <<gen, wanted, loaded, attempt, server, flag, unload>>
    BY <1>13 DEF Connect, Disconnect, SendCommand, SendRequest, SendCancel, HandleRequest,
       HandleCancel, Generate, AcquirePermit, Finish, StartSetsTx, EnterHandle, loading, vars
  <2> QED
    BY <1>2, <2>1
<1> QED
  BY <1>3, <1>4, <1>5, <1>6, <1>12, <1>13 DEF Next, Environment, Start, Handle

LEMMA KeptKept ==
  ASSUME QueueInv, SinceStart, Kept, [Next]_vars
  PROVE  Kept'
<1> SUFFICES ASSUME Promised' PROVE loaded' = wanted' \/ Pursued'
  BY DEF Kept
<1>1. /\ attempt \in [Chain -> Attempt] /\ gen \in Nat /\ guard \in Seq(Waiter)
      /\ conn \in 0..MaxConn /\ MaxConn \in Nat /\ NoModel \notin Model
      /\ up' /\ gen' = 0 /\ wanted' \in Model \ Unknown
  BY BoundAssumption, ModelAssumption
  DEF QueueInv, TypeInv, Loading, LoadInv, Shape, Conn, Promised
<1>2. CASE Connect
  <2>1. conn + 1 \in starting' /\ conn + 1 \in Conn
    BY <1>1, <1>2 DEF Connect, Conn
  <2> QED
    BY <2>1 DEF Pursued, ToStart
<1>3. ASSUME ~Connect
      PROVE  ~Restart /\ ~Disconnect /\ up' = up
  <2>1. ~Restart /\ ~Disconnect
    BY <1>1 DEF Restart, Disconnect
  <2>2. ASSUME NEW c \in Chain, Load(c)
        PROVE  up' = up
    BY <2>2 DEF Load, PullStep, Startup, Announce, AlreadyLoaded, Pull, NotResolved, DownloadFails,
       StartServer, Unloaded, StartupFails, Fails, Healthy, ReportsReady, ReportsFailed, Retry
  <2>3. CASE Handle \/ Unload \/ \E c \in Conn : Start(c)
    BY <2>1, <2>3 DEF Handle, HandleLoad, HandleUnload, HandleRequest, HandleCancel, EnterHandle, Unload,
       UnloadClears, UnloadFlags, UnloadKills, UnloadReports, Start, StartSetsTx, StartReads
  <2>4. CASE \/ \E kind \in {"load", "unload"}, m \in Model : SendCommand(kind, m)
             \/ \E q \in Req : SendRequest(q) \/ SendCancel(q) \/ Generate(q)
             \/ UNCHANGED vars
    BY <2>1, <2>4 DEF SendCommand, SendRequest, SendCancel, Generate, AcquirePermit, Finish, vars
  <2> QED
    BY <1>3, <2>1, <2>2, <2>3, <2>4 DEF Next, Environment
<1>4. ASSUME ~Connect, UNCHANGED <<gen, wanted>>
      PROVE  Promised /\ (loaded = wanted \/ Pursued)
  BY <1>1, <1>3, <1>4 DEF Promised, Kept
<1>5. ASSUME ~Connect, UNCHANGED <<gen, wanted, loaded, attempt, starting, guard>>
      PROVE  loaded' = wanted' \/ Pursued'
  BY <1>4, <1>5 DEF Pursued, ToStart
<1>6. ASSUME NEW c \in Conn, StartSetsTx(c)
      PROVE  Pursued'
  <2>1. guard' = Append(guard, <<"start", c>>) /\ <<"start", c>> \in Waiter
    BY <1>6 DEF StartSetsTx, Join, Waiter
  <2>2. Queued(<<"start", c>>, guard')
    BY <1>1, <2>1, QueueMembers
  <2> QED
    BY <2>2 DEF Pursued, ToStart
<1>7. ASSUME NEW c \in Conn, StartReads(c), ~Connect
      PROVE  loaded' = wanted' \/ Pursued'
  <2>1. UNCHANGED <<gen, wanted, loaded>>
    BY <1>7 DEF StartReads
  <2>2. loaded = wanted \/ loaded = NoModel
    BY <1>1, <2>1 DEF SinceStart
  <2>3. ToStart(c)
    BY <1>1, <1>7, HolderQueued DEF StartReads, TakesGuard, ToStart
  <2>4. ChainOf(c) \in Chain
    BY <2>3, ChainsApart DEF QueueInv, ConnChains
  <2>5. CASE loaded = NoModel
    <3>1. SpawnLoad(ChainOf(c), wanted, gen)
      BY <1>1, <1>7, <2>1, <2>5 DEF StartReads
    <3>2. attempt'[ChainOf(c)].step = "spawned"
      BY <1>1, <2>4, <3>1, ChainSteps
    <3> QED
      BY <2>4, <3>2 DEF Pursued
  <2> QED
    BY <2>1, <2>2, <2>5
<1>8. ASSUME NEW c \in Chain, Load(c), ~Connect
      PROVE  loaded' = wanted' \/ Pursued'
  <2>1. UNCHANGED <<gen, wanted>> /\ attempt[c].step # "none"
    BY <1>8 DEF Load, PullStep, Startup, Announce, AlreadyLoaded, Pull, NotResolved, DownloadFails,
       StartServer, Unloaded, StartupFails, Fails, Healthy, ReportsReady, ReportsFailed, Retry
  <2>2. attempt[c].model = wanted /\ attempt[c].gen = gen /\ wanted \notin Unknown
    BY <1>1, <2>1 DEF SinceStart
  <2>3. CASE \/ Announce(c) \/ Pull(c) \/ NotResolved(c) \/ DownloadFails(c) \/ StartServer(c)
             \/ StartupFails(c) \/ Healthy(c) \/ Retry(c)
    <3>1. \E s \in AttemptStep \ {"none"} : GoTo(c, s)
      BY <2>2, <2>3 DEF Announce, Pull, NotResolved, DownloadFails, StartServer, StartupFails,
         Fails, Healthy, Retry, AttemptStep
    <3>2. attempt'[c].step # "none"
      BY <1>1, <3>1, ChainSteps
    <3> QED
      BY <3>2 DEF Pursued
  <2>4. CASE AlreadyLoaded(c)
    BY <2>1, <2>2, <2>4 DEF AlreadyLoaded
  <2>5. CASE Unloaded(c)
    BY <1>1, <2>1, <2>5 DEF Unloaded, SinceStart
  <2>6. CASE ReportsReady(c)
    BY <1>1, <2>1, <2>6 DEF ReportsReady, SinceStart
  <2>7. CASE ReportsFailed(c)
    <3>1. attempt[c].step = "failed" /\ GoTo(c, "resting")
      BY <1>1, <2>1, <2>2, <2>7 DEF ReportsFailed, SinceStart
    <3>2. attempt'[c].step = "resting"
      BY <1>1, <3>1, ChainSteps
    <3> QED
      BY <3>2 DEF Pursued
  <2> QED
    BY <1>8, <2>3, <2>4, <2>5, <2>6, <2>7 DEF Load, PullStep, Startup
(* Until the first command nothing is unloaded.                            *)
<1>9. CASE Unload
  <2>1. gen' = gen /\ unload.step # "idle"
    BY <1>9 DEF Unload, UnloadClears, UnloadFlags, UnloadKills, UnloadReports, loading
  <2> QED
    BY <1>1, <2>1 DEF SinceStart
<1>10. ASSUME NEW msg \in inbox, HandleLoad(msg) \/ HandleUnload(msg)
       PROVE  FALSE
  <2>1. gen' = gen + 1
    BY <1>10 DEF HandleLoad, HandleUnload
  <2> QED
    BY <1>1, <2>1
<1>11. CASE \/ \E kind \in {"load", "unload"}, m \in Model : SendCommand(kind, m)
            \/ \E q \in Req : SendRequest(q) \/ SendCancel(q) \/ HandleRequest(q)
                              \/ HandleCancel(q) \/ Generate(q)
            \/ EnterHandle \/ UNCHANGED vars
  <2>1. UNCHANGED <<gen, wanted, loaded, attempt, starting, guard>>
    BY <1>11 DEF SendCommand, SendRequest, SendCancel, HandleRequest, HandleCancel, Generate,
       AcquirePermit, Finish, EnterHandle, loading, vars
  <2> QED
    BY <1>2, <1>5, <2>1
<1> QED
  BY <1>2, <1>3, <1>6, <1>7, <1>8, <1>9, <1>10, <1>11 DEF Next, Environment, Start, Handle

(* An agent that came back with a wanted model has it loaded, or a start() *)
(* or a load of that very model is on, until the first command it gets.    *)
WantedIsPursued ==
    Promised =>
      \/ loaded = wanted
      \/ \E c \in Conn : ToStart(c)
      \/ \E c \in Chain : attempt[c].step # "none" /\ attempt[c].model = wanted

(* A wanted model is never dropped after a restart, however many pulls     *)
(* fail and connections come and go (lib.rs, "Keeping a node's model       *)
(* loaded"): what WantedIsLoaded rests on.                                 *)
THEOREM WantedNeverDropped == Spec => []WantedIsPursued
<1>1. Init => SinceStart /\ Kept
  BY DEF Init, SinceStart, Kept, Promised, NoAttempt, NoUnload
<1>2. SinceStart /\ Kept => WantedIsPursued
  BY DEF SinceStart, Kept, Promised, Pursued, WantedIsPursued
<1> QED
  BY <1>1, <1>2, QueueInvAlways, SinceStartKept, KeptKept, PTL DEF Spec

=============================================================================
