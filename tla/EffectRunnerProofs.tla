------------------------- MODULE EffectRunnerProofs -------------------------
(* Theorems of EffectRunner, for any bulbs, effects, colours and numbers   *)
(* of requests and mishaps.                                                *)
EXTENDS EffectRunner, TLAPS

(* Commands are left only while the runner dispatches.                     *)
NothingLeft == at # "dispatch" => todo = [b \in Bulb |-> NoColour]

(* A tick that began beside a permit finds it when it ends; the runner     *)
(* never waits, nor comes round for a tick, with one that is overdue.      *)
PermitIsNear ==
    /\ overdue \in {0, 1}
    /\ at \in {"top", "wait"} => overdue = 0
    /\ at \in {"dispatch", "poll"} /\ overdue = 1 => permit

(* What only the runner writes, the rows and handlers it shares, and what  *)
(* it sees and does of the bulbs.  A row without effect has no overrides;  *)
(* a handler that sends has a colour to send.                              *)
RunnerTypes ==
    /\ at \in At
    /\ inst \in [effect : Effect \cup {NoEffect}, out : SUBSET Bulb,
                 fresh : BOOLEAN, due : BOOLEAN]
    /\ les \in [Bulb -> Sendable]
    /\ todo \in [Bulb -> Sendable]
SharedTypes ==
    /\ row \in {Idle} \cup [effect : Effect, out : SUBSET Bulb]
    /\ permit \in BOOLEAN
    /\ handlers \in SUBSET Handler
    /\ \A h \in handlers : h.step = "exclude" \/ h.on = {} \/ h.colour \in Colour
    /\ overdue \in Nat
    /\ inputs \in 0..MaxInput
BulbTypes ==
    /\ snap \in [Bulb -> Reading]
    /\ saved \in [Bulb -> Reading]
    /\ wire \in [Bulb -> SUBSET Colour]
    /\ light \in [Bulb -> Colour]
    /\ power \in SUBSET Bulb
    /\ told \in [Bulb -> Colour \cup {NoColour}]
    /\ gone \in SUBSET Bulb
    /\ trouble \in 0..MaxTrouble
    /\ unheard \in SUBSET Bulb

(* The inductive invariant.                                                *)
RunnerInv == /\ RunnerTypes /\ SharedTypes /\ BulbTypes
             /\ NothingLeft /\ PermitIsNear /\ LagIsNotified

LEMMA TypesOfParts == RunnerTypes /\ SharedTypes /\ BulbTypes => TypeOK
BY DEF RunnerTypes, SharedTypes, BulbTypes, TypeOK, Idle

(* A colour a bulb reports makes a reading.                                *)
LEMMA ReadsType == \A c \in Colour : Reads(c) \in Reading
BY ColourAssumption DEF Reads, Reading

(* The frame of an instance is a colour, and one it may have sent.         *)
LEMMA FrameType ==
    ASSUME inst.effect \in Effect
    PROVE  FrameOf[inst.effect] \in Colour /\ FrameOf[inst.effect] \in Sendable
BY FrameAssumption DEF Sendable

LEMMA SendableIsColour == Sendable \subseteq Colour \cup {NoColour}
BY FrameAssumption DEF Sendable

(* What may have been sent depends on the instance's effect only.          *)
LEMMA SendableKept ==
    ASSUME inst'.effect = inst.effect
    PROVE  Sendable' = Sendable
BY DEF Sendable

LEMMA RowOfTypes ==
    ASSUME row \in {Idle} \cup [effect : Effect, out : SUBSET Bulb]
    PROVE  /\ row.effect \in Effect \cup {NoEffect} /\ row.out \in SUBSET Bulb
           /\ row.effect = NoEffect => row.out = {}
BY EffectAssumption DEF Idle

(* What the runner leaves alone keeps its type.                            *)
LEMMA RunnerKept == RunnerTypes /\ UNCHANGED runner => RunnerTypes'
<1> SUFFICES ASSUME RunnerTypes, UNCHANGED runner PROVE RunnerTypes'
  OBVIOUS
<1>1. Sendable' = Sendable
  BY SendableKept DEF runner
<1> QED BY <1>1 DEF RunnerTypes, runner

LEMMA BulbsKept ==
    BulbTypes /\ UNCHANGED <<dash, bulbs, trouble, unheard>> => BulbTypes'
BY DEF BulbTypes, dash, bulbs

LEMMA NothingLeftKept == NothingLeft /\ UNCHANGED runner => NothingLeft'
BY DEF NothingLeft, runner

-----------------------------------------------------------------------------
LEMMA InitInv == Init => RunnerInv
<1> SUFFICES ASSUME Init PROVE RunnerInv
  OBVIOUS
<1>1. Reads(Warm) \in Reading
  BY ReadsType, ColourAssumption
<1>2. BulbTypes
  BY <1>1, ColourAssumption, BoundAssumption DEF Init, BulbTypes
<1>3. RunnerTypes
  BY DEF Init, RunnerTypes, Sendable, NoInst, At
<1>4. row \in {Idle} \cup [effect : Effect, out : SUBSET Bulb]
  BY DEF Init
<1>5. SharedTypes
  <2>1. handlers = {} /\ permit \in BOOLEAN
    BY DEF Init
  <2> QED BY <2>1, <1>4, BoundAssumption DEF Init, SharedTypes
<1>6. NothingLeft /\ PermitIsNear /\ LagIsNotified
  BY DEF Init, NothingLeft, PermitIsNear, LagIsNotified
<1> QED BY <1>2, <1>3, <1>5, <1>6 DEF RunnerInv

-----------------------------------------------------------------------------
(* The runner's own steps.                                                 *)

LEMMA RehydrateInv == RunnerInv /\ Rehydrate => RunnerInv'
<1> SUFFICES ASSUME RunnerInv, Rehydrate PROVE RunnerInv'
  OBVIOUS
<1> USE DEF RunnerInv
<1>1. todo = [b \in Bulb |-> NoColour] /\ todo' = todo
  BY DEF Rehydrate, NothingLeft
<1>2. CASE row.effect = inst.effect
  <2>1. PICK late \in BOOLEAN :
            inst' = [inst EXCEPT !.out = row.out, !.due = @ \/ late]
    BY <1>2 DEF Rehydrate
  <2> DEFINE due == inst.due \/ late
  <2>0. inst' = [inst EXCEPT !.out = row.out, !.due = due]
    BY <2>1
  <2>2. due \in BOOLEAN
    OBVIOUS
  <2>a. row.out \in SUBSET Bulb
    BY RowOfTypes DEF SharedTypes
  <2> HIDE DEF due
  <2>3. /\ inst' \in [effect : Effect \cup {NoEffect}, out : SUBSET Bulb,
                      fresh : BOOLEAN, due : BOOLEAN]
        /\ inst'.effect = inst.effect /\ inst'.out = row.out
    BY <2>0, <2>2, <2>a DEF RunnerTypes
  <2>4. RunnerTypes'
    BY <1>1, <1>2, <2>3, SendableKept DEF Rehydrate, RunnerTypes, At
  <2>5. Follows'
    BY <1>2, <2>3 DEF Rehydrate, Follows
  <2> QED BY <1>1, <2>4, <2>5, BulbsKept
       DEF Rehydrate, SharedTypes, NothingLeft, PermitIsNear, LagIsNotified, bounds
<1>3. CASE row.effect # inst.effect
  <2>1. inst' = IF row.effect = NoEffect THEN NoInst ELSE Started
    BY <1>3 DEF Rehydrate
  <2>2. /\ inst' \in [effect : Effect \cup {NoEffect}, out : SUBSET Bulb,
                      fresh : BOOLEAN, due : BOOLEAN]
    BY <2>1, RowOfTypes DEF NoInst, Started, SharedTypes
  <2>3. RunnerTypes'
    BY <1>1, <1>3, <2>2 DEF Rehydrate, RunnerTypes, At, Sendable
  <2>4. inst'.effect = row.effect /\ inst'.out = row.out
    BY <2>1, RowOfTypes DEF NoInst, Started, SharedTypes
  <2>5. Follows'
    BY <2>4 DEF Rehydrate, Follows
  <2> QED BY <1>1, <2>3, <2>5, BulbsKept
       DEF Rehydrate, SharedTypes, NothingLeft, PermitIsNear, LagIsNotified, bounds
<1> QED BY <1>2, <1>3

(* Steps of the loop that write no command.                                *)
LEMMA LoopInv == RunnerInv /\ (NothingDue \/ Notified \/ Sleep) => RunnerInv'
<1> SUFFICES ASSUME RunnerInv, NothingDue \/ Notified \/ Sleep PROVE RunnerInv'
  OBVIOUS
<1> USE DEF RunnerInv
<1>1. /\ at # "dispatch" /\ at' \in {"poll", "wait", "rehydrate"}
      /\ UNCHANGED <<row, handlers, inst, les, todo, dash, bulbs, bounds, unheard,
                     overdue>>
      /\ permit' \in BOOLEAN
  BY DEF NothingDue, Notified, Sleep, SharedTypes
<1>2. RunnerTypes'
  BY <1>1, SendableKept DEF RunnerTypes, At
<1>3. SharedTypes' /\ BulbTypes'
  BY <1>1, BulbsKept DEF SharedTypes, bounds
<1>4. NothingLeft'
  BY <1>1 DEF NothingLeft
<1>5. PermitIsNear'
  BY DEF NothingDue, Notified, Sleep, PermitIsNear
<1>6. LagIsNotified'
  BY DEF NothingDue, Notified, Sleep, LagIsNotified, Follows
<1> QED BY <1>2, <1>3, <1>4, <1>5, <1>6

LEMMA DeadlineInv == RunnerInv /\ Deadline => RunnerInv'
<1> SUFFICES ASSUME RunnerInv, Deadline PROVE RunnerInv'
  OBVIOUS
<1> USE DEF RunnerInv
<1>1. /\ inst' \in [effect : Effect \cup {NoEffect}, out : SUBSET Bulb,
                    fresh : BOOLEAN, due : BOOLEAN]
      /\ inst'.effect = inst.effect /\ inst'.out = inst.out
  BY DEF Deadline, RunnerTypes
<1>2. RunnerTypes'
  BY <1>1, SendableKept DEF Deadline, RunnerTypes, At
<1>3. SharedTypes' /\ BulbTypes'
  BY BulbsKept DEF Deadline, SharedTypes, bounds
<1>4. NothingLeft' /\ PermitIsNear'
  BY DEF Deadline, NothingLeft, PermitIsNear
<1>5. LagIsNotified'
  BY <1>1 DEF Deadline, LagIsNotified, Follows
<1> QED BY <1>2, <1>3, <1>4, <1>5

(* The commands of a tick are of the instance's effect, and without one    *)
(* left the runner polls.                                                  *)
LEMMA TickInv == RunnerInv /\ Tick => RunnerInv'
<1> SUFFICES ASSUME RunnerInv, Tick PROVE RunnerInv'
  OBVIOUS
<1> USE DEF RunnerInv
<1>1. /\ inst' \in [effect : Effect \cup {NoEffect}, out : SUBSET Bulb,
                    fresh : BOOLEAN, due : BOOLEAN]
      /\ inst'.effect = inst.effect /\ inst'.out = inst.out
  BY DEF Tick, RunnerTypes
<1>2. inst.effect \in Effect
  BY DEF Tick, RunnerTypes
<1>3. Sendable' = Sendable /\ NoColour \in Sendable
  BY <1>1, SendableKept DEF Sendable
<1>4. les' \in [Bulb -> Sendable]
  BY <1>3 DEF Tick, RunnerTypes
<1>5. todo' \in [Bulb -> Sendable]
  BY <1>2, <1>3, FrameType DEF Tick
<1>6. at' = IF todo' = [b \in Bulb |-> NoColour] THEN "poll" ELSE "dispatch"
  BY DEF Tick, Sending
<1>7. RunnerTypes'
  BY <1>1, <1>3, <1>4, <1>5, <1>6 DEF RunnerTypes, At
<1>8. SharedTypes' /\ BulbTypes'
  BY BulbsKept DEF Tick, SharedTypes, bounds
<1>9. NothingLeft' /\ PermitIsNear'
  BY <1>6 DEF Tick, NothingLeft, PermitIsNear
<1>10. LagIsNotified'
  BY <1>1 DEF Tick, LagIsNotified, Follows
<1> QED BY <1>7, <1>8, <1>9, <1>10

LEMMA DispatchInv ==
    ASSUME RunnerInv, NEW b \in Bulb, Dispatch(b) \/ DispatchFails(b)
    PROVE  RunnerInv'
<1> USE DEF RunnerInv
<1>1. inst' = inst /\ Sendable' = Sendable /\ NoColour \in Sendable
  BY SendableKept DEF Dispatch, DispatchFails, Sendable
<1>2. todo[b] \in Sendable /\ todo[b] \in Colour
  BY SendableIsColour DEF Dispatch, DispatchFails, RunnerTypes
<1>3. at = "dispatch"
      /\ at' = IF todo' = [x \in Bulb |-> NoColour] THEN "poll" ELSE "dispatch"
  BY DEF Dispatch, DispatchFails, Sending
<1>4. les' \in [Bulb -> Sendable] /\ todo' \in [Bulb -> Sendable]
  BY <1>1, <1>2 DEF Dispatch, DispatchFails, RunnerTypes
<1>5. RunnerTypes'
  BY <1>1, <1>3, <1>4 DEF RunnerTypes, At
<1>6. SharedTypes'
  BY DEF Dispatch, DispatchFails, SharedTypes, bounds
<1>7. BulbTypes'
  <2>1. CASE Dispatch(b)
    BY <2>1, <1>2 DEF Dispatch, BulbTypes, dash, bounds
  <2>2. CASE DispatchFails(b)
    BY <2>2, BoundAssumption DEF DispatchFails, Trouble, BulbTypes, dash, bulbs
  <2> QED BY <2>1, <2>2
<1>8. NothingLeft' /\ PermitIsNear' /\ LagIsNotified'
  BY <1>1, <1>3 DEF Dispatch, DispatchFails, NothingLeft, PermitIsNear,
     LagIsNotified, Follows
<1> QED BY <1>5, <1>6, <1>7, <1>8

-----------------------------------------------------------------------------
(* Requests and what follows them.                                         *)

(* The runner, its permit and the row left alone: the lag is excused as    *)
(* long as no handler before its notify disappears.                        *)
LEMMA LagKept ==
    ASSUME LagIsNotified, UNCHANGED <<row, permit, runner>>,
           \A g \in handlers : g.step = "notify" => g \in handlers'
    PROVE  LagIsNotified'
BY DEF LagIsNotified, Follows, runner

LEMMA PermitKept == PermitIsNear /\ UNCHANGED <<permit, runner, overdue>> => PermitIsNear'
BY DEF PermitIsNear, runner

(* A request that has written enters its handler.                          *)
LEMMA ThenType ==
    ASSUME SharedTypes, NEW step \in {"exclude", "notify"}, NEW on \in SUBSET Bulb,
           NEW c \in Colour \cup {NoColour}, Then(step, on, c),
           step = "exclude" \/ on = {} \/ c \in Colour,
           row' \in {Idle} \cup [effect : Effect, out : SUBSET Bulb]
    PROVE  /\ SharedTypes'
           /\ UNCHANGED <<permit, runner, trouble, unheard, overdue>>
           /\ handlers \subseteq handlers'
           /\ step = "notify" => \E g \in handlers' : g.step = "notify"
<1> DEFINE g == [id |-> inputs + 1, step |-> step, on |-> on, colour |-> c]
<1>1. inputs + 1 \in 0..MaxInput
  BY BoundAssumption DEF Then, SharedTypes
<1>2. g \in Handler /\ g.step = step
  BY <1>1 DEF Handler
<1>3. handlers' = handlers \cup {g} /\ inputs' = inputs + 1
  BY DEF Then
<1> QED BY <1>1, <1>2, <1>3 DEF Then, SharedTypes

(* A request that writes a row: its notify is to come.                     *)
LEMMA RowRequestInv ==
    ASSUME RunnerInv, NEW on \in SUBSET Bulb, NEW c \in Colour \cup {NoColour},
           on = {} \/ c \in Colour, Then("notify", on, c), UNCHANGED <<dash, bulbs>>,
           row' \in {Idle} \cup [effect : Effect, out : SUBSET Bulb]
    PROVE  RunnerInv'
<1> USE DEF RunnerInv
<1>1. /\ SharedTypes' /\ UNCHANGED <<permit, runner, trouble, unheard, overdue>>
      /\ \E g \in handlers' : g.step = "notify"
  BY ThenType
<1> QED BY <1>1, RunnerKept, BulbsKept, NothingLeftKept, PermitKept DEF LagIsNotified

(* A command to a bulb and the snapshot of it.                             *)
LEMMA IntendedType ==
    ASSUME NEW r \in Reading, NEW c \in Colour
    PROVE  Intended(r, c) \in Reading
BY DEF Intended, Reading

LEMMA SendType ==
    ASSUME BulbTypes, NEW b \in Bulb, NEW c \in Colour, NEW r \in Reading,
           Send(b, c), snap' = [snap EXCEPT ![b] = r],
           UNCHANGED <<saved, light, power, told, gone, trouble, unheard>>
    PROVE  BulbTypes'
BY DEF BulbTypes, Send

LEMMA InputInv == RunnerInv /\ Input => RunnerInv'
<1> SUFFICES ASSUME RunnerInv, Input PROVE RunnerInv'
  OBVIOUS
<1> USE DEF RunnerInv
<1>1. ASSUME NEW e \in Effect, SelectEffect(e) PROVE RunnerInv'
  BY <1>1, RowRequestInv DEF SelectEffect
<1>2. CASE ClearEffect
  BY <1>2, RowRequestInv DEF ClearEffect
<1>3. ASSUME NEW b \in Bulb, NEW excluded \in BOOLEAN, PatchOverride(b, excluded)
      PROVE  RunnerInv'
  <2>1. row \in [effect : Effect, out : SUBSET Bulb]
    BY <1>3 DEF PatchOverride, SharedTypes, Idle
  <2>2. row' \in [effect : Effect, out : SUBSET Bulb]
    BY <1>3, <2>1 DEF PatchOverride
  <2> QED BY <1>3, <2>2, RowRequestInv DEF PatchOverride
<1>4. ASSUME NEW b \in Bulb, NEW c \in Manual, LightCommand(b, c) PROVE RunnerInv'
  <2>1. c \in Colour /\ Intended(snap[b], c) \in Reading
    BY IntendedType, ColourAssumption DEF BulbTypes
  <2>2. /\ SharedTypes' /\ UNCHANGED <<permit, runner, trouble, unheard, overdue>>
        /\ handlers \subseteq handlers' /\ row' = row
    BY <1>4, ThenType DEF LightCommand, SharedTypes
  <2>3. BulbTypes'
    BY <1>4, <2>1, <2>2, SendType DEF LightCommand
  <2> QED BY <2>2, <2>3, RunnerKept, NothingLeftKept, PermitKept, LagKept
<1>5. ASSUME NEW b \in Bulb, NEW c \in Manual, RoomCommand(b, c) PROVE RunnerInv'
  <2>1. c \in Colour /\ Intended(snap[b], c) \in Reading
    BY IntendedType, ColourAssumption DEF BulbTypes
  <2>2. BulbTypes'
    BY <1>5, <2>1, SendType DEF RoomCommand
  <2>3. /\ SharedTypes'
        /\ UNCHANGED <<row, permit, handlers, runner, overdue>>
    BY <1>5, BoundAssumption DEF RoomCommand, SharedTypes
  <2> QED BY <2>2, <2>3, RunnerKept, NothingLeftKept, PermitKept, LagKept
<1>6. ASSUME NEW e \in Effect \cup {NoEffect}, NEW b \in Bulb, NEW c \in Manual,
             RecallScene(e, {b}, c)
      PROVE  RunnerInv'
  <2>1. c \in Colour /\ row' \in {Idle} \cup [effect : Effect, out : SUBSET Bulb]
    BY <1>6, ColourAssumption DEF RecallScene
  <2> QED BY <1>6, <2>1, RowRequestInv DEF RecallScene
<1> QED BY <1>1, <1>2, <1>3, <1>4, <1>5, <1>6 DEF Input

(* A handler goes on, if it does, as one that may.                         *)
LEMMA HandlerGoesOn ==
    ASSUME SharedTypes, NEW h \in handlers, NEW g \in Handler,
           g.step = "exclude" \/ g.on = {} \/ g.colour \in Colour,
           handlers' \subseteq (handlers \ {h}) \cup {g},
           row' \in {Idle} \cup [effect : Effect, out : SUBSET Bulb],
           permit' \in BOOLEAN, UNCHANGED <<inputs, overdue>>
    PROVE  SharedTypes'
BY DEF SharedTypes

(* A handler writes, and still has to notify; or notifies; or sends.       *)
LEMMA ContinueInv ==
    ASSUME RunnerInv, NEW h \in handlers, Continue(h)
    PROVE  RunnerInv'
<1> USE DEF RunnerInv
<1>1. h \in Handler
  BY DEF SharedTypes
<1>2. CASE Exclude(h)
  <2>1. /\ UNCHANGED <<permit, runner, dash, bulbs, inputs, trouble, unheard, overdue>>
        /\ h.step = "exclude"
    BY <1>2 DEF Exclude, bounds
  <2>2. CASE row.effect = NoEffect
    BY <1>2, <2>1, <2>2, RunnerKept, BulbsKept, NothingLeftKept, PermitKept, LagKept
       DEF Exclude, SharedTypes
  <2>3. CASE row.effect # NoEffect
    <3> DEFINE g == [h EXCEPT !.step = "notify", !.on = {}]
    <3>1. g \in Handler /\ g.step = "notify" /\ g.on = {}
      BY <1>1 DEF Handler
    <3>2. handlers' = (handlers \ {h}) \cup {g}
      BY <1>2, <2>3 DEF Exclude
    <3>3. row \in [effect : Effect, out : SUBSET Bulb] /\ h.on \in SUBSET Bulb
      BY <1>1, <2>3 DEF SharedTypes, Idle, Handler
    <3>4. row' \in [effect : Effect, out : SUBSET Bulb]
      BY <1>2, <2>3, <3>3 DEF Exclude
    <3> HIDE DEF g
    <3>5. SharedTypes'
      BY <2>1, <3>1, <3>2, <3>4, HandlerGoesOn DEF SharedTypes
    <3>6. LagIsNotified'
      BY <3>1, <3>2 DEF LagIsNotified
    <3> QED BY <2>1, <3>5, <3>6, RunnerKept, BulbsKept, NothingLeftKept, PermitKept
  <2> QED BY <2>2, <2>3
<1>3. CASE Pause(h)
  <2> DEFINE g == [h EXCEPT !.step = "notify"]
  <2>1. /\ UNCHANGED <<permit, runner, dash, bulbs, inputs, trouble, unheard, overdue>>
        /\ h.step = "pause" /\ row' = Idle
        /\ handlers' = (handlers \ {h}) \cup {x \in {g} : row.effect # NoEffect}
    BY <1>3 DEF Pause, bounds
  <2>2. /\ g \in Handler /\ g.step = "notify"
        /\ g.on = {} \/ g.colour \in Colour
    BY <1>1, <2>1 DEF Handler, SharedTypes
  <2> HIDE DEF g
  <2>3. SharedTypes'
    BY <2>1, <2>2, HandlerGoesOn DEF SharedTypes
  <2>4. LagIsNotified'
    <3>1. CASE row.effect = NoEffect
      <4>1. row' = row
        BY <2>1, <3>1, EffectAssumption DEF SharedTypes
      <4> QED BY <2>1, <4>1, LagKept
    <3>2. CASE row.effect # NoEffect
      BY <2>1, <2>2, <3>2 DEF LagIsNotified
    <3> QED BY <3>1, <3>2
  <2> QED BY <2>1, <2>3, <2>4, RunnerKept, BulbsKept, NothingLeftKept, PermitKept
<1>4. CASE Notify(h)
  <2> DEFINE g == [h EXCEPT !.step = "recall"]
  <2>1. /\ UNCHANGED <<row, runner, dash, bulbs, inputs, trouble, unheard, overdue>>
        /\ permit' = TRUE /\ h.step = "notify"
        /\ handlers' = (handlers \ {h}) \cup {x \in {g} : h.on # {}}
    BY <1>4 DEF Notify, bounds
  <2>2. g \in Handler /\ (g.on = {} \/ g.colour \in Colour)
    BY <1>1, <2>1 DEF Handler, SharedTypes
  <2> HIDE DEF g
  <2>3. SharedTypes'
    BY <2>1, <2>2, HandlerGoesOn DEF SharedTypes
  <2>4. PermitIsNear' /\ LagIsNotified'
    BY <2>1 DEF PermitIsNear, LagIsNotified, runner
  <2> QED BY <2>1, <2>3, <2>4, RunnerKept, BulbsKept, NothingLeftKept
<1>5. ASSUME NEW b \in Bulb, Recall(h, b) PROVE RunnerInv'
  <2> DEFINE g == [h EXCEPT !.on = @ \ {b}]
  <2>1. /\ UNCHANGED <<row, permit, runner, inputs, trouble, unheard, overdue>>
        /\ h.step = "recall" /\ b \in h.on
        /\ handlers' = (handlers \ {h}) \cup {x \in {g} : h.on # {b}}
    BY <1>5 DEF Recall, bounds
  <2>2. h.colour \in Colour
    BY <2>1 DEF SharedTypes
  <2>3. g \in Handler /\ g.colour \in Colour
    BY <1>1, <2>2 DEF Handler
  <2> HIDE DEF g
  <2>4. SharedTypes' /\ LagIsNotified'
    BY <2>1, <2>3, HandlerGoesOn, LagKept DEF SharedTypes
  <2>5. BulbTypes'
    BY <1>5, <2>1, <2>2, SendType, ReadsType DEF Recall
  <2> QED BY <2>1, <2>4, <2>5, RunnerKept, NothingLeftKept, PermitKept
<1> QED BY <1>2, <1>3, <1>4, <1>5 DEF Continue

-----------------------------------------------------------------------------
(* The bulbs, the lighting connection and what may go wrong.               *)

(* Where only what is seen and done of the bulbs changes.                  *)
LEMMA BulbStepInv ==
    ASSUME RunnerInv, BulbTypes',
           UNCHANGED <<row, permit, handlers, runner, inputs, overdue>>
    PROVE  RunnerInv'
<1> USE DEF RunnerInv
<1>1. SharedTypes'
  BY DEF SharedTypes
<1> QED BY <1>1, RunnerKept, NothingLeftKept, PermitKept, LagKept

LEMMA BulbInv ==
    ASSUME RunnerInv, NEW b \in Bulb,
           \/ \E c \in Colour : BulbTakes(b, c)
           \/ Report(b)
           \/ PowerOff(b)
           \/ Restore(b)
    PROVE  RunnerInv'
<1> USE DEF RunnerInv
<1>1. UNCHANGED <<row, permit, handlers, runner, inputs, overdue>>
  BY DEF BulbTakes, Report, PowerOff, Restore, bounds, Trouble
<1>2. ASSUME NEW c \in Colour, BulbTakes(b, c) PROVE BulbTypes'
  BY <1>2 DEF BulbTakes, BulbTypes, dash, bounds
<1>3. ASSUME Report(b) PROVE BulbTypes'
  <2>1. Reads(told[b]) \in Reading
    BY <1>3, ReadsType DEF Report, BulbTypes
  <2>2. /\ snap' = [snap EXCEPT ![b] = Reads(told[b])]
        /\ saved' = [saved EXCEPT ![b] = Reads(told[b])]
        /\ told' = [told EXCEPT ![b] = NoColour]
        /\ unheard' = unheard \ {b}
        /\ UNCHANGED <<wire, light, power, gone, trouble>>
    BY <1>3 DEF Report, bounds
  <2> DEFINE r == Reads(told[b])
  <2> HIDE DEF r
  <2>3. snap' \in [Bulb -> Reading] /\ saved' \in [Bulb -> Reading]
    BY <2>1, <2>2 DEF BulbTypes, r
  <2> QED BY <2>2, <2>3 DEF BulbTypes
<1>4. ASSUME PowerOff(b) PROVE BulbTypes'
  <2>1. trouble' \in 0..MaxTrouble
    BY <1>4, BoundAssumption DEF PowerOff, Trouble, BulbTypes
  <2> QED BY <1>4, <2>1 DEF PowerOff, BulbTypes, dash
<1>5. ASSUME Restore(b) PROVE BulbTypes'
  <2>1. trouble' \in 0..MaxTrouble
    BY <1>5, BoundAssumption DEF Restore, Trouble, BulbTypes
  <2> QED BY <1>5, <2>1, ColourAssumption DEF Restore, BulbTypes, dash
<1> QED BY <1>1, <1>2, <1>3, <1>4, <1>5, BulbStepInv

LEMMA OfflineInv ==
    ASSUME RunnerInv, NEW b \in Bulb, ReportOffline(b)
    PROVE  RunnerInv'
<1> USE DEF RunnerInv
<1> DEFINE g == [id |-> 0, step |-> "pause", on |-> {}, colour |-> NoColour]
<1>1. g \in Handler
  BY BoundAssumption DEF Handler
<1>2. g.on = {}
  OBVIOUS
<1>3. handlers' = handlers \cup {g}
      /\ UNCHANGED <<row, permit, runner, inputs, overdue>>
  BY DEF ReportOffline, bounds
<1> HIDE DEF g
<1>4. SharedTypes' /\ LagIsNotified'
  BY <1>1, <1>2, <1>3, LagKept DEF SharedTypes
<1>5. NoReading \in Reading /\ [snap[b] EXCEPT !.online = FALSE] \in Reading
  BY DEF NoReading, Reading, BulbTypes
<1>6. BulbTypes'
  BY <1>5 DEF ReportOffline, BulbTypes, bounds
<1> QED BY <1>3, <1>4, <1>6, RunnerKept, NothingLeftKept, PermitKept

LEMMA LinkLostInv == RunnerInv /\ LinkLost => RunnerInv'
<1> SUFFICES ASSUME RunnerInv, LinkLost PROVE RunnerInv'
  OBVIOUS
<1>1. BulbTypes'
  BY BoundAssumption DEF RunnerInv, LinkLost, Trouble, BulbTypes, dash
<1> QED BY <1>1, BulbStepInv DEF LinkLost

LEMMA RestartInv == RunnerInv /\ Restart => RunnerInv'
<1> SUFFICES ASSUME RunnerInv, Restart PROVE RunnerInv'
  OBVIOUS
<1> USE DEF RunnerInv
<1>1. BulbTypes'
  BY BoundAssumption DEF Restart, Trouble, BulbTypes
<1>2. RunnerTypes'
  BY DEF Restart, RunnerTypes, Sendable, NoInst, At
<1>3. SharedTypes'
  BY DEF Restart, SharedTypes
<1>4. NothingLeft' /\ PermitIsNear' /\ LagIsNotified'
  BY DEF Restart, NothingLeft, PermitIsNear, LagIsNotified
<1> QED BY <1>1, <1>2, <1>3, <1>4

LEMMA StutterInv == RunnerInv /\ UNCHANGED vars => RunnerInv'
BY BulbStepInv, BulbsKept DEF vars, RunnerInv, bounds

LEMMA NextInv == RunnerInv /\ [Next]_vars => RunnerInv'
<1> SUFFICES ASSUME RunnerInv, [Next]_vars PROVE RunnerInv'
  OBVIOUS
<1>1. CASE Loop
  BY <1>1, RehydrateInv, LoopInv, TickInv, DispatchInv, DeadlineInv DEF Loop
<1>2. CASE \E h \in handlers : Continue(h)
  BY <1>2, ContinueInv
<1>3. CASE \E b \in Bulb : Report(b) \/ ReportOffline(b)
  BY <1>3, BulbInv, OfflineInv
<1>4. CASE \E b \in Bulb, c \in Colour : BulbTakes(b, c)
  BY <1>4, BulbInv
<1>5. CASE Input
  BY <1>5, InputInv
<1>6. CASE Mishap
  BY <1>6, DispatchInv, BulbInv, LinkLostInv, RestartInv DEF Mishap
<1>7. CASE UNCHANGED vars
  BY <1>7, StutterInv
<1> QED BY <1>1, <1>2, <1>3, <1>4, <1>5, <1>6, <1>7 DEF Next

-----------------------------------------------------------------------------
(* The inductive invariant holds always.                                   *)
LEMMA AlwaysInv == Spec => []RunnerInv
<1>1. Init => RunnerInv
  BY InitInv
<1>2. RunnerInv /\ [Next]_vars => RunnerInv'
  BY NextInv
<1> QED BY <1>1, <1>2, PTL DEF Spec

(* Every variable keeps its type: what LES and the commands of a tick hold *)
(* is never of an effect the instance no longer plays.                     *)
THEOREM EffectTypes == Spec => []TypeOK
<1>1. RunnerInv => TypeOK
  BY TypesOfParts DEF RunnerInv
<1> QED BY <1>1, AlwaysInv, PTL

(* However many requests write and notify, and wherever the runner is when *)
(* they do, at most one tick begins before it reads the rows again.        *)
THEOREM OneTickLate == Spec => []WithinOneTick
<1>1. RunnerInv => WithinOneTick
  BY DEF RunnerInv, PermitIsNear, WithinOneTick
<1> QED BY <1>1, AlwaysInv, PTL

(* An instance that differs from its row always has a permit, a notify or  *)
(* a reading ahead.                                                        *)
THEOREM NoRequestForgotten == Spec => []LagIsNotified
<1>1. RunnerInv => LagIsNotified
  BY DEF RunnerInv
<1> QED BY <1>1, AlwaysInv, PTL
=============================================================================
