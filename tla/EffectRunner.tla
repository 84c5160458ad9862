---------------------------- MODULE EffectRunner ----------------------------
(***************************************************************************)
(* The room effects: the one task of effects/runner.rs that ticks them,    *)
(* the handlers that change which effect a room has and which bulbs are    *)
(* out of it (http/api/effects.rs, lights.rs, scenes.rs, server.rs), the   *)
(* Notify between them, and the bulbs behind a lighting agent.  A handler  *)
(* and the runner share rows of SQLite, the light snapshot of the          *)
(* dashboard and the machine's channel, each behind a lock of its own; a   *)
(* step of the model is what one of them does under one lock.              *)
(*                                                                         *)
(* One room.  Of a bulb only its colour is kept, of an effect the colour   *)
(* its frame has: an effect in motion passes the dedup gate by itself, the *)
(* hard case is one whose frame stays.  Colours stand for values further   *)
(* apart than the gate's thresholds.                                       *)
(***************************************************************************)
EXTENDS Naturals, FiniteSets

CONSTANTS
    Bulb,        \* device ids in the room
    Effect,      \* effect ids
    NoEffect,    \* no enabled row, or no instance
    Colour,      \* colours a bulb may have
    NoColour,    \* Option::None for a colour, and "no entry"
    White,       \* the colours of colour-temperature mode; the others are xy
    Warm,        \* what a bulb is restored to when it is powered on
    Manual,      \* the colours people choose
    FrameOf,     \* the colour of each effect's frame
    Once,        \* effects that send their colour when it changes only
    MaxInput,    \* bound: requests from people
    Faults,      \* bound: the kinds of mishap there are
    MaxTrouble   \* bound: how many of them

ASSUME EffectAssumption == NoEffect \notin Effect
ASSUME ColourAssumption ==
    /\ NoColour \notin Colour
    /\ White \subseteq Colour /\ Warm \in White /\ Manual \subseteq Colour
ASSUME FrameAssumption == FrameOf \in [Effect -> Colour] /\ Once \subseteq Effect
ASSUME BoundAssumption == MaxInput \in Nat /\ MaxTrouble \in Nat

VARIABLES
    row,       \* the enabled row of room_effects: its effect and overrides
    permit,    \* solar_sweep_notify holds a permit
    handlers,  \* what requests and the lighting connection have yet to do
    at,        \* where the runner is in its loop
    inst,      \* the room's ActiveEffectInstance
    les,       \* LES: the colour last sent to each bulb by this instance
    todo,      \* the commands of the tick that are still to be sent
    snap,      \* light_snapshot of the dashboard
    saved,     \* light_states in SQLite
    wire,      \* commands on their way to each bulb
    light,     \* the colour each bulb has
    power,     \* the bulbs that have mains power
    told,      \* each bulb's latest state, published and not yet handled
    gone,      \* bulbs whose offline report is on its way
    inputs, trouble,
    unheard,   \* history: bulbs whose last command or report was lost
    overdue    \* history: ticks begun since a permit that still waits

dash   == <<snap, saved>>
bulbs  == <<wire, light, power, told, gone>>
bounds == <<inputs, trouble>>
runner == <<at, inst, les, todo>>
vars   == <<row, permit, handlers, runner, dash, bulbs, bounds, unheard, overdue>>

Reading == [ct : White \cup {NoColour}, xy : (Colour \ White) \cup {NoColour},
            online : BOOLEAN]
NoReading == [ct |-> NoColour, xy |-> NoColour, online |-> FALSE]

(* parse_state_report: a bulb reports the mode it is in.                   *)
Reads(c) == [ct |-> IF c \in White THEN c ELSE NoColour,
             xy |-> IF c \in White THEN NoColour ELSE c, online |-> TRUE]

Idle     == [effect |-> NoEffect, out |-> {}]
NoInst   == [effect |-> NoEffect, out |-> {}, fresh |-> FALSE, due |-> FALSE]
Started  == [effect |-> row.effect, out |-> row.out, fresh |-> TRUE, due |-> TRUE]

(* A handler between two locks: the request it serves (0: the lighting     *)
(* connection), what it does next, and the bulbs and colour it is about.   *)
Handler == [id : 0..MaxInput, step : {"exclude", "pause", "notify", "recall"},
            on : SUBSET Bulb, colour : Colour \cup {NoColour}]
At == {"rehydrate", "top", "dispatch", "poll", "wait"}

(* The colours the instance may have sent.                                 *)
Sendable == {NoColour} \cup {FrameOf[e] : e \in {inst.effect} \cap Effect}

TypeOK ==
    /\ row \in [effect : Effect \cup {NoEffect}, out : SUBSET Bulb]
    /\ permit \in BOOLEAN
    /\ handlers \in SUBSET Handler
    /\ at \in At
    /\ inst \in [effect : Effect \cup {NoEffect}, out : SUBSET Bulb,
                 fresh : BOOLEAN, due : BOOLEAN]
    /\ les \in [Bulb -> Sendable]
    /\ todo \in [Bulb -> Sendable]
    /\ snap \in [Bulb -> Reading]
    /\ saved \in [Bulb -> Reading]
    /\ wire \in [Bulb -> SUBSET Colour]
    /\ light \in [Bulb -> Colour]
    /\ power \in SUBSET Bulb
    /\ told \in [Bulb -> Colour \cup {NoColour}]
    /\ gone \in SUBSET Bulb
    /\ inputs \in 0..MaxInput
    /\ trouble \in 0..MaxTrouble
    /\ unheard \in SUBSET Bulb
    /\ overdue \in Nat

Init ==
    /\ row \in {Idle} \cup [effect : Effect, out : {{}}]
    /\ permit = FALSE
    /\ handlers = {}
    /\ at = "rehydrate"
    /\ inst = NoInst
    /\ les = [b \in Bulb |-> NoColour]
    /\ todo = [b \in Bulb |-> NoColour]
    /\ saved = [b \in Bulb |-> Reads(Warm)]
    /\ snap = saved
    /\ wire = [b \in Bulb |-> {}]
    /\ light = [b \in Bulb |-> Warm]
    /\ power = Bulb
    /\ told = [b \in Bulb |-> NoColour]
    /\ gone = {}
    /\ inputs = 0
    /\ trouble = 0
    /\ unheard = {}
    /\ overdue = 0

Trouble(kind) ==
    kind \in Faults /\ trouble < MaxTrouble /\ trouble' = trouble + 1

-----------------------------------------------------------------------------
(* The runner.                                                             *)

RehydrateKeepingLes ==
    \* mutant of Rehydrate: a swapped effect finds the LES of the one before
    /\ at = "rehydrate"
    /\ IF row.effect = inst.effect
         THEN /\ inst' = [inst EXCEPT !.out = row.out]
              /\ les' = les
         ELSE /\ inst' = IF row.effect = NoEffect THEN NoInst ELSE Started
              /\ les' = les
    /\ at' = "top"
    /\ overdue' = 0
    /\ UNCHANGED <<row, permit, handlers, todo, dash, bulbs, bounds, unheard>>

(* rehydrate_from_db: an instance whose row is still there keeps its state *)
(* and takes over the overrides; a swap starts a new instance, due at      *)
(* once; a swap and a drop forget what was sent.  Time may pass until the  *)
(* next tick is due while the runner is here.                              *)
Rehydrate ==
    /\ at = "rehydrate"
    /\ IF row.effect = inst.effect
         THEN /\ \E late \in {FALSE, inst.effect # NoEffect} :
                    inst' = [inst EXCEPT !.out = row.out, !.due = @ \/ late]
              /\ les' = les
         ELSE /\ inst' = IF row.effect = NoEffect THEN NoInst ELSE Started
              /\ les' = [b \in Bulb |-> NoColour]
    /\ at' = "top"
    /\ overdue' = 0
    /\ UNCHANGED <<row, permit, handlers, todo, dash, bulbs, bounds, unheard>>

(* tick_due with nothing due.                                              *)
NothingDue ==
    /\ at = "top"
    /\ ~inst.due
    /\ at' = "poll"
    /\ UNCHANGED <<row, permit, handlers, inst, les, todo, dash, bulbs, bounds,
                   unheard, overdue>>

StaleXyOnly(b) ==
    \* mutant of Stale: only bulbs that left an xy effect are noticed
    /\ les[b] # NoColour
    /\ les[b] \notin White
    /\ snap[b].ct # NoColour /\ snap[b].xy = NoColour

(* dispatch()'s check of LES against what the bulb reported.               *)
Stale(b) ==
    /\ les[b] # NoColour
    /\ IF les[b] \in White
         THEN \/ snap[b].xy # NoColour
              \/ snap[b].ct \notin {NoColour, les[b]}
         ELSE snap[b].ct # NoColour /\ snap[b].xy = NoColour

(* active_bulbs, and whether this frame has a colour command.              *)
Active == {b \in Bulb : snap[b].online /\ b \notin inst.out}
Emits  == inst.effect \notin Once \/ inst.fresh

(* should_dispatch: LES differs, or knows nothing.                         *)
ShouldDispatch(sent, frame) == sent # frame

(* The tick goes on while there are commands to send.                      *)
Sending(commands) ==
    at' = IF commands = [b \in Bulb |-> NoColour] THEN "poll" ELSE "dispatch"

(* tick_one up to its dispatch: the snapshot is read, the effect taken and *)
(* put back, stale entries are dropped, the dedup gate lets through what   *)
(* differs from LES.                                                       *)
Tick ==
    LET kept  == [b \in Bulb |-> IF Stale(b) THEN NoColour ELSE les[b]]
        frame == FrameOf[inst.effect] IN
    /\ at = "top"
    /\ inst.effect # NoEffect /\ inst.due
    /\ les' = kept
    /\ todo' = [b \in Bulb |-> IF b \in Active /\ Emits /\ ShouldDispatch(kept[b], frame)
                                 THEN frame ELSE NoColour]
    /\ inst' = [inst EXCEPT !.fresh = FALSE, !.due = FALSE]
    /\ overdue' = IF permit THEN overdue + 1 ELSE overdue
    /\ Sending(todo')
    /\ UNCHANGED <<row, permit, handlers, dash, bulbs, bounds, unheard>>

(* One command of the tick: send_to_node, then LES.                        *)
Dispatch(b) ==
    /\ at = "dispatch"
    /\ todo[b] # NoColour
    /\ wire' = [wire EXCEPT ![b] = @ \cup {todo[b]}]
    /\ les' = [les EXCEPT ![b] = todo[b]]
    /\ todo' = [todo EXCEPT ![b] = NoColour]
    /\ Sending(todo')
    /\ UNCHANGED <<row, permit, handlers, inst, dash, light, power, told, gone,
                   bounds, unheard, overdue>>

(* The channel is full or the node away: LES stays as it was.              *)
DispatchFails(b) ==
    /\ at = "dispatch"
    /\ todo[b] # NoColour
    /\ Trouble("send")
    /\ todo' = [todo EXCEPT ![b] = NoColour]
    /\ Sending(todo')
    /\ UNCHANGED <<row, permit, handlers, inst, les, dash, bulbs, inputs,
                   unheard, overdue>>

(* select!: notified() takes a permit, be it stored before or given while  *)
(* the runner waits.                                                       *)
Notified ==
    /\ at \in {"poll", "wait"}
    /\ permit
    /\ permit' = FALSE
    /\ at' = "rehydrate"
    /\ UNCHANGED <<row, handlers, inst, les, todo, dash, bulbs, bounds, unheard,
                   overdue>>

SleepAnyway ==
    \* mutant of Sleep: without max(50) the deadline may have passed already
    /\ at = "poll"
    /\ at' = "wait"
    /\ UNCHANGED <<row, permit, handlers, inst, les, todo, dash, bulbs, bounds,
                   unheard, overdue>>

(* The deadline is at least 50 ms away: with no permit the runner waits.   *)
Sleep ==
    /\ at = "poll"
    /\ ~permit
    /\ at' = "wait"
    /\ UNCHANGED <<row, permit, handlers, inst, les, todo, dash, bulbs, bounds,
                   unheard, overdue>>

(* sleep_until(deadline), which may win against a permit given meanwhile.  *)
Deadline ==
    /\ at = "wait"
    /\ at' = "top"
    /\ inst' = [inst EXCEPT !.due = inst.effect # NoEffect]
    /\ UNCHANGED <<row, permit, handlers, les, todo, dash, bulbs, bounds,
                   unheard, overdue>>

-----------------------------------------------------------------------------
(* Requests.  Each writes, and notifies in a later step.                   *)

Then(step, on, c) ==
    /\ inputs < MaxInput
    /\ inputs' = inputs + 1
    /\ handlers' = handlers \cup
           {[id |-> inputs + 1, step |-> step, on |-> on, colour |-> c]}
    /\ UNCHANGED <<permit, runner, trouble, unheard, overdue>>

(* set_room_effect / persist_active_effect: overrides start empty.         *)
SelectEffect(e) ==
    /\ row' = [effect |-> e, out |-> {}]
    /\ Then("notify", {}, NoColour)
    /\ UNCHANGED <<dash, bulbs>>

(* clear_active_effect.                                                    *)
ClearEffect ==
    /\ row' = Idle
    /\ Then("notify", {}, NoColour)
    /\ UNCHANGED <<dash, bulbs>>

(* patch_effect_override on a room with an effect (404 without).           *)
PatchOverride(b, excluded) ==
    /\ row.effect # NoEffect
    /\ row' = [row EXCEPT !.out = IF excluded THEN @ \cup {b} ELSE @ \ {b}]
    /\ Then("notify", {}, NoColour)
    /\ UNCHANGED <<dash, bulbs>>

(* apply_command_to_snapshot: it sets one of the two and keeps the other.  *)
Intended(r, c) == IF c \in White THEN [r EXCEPT !.ct = c] ELSE [r EXCEPT !.xy = c]
Send(b, c) == wire' = [wire EXCEPT ![b] = @ \cup {c}]

(* light_command and the light_command tool on one device that is online:  *)
(* send, update the snapshot; the exclusion follows.                       *)
LightCommand(b, c) ==
    /\ snap[b].online
    /\ Send(b, c)
    /\ snap' = [snap EXCEPT ![b] = Intended(@, c)]
    /\ Then("exclude", {b}, NoColour)
    /\ UNCHANGED <<row, saved, light, power, told, gone>>

(* room_command and switch bindings: no bulb is excluded.                  *)
RoomCommand(b, c) ==
    /\ inputs < MaxInput
    /\ inputs' = inputs + 1
    /\ Send(b, c)
    /\ snap' = [snap EXCEPT ![b] = Intended(@, c)]
    /\ UNCHANGED <<row, permit, handlers, runner, saved, light, power, told,
                   gone, trouble, unheard, overdue>>

(* recall_scene_core with a whole scene: the effect it was saved with, or  *)
(* none, with the scene's own devices out of it; then notify and send.     *)
RecallScene(e, on, c) ==
    /\ row' = IF e = NoEffect THEN Idle ELSE [effect |-> e, out |-> on]
    /\ Then("notify", on, c)
    /\ UNCHANGED <<dash, bulbs>>

(* exclude_device_from_its_active_effect: a room without effect needs      *)
(* nothing, not even a notify.                                             *)
Exclude(h) ==
    /\ h \in handlers
    /\ h.step = "exclude"
    /\ IF row.effect = NoEffect
         THEN row' = row /\ handlers' = handlers \ {h}
         ELSE /\ row' = [row EXCEPT !.out = @ \cup h.on]
              /\ handlers' = (handlers \ {h}) \cup
                     {[h EXCEPT !.step = "notify", !.on = {}]}
    /\ UNCHANGED <<permit, runner, dash, bulbs, bounds, unheard, overdue>>

(* handle_light_state after an offline report: the room's effect is        *)
(* disabled, if it has one.                                                *)
Pause(h) ==
    /\ h \in handlers
    /\ h.step = "pause"
    /\ row' = Idle
    /\ handlers' = (handlers \ {h}) \cup
           {g \in {[h EXCEPT !.step = "notify"]} : row.effect # NoEffect}
    /\ UNCHANGED <<permit, runner, dash, bulbs, bounds, unheard, overdue>>

NotifyLost(h) ==
    \* mutant of Notify: notify_waiters, which wakes only who waits already
    /\ h \in handlers
    /\ h.step = "notify"
    /\ permit' = (permit \/ at = "wait")
    /\ handlers' = (handlers \ {h}) \cup
           {g \in {[h EXCEPT !.step = "recall"]} : h.on # {}}
    /\ UNCHANGED <<row, runner, dash, bulbs, bounds, unheard, overdue>>

(* notify_one stores a permit when the runner does not wait.               *)
Notify(h) ==
    /\ h \in handlers
    /\ h.step = "notify"
    /\ permit' = TRUE
    /\ handlers' = (handlers \ {h}) \cup
           {g \in {[h EXCEPT !.step = "recall"]} : h.on # {}}
    /\ UNCHANGED <<row, runner, dash, bulbs, bounds, unheard, overdue>>

(* The scene's command to one of its devices; the snapshot takes the       *)
(* scene's state whole, online included.                                   *)
Recall(h, b) ==
    /\ h \in handlers
    /\ h.step = "recall" /\ b \in h.on
    /\ Send(b, h.colour)
    /\ snap' = [snap EXCEPT ![b] = Reads(h.colour)]
    /\ handlers' = (handlers \ {h}) \cup
           {g \in {[h EXCEPT !.on = @ \ {b}]} : h.on # {b}}
    /\ UNCHANGED <<row, permit, runner, saved, light, power, told, gone, bounds,
                   unheard, overdue>>

-----------------------------------------------------------------------------
(* The bulbs and the lighting agent.                                       *)

(* The bulb acts on a command and publishes its state; a later state takes *)
(* the place of one that still waits for the agent's debounce.             *)
BulbTakes(b, c) ==
    /\ c \in wire[b]
    /\ wire' = [wire EXCEPT ![b] = @ \ {c}]
    /\ IF b \in power
         THEN /\ light' = [light EXCEPT ![b] = c]
              /\ told' = [told EXCEPT ![b] = c]
         ELSE UNCHANGED <<light, told>>
    /\ UNCHANGED <<row, permit, handlers, runner, dash, power, gone, bounds,
                   unheard, overdue>>

(* The lighting connection handles one message after the other.            *)
ConnectionFree == \A h \in handlers : h.id # 0

(* handle_light_state: save_light_state, push_lighting_update.             *)
Report(b) ==
    /\ told[b] # NoColour
    /\ ConnectionFree
    /\ snap' = [snap EXCEPT ![b] = Reads(told[b])]
    /\ saved' = [saved EXCEPT ![b] = Reads(told[b])]
    /\ told' = [told EXCEPT ![b] = NoColour]
    /\ unheard' = unheard \ {b}
    /\ UNCHANGED <<row, permit, handlers, runner, wire, light, power, gone,
                   bounds, overdue>>

(* The same with an offline report: the snapshot keeps the colours, the    *)
(* saved state does not.                                                   *)
ReportOffline(b) ==
    /\ b \in gone
    /\ ConnectionFree
    /\ gone' = gone \ {b}
    /\ snap' = [snap EXCEPT ![b].online = FALSE]
    /\ saved' = [saved EXCEPT ![b] = NoReading]
    /\ handlers' = handlers \cup
           {[id |-> 0, step |-> "pause", on |-> {}, colour |-> NoColour]}
    /\ UNCHANGED <<row, permit, runner, wire, light, power, told, bounds,
                   unheard, overdue>>

PowerOff(b) ==
    /\ b \in power
    /\ Trouble("power")
    /\ power' = power \ {b}
    /\ gone' = gone \cup {b}
    /\ UNCHANGED <<row, permit, handlers, runner, dash, wire, light, told,
                   inputs, unheard, overdue>>

(* Availability "online": the agent restores warm white by itself.  It     *)
(* comes when a bulb is powered on again and, retained by the broker, when *)
(* the agent subscribes anew.                                              *)
Restore(b) ==
    /\ b \notin gone
    /\ IF b \in power THEN Trouble("restore") ELSE UNCHANGED trouble
    /\ power' = power \cup {b}
    /\ light' = [light EXCEPT ![b] = Warm]
    /\ told' = [told EXCEPT ![b] = Warm]
    /\ UNCHANGED <<row, permit, handlers, runner, dash, wire, gone, inputs,
                   unheard, overdue>>

(* The agent's connection is lost with what was on it.                     *)
LinkLost ==
    /\ Trouble("link")
    /\ unheard' = unheard \cup
           {b \in Bulb : wire[b] # {} \/ told[b] # NoColour \/ b \in gone}
    /\ wire' = [b \in Bulb |-> {}]
    /\ told' = [b \in Bulb |-> NoColour]
    /\ gone' = {}
    /\ UNCHANGED <<row, permit, handlers, runner, dash, light, power, inputs,
                   overdue>>

(* The coordinator restarts: rows and saved states are what it starts from *)
(* (warm_start_lighting, rehydrate_from_db).                               *)
Restart ==
    /\ Trouble("restart")
    /\ permit' = FALSE
    /\ handlers' = {}
    /\ at' = "rehydrate"
    /\ inst' = NoInst
    /\ les' = [b \in Bulb |-> NoColour]
    /\ todo' = [b \in Bulb |-> NoColour]
    /\ snap' = saved
    /\ unheard' = unheard \cup
           {b \in Bulb : wire[b] # {} \/ told[b] # NoColour \/ b \in gone}
    /\ wire' = [b \in Bulb |-> {}]
    /\ told' = [b \in Bulb |-> NoColour]
    /\ gone' = {}
    /\ overdue' = 0
    /\ UNCHANGED <<row, saved, light, power, inputs>>

-----------------------------------------------------------------------------
Loop == Rehydrate \/ NothingDue \/ Tick \/ (\E b \in Bulb : Dispatch(b))
            \/ Notified \/ Sleep \/ Deadline
Continue(h) == Exclude(h) \/ Pause(h) \/ Notify(h) \/ \E b \in Bulb : Recall(h, b)
Input ==
    \/ \E e \in Effect : SelectEffect(e)
    \/ ClearEffect
    \/ \E b \in Bulb, excluded \in BOOLEAN : PatchOverride(b, excluded)
    \/ \E b \in Bulb, c \in Manual : LightCommand(b, c) \/ RoomCommand(b, c)
    \/ \E e \in Effect \cup {NoEffect}, b \in Bulb, c \in Manual :
          RecallScene(e, {b}, c)
Mishap ==
    \/ \E b \in Bulb : DispatchFails(b) \/ PowerOff(b) \/ Restore(b)
    \/ LinkLost \/ Restart

Next ==
    \/ Loop
    \/ \E h \in handlers : Continue(h)
    \/ \E b \in Bulb : Report(b) \/ ReportOffline(b)
    \/ \E b \in Bulb, c \in Colour : BulbTakes(b, c)
    \/ Input
    \/ Mishap

Spec == Init /\ [][Next]_vars

Fairness ==
    /\ WF_vars(Loop)
    /\ \A id \in 0..MaxInput :
          WF_vars(\E h \in handlers : h.id = id /\ Continue(h))
    /\ \A b \in Bulb : WF_vars(Report(b)) /\ WF_vars(ReportOffline(b))
    /\ \A b \in Bulb, c \in Colour : WF_vars(BulbTakes(b, c))
FairSpec == Spec /\ Fairness

-----------------------------------------------------------------------------
(* What people ask for is reflected within one tick (runner.rs:13-14):     *)
(* after the notify of a request at most one tick begins before the runner *)
(* has read the rows again, whatever the timer does.                       *)
WithinOneTick == overdue <= 1

(* Where the runner's instance is not what the rows say, overrides         *)
(* included, something is still to make it read them: a permit, a handler  *)
(* before its notify, or the reading itself.  No request is lost between   *)
(* its write, its notify and a runner that is anywhere in its loop.        *)
Follows == inst.effect = row.effect /\ inst.out = row.out
LagIsNotified ==
    Follows \/ permit \/ at = "rehydrate" \/ \E h \in handlers : h.step = "notify"

(* A bulb that stays in a room's effect gets back the effect's colour      *)
(* whatever happened to it before: a power cut with its warm-white         *)
(* restore, commands that the effect overrides, a failed send.  Of an xy   *)
(* effect: it leaves colour-temperature mode.  (lighting/src/lib.rs:161,   *)
(* runner.rs:513-514.)  Excused while the last command to the bulb or its  *)
(* last report was lost with a connection.                                 *)
Included(b) == row.effect # NoEffect /\ b \notin row.out /\ b \in power \ unheard
Shown(b) == \A e \in {row.effect} \cap Effect :
                IF FrameOf[e] \in White THEN light[b] = FrameOf[e]
                                       ELSE light[b] \notin White
ColourIsReclaimed ==
    \A b \in Bulb : <>[]Included(b) => <>[]Shown(b)
=============================================================================
