--------------------------- MODULE MCEffectRunner ---------------------------
(* A room with effects in both colour modes, and one whose colour is sent  *)
(* once.                                                                   *)
EXTENDS EffectRunner, TLC

CONSTANTS
    solar, aurora, breathing,  \* effects
    day, sky, ember,           \* their frames
    warm, red,                 \* warm white, and a colour somebody likes
    MaxEvents                  \* bound: requests and mishaps together

ModeFrames == (solar :> day) @@ (aurora :> sky)
OnceFrame  == breathing :> ember

MCNext == Next /\ inputs' + trouble' <= MaxEvents
MCSpec == Init /\ [][MCNext]_vars /\ Fairness
=============================================================================
