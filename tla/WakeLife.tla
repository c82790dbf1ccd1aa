------------------------------ MODULE WakeLife ------------------------------
(***************************************************************************)
(* The life of a wake as a user of the broker sees it, without clocks,     *)
(* packets or polls: what Broker implements (ImplementsWakeLife there).    *)
(***************************************************************************)
VARIABLES
    phase,      \* asleep, waking, awake, or given_up: asked for and not seen
    asked,      \* somebody asked since the broker was started
    retried     \* the wake was retried since it was last asked for

lifeVars == <<phase, asked, retried>>

LifeInit == phase = "asleep" /\ asked = FALSE /\ retried = FALSE

\* Somebody asks: a wake begins, or begins over; a PC that is awake stays so.
Ask ==
    /\ asked' = TRUE
    /\ phase' = IF phase = "awake" THEN phase ELSE "waking"
    /\ retried' = FALSE

Retry == phase = "waking" /\ retried' = TRUE /\ UNCHANGED <<phase, asked>>

\* The only way a wake ends badly, and never without a second try.
GiveUp ==
    /\ phase = "waking" /\ retried
    /\ phase' = "given_up" /\ retried' = FALSE /\ UNCHANGED asked

\* The PC is seen up, whatever switched it on, or no longer.
Found == phase' = "awake" /\ retried' = FALSE /\ UNCHANGED asked
Lost  == phase = "awake" /\ phase' = "asleep" /\ retried' = FALSE /\ UNCHANGED asked

\* The broker dies and is started again.
Forget == phase' = "asleep" /\ asked' = FALSE /\ retried' = FALSE

LifeNext == Ask \/ Retry \/ GiveUp \/ Found \/ Lost \/ Forget

LifeSpec == LifeInit /\ [][LifeNext]_lifeVars
=============================================================================
