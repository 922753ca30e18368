-------------------------- MODULE DurableSettings --------------------------
(***************************************************************************)
(* What the settings store promises: the settings that survive the next    *)
(* loss of power change in one step, from what they were to what is being  *)
(* saved, and to nothing else.                                             *)
(***************************************************************************)
CONSTANTS Settings, Default

VARIABLES
    stored,     \* what the next boot would load
    live        \* the settings in use

DurableInit == stored \in Settings /\ live = Default

Change == live' \in Settings /\ UNCHANGED stored

(* Power may be lost as soon as the save is complete. *)
Save == stored' = live /\ live' \in {live, Default}

(* A boot takes up what is stored, or the defaults when it cannot be read. *)
Load == live' \in {stored, Default} /\ UNCHANGED stored

Durable == DurableInit /\ [][Change \/ Save \/ Load]_<<stored, live>>

=============================================================================
