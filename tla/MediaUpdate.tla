----------------------------- MODULE MediaUpdate -----------------------------
(***************************************************************************)
(* What a script that prepares media promises, whatever the media holds.   *)
(*                                                                         *)
(* The media is a list of artefacts in the order of their dependencies:    *)
(* each is derived from the ones before it.  A run makes them anew one by  *)
(* one, from the first, and reports the media ready only when it has made  *)
(* every one of them; a run that stops early reports nothing, and what it  *)
(* had made stays.                                                         *)
(***************************************************************************)
EXTENDS Naturals

CONSTANT N                \* the number of artefacts

VARIABLES active,         \* a run is in progress
          fresh,          \* artefacts 1 .. fresh are whole and of the last run started
          reported        \* that run said the media is ready

vars == <<active, fresh, reported>>

Init == active = FALSE /\ fresh = 0 /\ reported = FALSE

\* A run starts: nothing on the media is of this run yet.
Start ==
    /\ ~active
    /\ active' = TRUE /\ fresh' = 0 /\ reported' = FALSE

\* The next artefact is made from the ones before it.
Produce ==
    /\ active /\ fresh < N
    /\ fresh' = fresh + 1
    /\ UNCHANGED <<active, reported>>

\* Every artefact is made: the run says so and ends.
Report ==
    /\ active /\ fresh = N
    /\ active' = FALSE /\ reported' = TRUE
    /\ UNCHANGED fresh

\* The run ends early and says nothing.
Abandon ==
    /\ active
    /\ active' = FALSE
    /\ UNCHANGED <<fresh, reported>>

Next == Start \/ Produce \/ Report \/ Abandon

Spec == Init /\ [][Next]_vars
=============================================================================
