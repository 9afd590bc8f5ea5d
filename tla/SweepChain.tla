----------------------------- MODULE SweepChain -----------------------------
(***************************************************************************)
(* What the installation's reconcile scheduler promises: one perpetual     *)
(* chain of ticks.  A chain that runs has exactly one live timer, starting *)
(* it again does not fork a second one, and only stopping it takes the     *)
(* timer away.  A sweep may run or fail at any point: it never touches the *)
(* chain.                                                                  *)
(***************************************************************************)
EXTENDS Naturals

VARIABLES
    on,      \* whether the chain has been asked to run
    timers   \* live timers: ticks that would sweep and re-arm if they fired now

vars == <<on, timers>>

\* An object that was never started, or one an older deployment left switched
\* on with no timer behind it.
Init ==
    /\ on \in BOOLEAN
    /\ timers = 0

\* The chain is (re)started; only a chain with no live timer gets one.
Arm ==
    /\ timers = 0
    /\ on' = TRUE
    /\ timers' = 1

\* The chain is stopped, whatever it had in flight.
Stop ==
    /\ on' = FALSE
    /\ timers' = 0

Next == Arm \/ Stop

Spec == Init /\ [][Next]_vars
=============================================================================
