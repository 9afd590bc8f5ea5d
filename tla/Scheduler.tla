------------------------------ MODULE Scheduler ------------------------------
(***************************************************************************)
(* The InstallationSync virtual object's perpetual reconcile chain         *)
(* (apps/restate-service/src/installation_sync.rs).                        *)
(*                                                                         *)
(* Restate runs one handler of the object at a time; a delayed tick cannot *)
(* be recalled, only outlived, which is what the generation is for.  The   *)
(* sweep and the purge are opaque here (module Reconcile opens them up):   *)
(* they hold the object until they end, and may end in failure.            *)
(***************************************************************************)
EXTENDS Naturals

CONSTANTS
    MaxGeneration,  \* the largest generation the counter holds (u64::MAX in the code)
    MaxLegacy       \* ticks without a generation that an older deployment left in flight

ASSUME BoundsAssumption == MaxGeneration \in Nat /\ MaxLegacy \in Nat

Generations == 0..MaxGeneration

VARIABLES
    started,       \* scheduler_started
    tick_pending,  \* scheduler_tick_pending
    generation,    \* scheduler_generation
    ticks,         \* ticks[g]: ticks of generation g queued or delayed inside Restate
    legacy,        \* generation-less ticks in flight
    busy           \* the work a handler of the object is in the middle of

state == <<started, tick_pending, generation>>
vars == <<started, tick_pending, generation, ticks, legacy, busy>>

\* Mutant: a plain addition, which runs past the counter's last value.
HasNextGeneration_unchecked == TRUE

\* checked_add: the counter never wraps, its last value makes the handler fail.
HasNextGeneration == generation < MaxGeneration

next_scheduler_generation == generation + 1

\* SchedulerState::armed, written by write_scheduler_state.
armed(g) ==
    /\ started' = TRUE
    /\ tick_pending' = TRUE
    /\ generation' = g

\* Mutant: the state is written and the tick forgotten.
WithTick_forgotten(inFlight, g) == inFlight

\* One more tick of generation g inside Restate (send, send_after).
WithTick(inFlight, g) == [inFlight EXCEPT ![g] = @ + 1]

WithoutTick(inFlight, g) == [inFlight EXCEPT ![g] = @ - 1]

-----------------------------------------------------------------------------

\* A fresh object reads as all defaults.  An older deployment may have left
\* the chain switched on with its flag clear and no tick of the current
\* generation (the "orphaned" chain of the tests), with ticks that carry no
\* generation still on their way.
Init ==
    /\ started \in BOOLEAN
    /\ tick_pending = FALSE
    /\ generation \in Generations
    /\ (~started => generation = 0)
    /\ ticks = [g \in Generations |-> 0]
    /\ legacy \in 0..MaxLegacy
    /\ busy = "idle"

\* Mutant: a chain that already has its tick is armed again.
Start_transition_again(g) ==
    IF started /\ generation > 0
      THEN g = generation
      ELSE HasNextGeneration /\ g = next_scheduler_generation

\* start: nothing when a tick is already pending; otherwise arm the chain with
\* the current generation if it has one, and send its first tick.
Start_transition(g) ==
    /\ ~(started /\ tick_pending)
    /\ IF started /\ generation > 0
         THEN g = generation
         ELSE HasNextGeneration /\ g = next_scheduler_generation

Start ==
    /\ busy = "idle"
    /\ \E g \in Generations :
         /\ Start_transition(g)
         /\ armed(g)
         /\ ticks' = WithTick(ticks, g)
    /\ UNCHANGED <<legacy, busy>>

\* scheduler_tick_transition for a tick that carries a generation: only the
\* current generation of a started chain survives.
Tick_live(g) == started /\ g = generation

\* tick(Some(g)), live: re-arm and schedule the successor, then sweep.
TickSweeps(g) ==
    /\ busy = "idle"
    /\ ticks[g] > 0
    /\ Tick_live(g)
    /\ armed(g)
    /\ ticks' = WithTick(WithoutTick(ticks, g), g)
    /\ busy' = "sweep"
    /\ UNCHANGED legacy

\* tick(Some(g)), stale or paused: dropped without touching state.
TickDropped(g) ==
    /\ busy = "idle"
    /\ ticks[g] > 0
    /\ ~Tick_live(g)
    /\ ticks' = WithoutTick(ticks, g)
    /\ UNCHANGED <<state, legacy, busy>>

\* tick(None): adopted under a fresh generation by a chain with nothing pending.
LegacyTickSweeps ==
    /\ busy = "idle"
    /\ legacy > 0
    /\ started
    /\ ~tick_pending
    /\ HasNextGeneration
    /\ armed(next_scheduler_generation)
    /\ ticks' = WithTick(ticks, next_scheduler_generation)
    /\ legacy' = legacy - 1
    /\ busy' = "sweep"

\* tick(None) otherwise: dropped, or failed on the counter's last value.
LegacyTickDropped ==
    /\ busy = "idle"
    /\ legacy > 0
    /\ ~started \/ tick_pending \/ ~HasNextGeneration
    /\ legacy' = legacy - 1
    /\ UNCHANGED <<state, ticks, busy>>

\* sync_now: one sweep, and never a timer.
SyncNow ==
    /\ busy = "idle"
    /\ busy' = "sweep"
    /\ UNCHANGED <<state, ticks, legacy>>

\* Mutant: the chain is switched off and the generation left alone.
Pause_transition_same_generation ==
    /\ started' = FALSE
    /\ tick_pending' = FALSE
    /\ generation' = generation

\* Mutant: the scheduler's state is cleared, the counter with it.
Pause_transition_cleared ==
    /\ started' = FALSE
    /\ tick_pending' = FALSE
    /\ generation' = 0

\* scheduler_pause_transition: bumping the generation is what stops the chain.
Pause_transition ==
    /\ HasNextGeneration
    /\ started' = FALSE
    /\ tick_pending' = FALSE
    /\ generation' = next_scheduler_generation

Pause ==
    /\ busy = "idle"
    /\ Pause_transition
    /\ UNCHANGED <<ticks, legacy, busy>>

\* purge: the pause transition, then the store is purged.
Purge ==
    /\ busy = "idle"
    /\ Pause_transition
    /\ busy' = "purge"
    /\ UNCHANGED <<ticks, legacy>>

\* The sweep or the purge ends, in success, in a terminal failure or cancelled
\* by an operator: what was journaled before it stays.
WorkEnds ==
    /\ busy # "idle"
    /\ busy' = "idle"
    /\ UNCHANGED <<state, ticks, legacy>>

Next ==
    \/ Start
    \/ \E g \in Generations : TickSweeps(g) \/ TickDropped(g)
    \/ LegacyTickSweeps
    \/ LegacyTickDropped
    \/ SyncNow
    \/ Pause
    \/ Purge
    \/ WorkEnds

Spec == Init /\ [][Next]_vars

\* Restate delivers every tick it holds, and the object's inbox is served in
\* order, so a queued tick is not overtaken forever (strong fairness); every
\* step of a sweep gives up after a bounded time, so a sweep ends.
Fairness ==
    /\ \A g \in Generations : SF_vars(TickSweeps(g) \/ TickDropped(g))
    /\ WF_vars(WorkEnds)

FairSpec == Spec /\ Fairness

-----------------------------------------------------------------------------

\* The counter stays within its width (checked_add), and no tick is delivered that
\* was not sent.
TypeOK ==
    /\ started \in BOOLEAN
    /\ tick_pending \in BOOLEAN
    /\ generation \in Generations
    /\ ticks \in [Generations -> Nat]
    /\ legacy \in 0..MaxLegacy
    /\ busy \in {"idle", "sweep", "purge"}

\* tick_pending is a promise kept: it is set exactly while one tick of the
\* current generation, and no second one, is inside Restate, so neither a
\* restart nor a suspend/resume ever forks a second perpetual chain.
OneChain ==
    /\ ticks[generation] <= 1
    /\ (started /\ tick_pending) <=> ticks[generation] = 1
    /\ tick_pending => started

\* The tick a pause outlived is dead for good: whatever start, pause or purge
\* does to the counter, a tick in flight with another generation than the
\* current one never finds its own generation current again.
StaleTicksStayDead ==
    [][\A g \in Generations :
         ticks[g] > 0 /\ g # generation => g # generation']_vars

\* The scheduler implements one perpetual chain; only the current generation's
\* ticks are live.
Chain == INSTANCE SweepChain WITH on <- started, timers <- ticks[generation]
ChainRefinement == Chain!Spec

\* An armed chain always sweeps again, whatever became of the sweeps before it,
\* unless it is paused first.
ChainKeepsSweeping == (started /\ tick_pending) ~> (busy = "sweep" \/ ~started)
=============================================================================
