--------------------------- MODULE SchedulerProofs ---------------------------
(***************************************************************************)
(* The reconcile chain, for every bound on the generation counter and any  *)
(* number of ticks an older deployment left behind.                        *)
(*                                                                         *)
(* OneChain is not inductive by itself: start and the adoption of a legacy *)
(* tick move to the next generation, and only the fact that no tick        *)
(* carries a generation the counter has not reached makes the tick they    *)
(* send the only one of its kind.                                          *)
(***************************************************************************)
EXTENDS Scheduler, TLAPS

\* No tick carries a generation the counter has not reached yet.
NoTickAhead == \A g \in Generations : g > generation => ticks[g] = 0

ChainInv == TypeOK /\ OneChain /\ NoTickAhead

\* Arming a chain that has no live tick, with the current generation or with
\* the next one, leaves exactly one live tick and none ahead of it.
LEMMA ArmKeepsChainInv ==
    ASSUME ChainInv, NEW g \in Generations,
           g = generation \/ g = generation + 1,
           ticks[g] = 0, armed(g), ticks' = WithTick(ticks, g),
           legacy' \in 0..MaxLegacy, busy' \in {"idle", "sweep", "purge"}
    PROVE  ChainInv'
<1> USE BoundsAssumption DEF BoundsAssumption, Generations
<1>1. TypeOK'
  BY DEF ChainInv, TypeOK, armed, WithTick
<1>2. ticks'[g] = 1
  BY DEF ChainInv, TypeOK, WithTick
<1>3. OneChain'
  BY <1>2 DEF OneChain, armed
<1>4. NoTickAhead'
  BY DEF ChainInv, TypeOK, NoTickAhead, armed, WithTick
<1> QED BY <1>1, <1>3, <1>4 DEF ChainInv

\* Stopping the chain moves to a generation that no tick carries.
LEMMA StopKeepsChainInv ==
    ASSUME ChainInv, Pause_transition, UNCHANGED <<ticks, legacy>>,
           busy' \in {"idle", "sweep", "purge"}
    PROVE  ChainInv'
<1> USE BoundsAssumption DEF BoundsAssumption, Generations
<1>1. TypeOK'
  <2>1. started' \in BOOLEAN /\ tick_pending' \in BOOLEAN
    BY DEF Pause_transition
  <2>2. generation' \in Generations
    BY DEF ChainInv, TypeOK, Pause_transition, HasNextGeneration, next_scheduler_generation
  <2> QED BY <2>1, <2>2 DEF ChainInv, TypeOK
<1>2. ticks'[generation'] = 0
  BY DEF ChainInv, TypeOK, NoTickAhead, Pause_transition, HasNextGeneration,
         next_scheduler_generation
<1>3. OneChain'
  BY <1>2 DEF OneChain, Pause_transition
<1>4. NoTickAhead'
  BY DEF ChainInv, TypeOK, NoTickAhead, Pause_transition, next_scheduler_generation
<1> QED BY <1>1, <1>3, <1>4 DEF ChainInv

\* A fresh object, and one an older deployment orphaned, start without a live tick.
LEMMA InitChainInv == Init => ChainInv
<1> SUFFICES ASSUME Init PROVE ChainInv
  OBVIOUS
<1> USE BoundsAssumption DEF BoundsAssumption, Init, Generations
<1>1. TypeOK
  BY DEF TypeOK
<1>2. OneChain
  BY DEF OneChain
<1>3. NoTickAhead
  BY DEF NoTickAhead
<1> QED BY <1>1, <1>2, <1>3 DEF ChainInv

\* Each handler of the object keeps the chain.
LEMMA NextChainInv == ChainInv /\ [Next]_vars => ChainInv'
<1> SUFFICES ASSUME ChainInv, [Next]_vars PROVE ChainInv'
  OBVIOUS
<1> USE BoundsAssumption
<1>1. CASE Start
  <2>1. PICK g \in Generations :
          Start_transition(g) /\ armed(g) /\ ticks' = WithTick(ticks, g)
    BY <1>1 DEF Start
  <2>2. g = generation \/ g = generation + 1
    BY <2>1 DEF Start_transition, next_scheduler_generation
  <2>3. ticks[g] = 0
    <3>1. CASE started /\ generation > 0
      BY <2>1, <3>1 DEF Start_transition, ChainInv, OneChain, TypeOK
    <3>2. CASE ~(started /\ generation > 0)
      BY <2>1, <3>2 DEF Start_transition, ChainInv, NoTickAhead, TypeOK,
         next_scheduler_generation, Generations
    <3> QED BY <3>1, <3>2
  <2> QED BY <1>1, <2>1, <2>2, <2>3, ArmKeepsChainInv DEF Start, ChainInv, TypeOK
<1>2. ASSUME NEW g \in Generations, TickSweeps(g) PROVE ChainInv'
  <2>1. ticks' = ticks
    BY <1>2 DEF TickSweeps, ChainInv, TypeOK, WithTick, WithoutTick
  <2>2. started' = TRUE /\ tick_pending' = TRUE /\ generation' = generation
    BY <1>2 DEF TickSweeps, Tick_live, armed
  <2>3. ticks[generation] = 1
    BY <1>2 DEF TickSweeps, Tick_live, ChainInv, OneChain, TypeOK
  <2>4. TypeOK'
    BY <1>2, <2>1, <2>2 DEF TickSweeps, ChainInv, TypeOK
  <2> QED BY <2>1, <2>2, <2>3, <2>4 DEF ChainInv, OneChain, NoTickAhead
<1>3. ASSUME NEW g \in Generations, TickDropped(g) PROVE ChainInv'
  <2>1. g # generation
    BY <1>3 DEF TickDropped, Tick_live, ChainInv, OneChain, TypeOK
  <2>2. TypeOK'
    BY <1>3 DEF TickDropped, ChainInv, TypeOK, WithoutTick, state
  <2>3. ticks'[generation] = ticks[generation] /\ UNCHANGED state
    BY <1>3, <2>1 DEF TickDropped, ChainInv, TypeOK, WithoutTick
  <2>4. OneChain'
    BY <2>3 DEF ChainInv, OneChain, state
  <2>5. NoTickAhead'
    BY <1>3, <2>3 DEF TickDropped, ChainInv, TypeOK, NoTickAhead, WithoutTick,
       Generations, state
  <2> QED BY <2>2, <2>4, <2>5 DEF ChainInv
<1>4. CASE LegacyTickSweeps
  <2>1. generation + 1 \in Generations /\ ticks[generation + 1] = 0
    BY <1>4 DEF LegacyTickSweeps, HasNextGeneration, ChainInv, NoTickAhead, TypeOK,
       Generations
  <2>2. legacy' \in 0..MaxLegacy
    BY <1>4 DEF LegacyTickSweeps, ChainInv, TypeOK
  <2> QED BY <1>4, <2>1, <2>2, ArmKeepsChainInv DEF LegacyTickSweeps,
             next_scheduler_generation
<1>5. CASE LegacyTickDropped
  BY <1>5 DEF LegacyTickDropped, ChainInv, TypeOK, OneChain, NoTickAhead, state
<1>6. CASE SyncNow \/ WorkEnds
  BY <1>6 DEF SyncNow, WorkEnds, ChainInv, TypeOK, OneChain, NoTickAhead, state
<1>7. CASE Pause \/ Purge
  BY <1>7, StopKeepsChainInv DEF Pause, Purge, ChainInv, TypeOK
<1>8. CASE UNCHANGED vars
  BY <1>8 DEF vars, ChainInv, TypeOK, OneChain, NoTickAhead
<1> QED BY <1>1, <1>2, <1>3, <1>4, <1>5, <1>6, <1>7, <1>8 DEF Next

\* The chain's invariant holds throughout.
LEMMA ChainInvHolds == Spec => []ChainInv
BY InitChainInv, NextChainInv, PTL DEF Spec

\* The scheduler's state always has its type: in particular the generation the
\* handlers write never leaves the counter's range.
THEOREM TypeCorrect == Spec => []TypeOK
<1>1. ChainInv => TypeOK
  BY DEF ChainInv
<1> QED BY <1>1, ChainInvHolds, PTL

\* tick_pending is set exactly while one tick of the current generation is
\* inside Restate: start and tick never fork the chain and never lose it.
THEOREM OneChainHolds == Spec => []OneChain
<1>1. ChainInv => OneChain
  BY DEF ChainInv
<1> QED BY <1>1, ChainInvHolds, PTL

\* A tick that pause or purge outlived never becomes current again.
THEOREM StaleTicksStayDeadHolds == Spec => StaleTicksStayDead
<1>1. ChainInv /\ [Next]_vars =>
        [\A g \in Generations : ticks[g] > 0 /\ g # generation => g # generation']_vars
  <2> SUFFICES ASSUME ChainInv, [Next]_vars, NEW g \in Generations,
                      ticks[g] > 0, g # generation
               PROVE  g # generation'
    OBVIOUS
  <2>1. generation' = generation \/ generation' = generation + 1
    BY DEF Next, vars, Start, Start_transition, TickSweeps, Tick_live, TickDropped,
       LegacyTickSweeps, LegacyTickDropped, SyncNow, Pause, Purge, WorkEnds, armed,
       Pause_transition, next_scheduler_generation, state
  <2>2. generation' >= generation
    BY <2>1 DEF ChainInv, TypeOK, Generations
  <2>3. ~(g > generation)
    BY DEF ChainInv, NoTickAhead
  <2> QED BY <2>2, <2>3 DEF ChainInv, TypeOK, Generations
<1> QED BY <1>1, ChainInvHolds, PTL DEF Spec, StaleTicksStayDead

\* The scheduler implements the abstract chain: every handler either arms a
\* chain that has no live timer, stops it, or leaves it alone.
THEOREM ImplementsChain == Spec => ChainRefinement
<1>1. Init => Chain!Init
  BY BoundsAssumption DEF Init, Chain!Init, Generations
<1>2. ChainInv /\ ChainInv' /\ [Next]_vars => [Chain!Next]_(Chain!vars)
  <2> SUFFICES ASSUME ChainInv, ChainInv', [Next]_vars PROVE [Chain!Next]_(Chain!vars)
    OBVIOUS
  <2> USE DEF Chain!Next, Chain!vars
  <2>1. CASE Start
    <3>1. PICK g \in Generations :
            Start_transition(g) /\ armed(g) /\ ticks' = WithTick(ticks, g)
      BY <2>1 DEF Start
    <3>2. ticks[generation] = 0
      BY <3>1 DEF Start_transition, ChainInv, OneChain, TypeOK, Generations
    <3>3. started' = TRUE /\ ticks'[generation'] = 1
      BY <3>1 DEF armed, ChainInv, OneChain
    <3> QED BY <3>2, <3>3 DEF Chain!Arm
  <2>2. ASSUME NEW g \in Generations, TickSweeps(g) PROVE UNCHANGED Chain!vars
    BY <2>2 DEF TickSweeps, Tick_live, armed, ChainInv, TypeOK, WithTick, WithoutTick
  <2>3. ASSUME NEW g \in Generations, TickDropped(g) PROVE UNCHANGED Chain!vars
    <3>1. g # generation
      BY <2>3 DEF TickDropped, Tick_live, ChainInv, OneChain, TypeOK
    <3> QED BY <2>3, <3>1 DEF TickDropped, ChainInv, TypeOK, WithoutTick, state
  <2>4. CASE LegacyTickSweeps
    <3>1. ticks[generation] = 0
      BY <2>4 DEF LegacyTickSweeps, ChainInv, OneChain, TypeOK, Generations
    <3>2. started' = TRUE /\ ticks'[generation'] = 1
      BY <2>4 DEF LegacyTickSweeps, armed, ChainInv, OneChain
    <3> QED BY <3>1, <3>2 DEF Chain!Arm
  <2>5. CASE LegacyTickDropped \/ SyncNow \/ WorkEnds
    BY <2>5 DEF LegacyTickDropped, SyncNow, WorkEnds, state
  <2>6. CASE Pause \/ Purge
    <3>1. started' = FALSE /\ ticks'[generation'] = 0
      BY <2>6 DEF Pause, Purge, Pause_transition, ChainInv, OneChain, TypeOK, Generations
    <3> QED BY <3>1 DEF Chain!Stop
  <2>7. CASE UNCHANGED vars
    BY <2>7 DEF vars
  <2> QED BY <2>1, <2>2, <2>3, <2>4, <2>5, <2>6, <2>7 DEF Next
<1> QED BY <1>1, <1>2, ChainInvHolds, PTL DEF Spec, Chain!Spec, ChainRefinement
=============================================================================
