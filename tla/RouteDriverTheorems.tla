------------------------- MODULE RouteDriverTheorems -------------------------
(***************************************************************************)
(* The theorems about RouteDriver, for every number of lanes, budget,      *)
(* chunk length, prefetch lead, scheduler and autoreset mode.              *)
(***************************************************************************)
EXTENDS LifecycleProofs, FiniteSetTheorems

(* The lanes are finitely many, and counting them is monotonic.            *)
LEMMA LanesCounted == LaneCounts
<1>1. IsFiniteSet(Lanes)
  BY Validated, FS_Interval DEF Lanes
<1>2. ASSUME NEW S \in SUBSET Lanes, NEW T \in SUBSET S
      PROVE  /\ Cardinality(S) \in Nat /\ Cardinality(T) \in Nat
             /\ Cardinality(T) <= Cardinality(S)
             /\ Cardinality(S) = Cardinality(T) => S = T
  <2>1. IsFiniteSet(S) /\ IsFiniteSet(T)
    BY <1>1, FS_Subset
  <2>2. QED
    BY <2>1, FS_Subset, FS_CardinalityType
<1>3. QED
  BY <1>2 DEF LaneCounts

(* The variables keep their types in every behaviour of the route.         *)
THEOREM TypeCorrect == Spec => []TypeOK
<1>1. TypeOK /\ [Next]_vars => TypeOK'
  BY LanesCounted, TypeStep
<1>2. QED
  BY <1>1, InitType, PTL DEF Spec

(* queue_evictions and the teardown sweep end each id at most once, in     *)
(* every autoreset mode and under every scheduler.                         *)
THEOREM EndsOnce == Spec => []EndedOnce
<1>1. EvictionInv /\ [Next]_vars => EvictionInv'
  BY LanesCounted, EvictionStep
<1>2. EvictionInv => EndedOnce
  <2>1. ASSUME EvictionInv, NEW x \in EndIds(episode, LiveLanes) PROVE x \notin Queued
    <3>1. PICK l \in Lanes : x = episode[l].id /\ ~episode[l].ended
      BY DEF EndIds, LiveLanes
    <3>2. QED
      BY <2>1, <3>1 DEF EvictionInv, EndsKnown
  <2>2. QED
    BY <2>1 DEF EvictionInv, EndedOnce, Queued
<1>3. QED
  BY <1>1, <1>2, InitEviction, PTL DEF Spec

(* With driver-owned resets the route implements EpisodeLifecycle towards  *)
(* the model, whatever the scheduler, the prefetch lead and the outcomes:  *)
(* an end is final, only an end closes an id (queue_evictions, the         *)
(* teardown sweep) and no predict goes out under an ended id.              *)
THEOREM ImplementsLifecycle ==
  ASSUME DriverOwned
  PROVE  Spec => KeepsLifecycle
<1>1. Init => LifecycleInv /\ Lifecycle!Init
  <2> SUFFICES ASSUME Init PROVE LifecycleInv /\ Lifecycle!Init
    OBVIOUS
  <2>1. EvictionInv
    BY InitEviction
  <2>2. NoRolls /\ PlansCurrent /\ NoPredictAfterEnd /\ Lifecycle!Init
    BY DEF Init, NoRolls, PlansCurrent, NoPredictAfterEnd, Lifecycle!Init
  <2>3. QED
    BY <2>1, <2>2 DEF LifecycleInv
<1>2. LifecycleInv /\ [Next]_vars => LifecycleInv'
  BY LanesCounted, LifecycleStep
<1>3. LifecycleInv /\ LifecycleInv' /\ [Next]_vars => [Lifecycle!Exchange]_(Lifecycle!vars)
  <2> SUFFICES ASSUME LifecycleInv', [Next]_vars
               PROVE  Lifecycle!Exchange \/ UNCHANGED <<open, ended>>
    BY DEF Lifecycle!vars
  <2>1. open' \cap ended' = {}
    BY DEF LifecycleInv, NoPredictAfterEnd
  <2>2. ended \subseteq ended' /\ open \ open' \subseteq ended'
    <3>1. CASE Start \/ Outcome \/ Complete
      BY <3>1, OutcomeFrame DEF Start, Complete, modelVars
    <3>2. CASE \E S \in Plans : Turn(S)
      BY <3>2 DEF Turn
    <3>3. CASE Teardown \/ Failure
      BY <3>3 DEF Teardown, Failure, EnvOpFails, PredictFails, TurnFails, Cancel, Abandon, modelVars
    <3>4. CASE Done \/ UNCHANGED vars
      BY <3>4 DEF Done, vars, modelVars
    <3>5. QED
      BY <3>1, <3>2, <3>3, <3>4 DEF Next
  <2>3. QED
    BY <2>1, <2>2 DEF Lifecycle!Exchange
<1>4. QED
  BY <1>1, <1>2, <1>3, PTL DEF Spec, KeepsLifecycle, Lifecycle!Spec
==============================================================================
