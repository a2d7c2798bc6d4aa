--------------------------- MODULE EvictionProofs ---------------------------
(***************************************************************************)
(* The eviction invariant is inductive, in every autoreset mode.           *)
(***************************************************************************)
EXTENDS EvictionFacts

(* A landed step ends every id once.                                       *)
LEMMA OnStepEviction ==
  ASSUME LaneCounts, EvictionInv, TypeOK', NEW g \in Groups, NEW reported \in EnvReports(g),
         NEW late \in Late(g), NEW fails \in BOOLEAN, OnStep(g, reported, late, fails)
  PROVE  EvictionInv'
<1> DEFINE finished == Finished(g, reported, late)
           stops == Stops(g, total + Cardinality(Scoring(g, finished)))
           ending == IF Defers(stops) THEN {} ELSE finished
           new == StepEnds(g, ending)
<1>1. /\ episode' = StepEpisodes(g, ending)
      /\ QueueEvictions(g, new)
      /\ ended' = ended /\ pc' # "start"
  BY DEF OnStep, Observe, StepEpisodes, StepEnds
<1>2. ending \in SUBSET g
  BY FinishedFacts DEF EvictionInv
<1> HIDE DEF finished, stops, ending
<1>3. NewEnds(g, new) /\ SlotsApart(g, new, episode')
  <2>1. NewEnds(g, new) /\ SlotsApart(g, new, StepEpisodes(g, ending))
    BY <1>2, EndsFresh, Zenon
  <2>2. QED
    BY <1>1, <2>1
<1> HIDE DEF new
<1>4. \/ heldEv' = heldEv \cup ({g} \X new) /\ pendingEv' = pendingEv
      \/ pendingEv' = pendingEv \cup new /\ heldEv' = heldEv
  BY <1>1 DEF QueueEvictions
<1>5. \/ HeldIds' = HeldIds \cup new /\ pendingEv' = pendingEv
      \/ HeldIds' = HeldIds /\ pendingEv' = pendingEv \cup new
  <2>1. CASE heldEv' = heldEv \cup ({g} \X new) /\ pendingEv' = pendingEv
    <3>1. \A x \in new : <<g, x>> \in heldEv' /\ <<g, x>>[2] = x
      BY <2>1
    <3>2. \A h \in heldEv' : h \in heldEv \/ h[2] \in new
      BY <2>1
    <3>3. QED
      BY <2>1, <3>1, <3>2 DEF HeldIds
  <2>2. CASE pendingEv' = pendingEv \cup new /\ heldEv' = heldEv
    BY <2>2 DEF HeldIds
  <2>3. QED
    BY <1>4, <2>1, <2>2
<1>6. Queued' = Queued \cup new
  BY <1>1, <1>5 DEF Queued
<1>7. QueuesApart' /\ HeldOnce'
  <2>1. new \cap (pendingEv \cup HeldIds \cup ended) = {}
    BY <1>3 DEF NewEnds, Queued
  <2>2. QueuesApart'
    BY <1>1, <1>5, <2>1 DEF EvictionInv, QueuesApart
  <2>3. \A h \in heldEv : h[2] \notin new
    BY <2>1 DEF HeldIds
  <2>4. HeldOnce'
    BY <1>4, <2>3 DEF EvictionInv, HeldOnce
  <2>5. QED
    BY <2>2, <2>4
<1>8. minted' >= minted /\ \A l \in Lanes : RollMinted(g, l) /\ StartMinted(l)
  BY MintsFresh
<1>9. /\ minted \in Nat /\ minted' \in Nat
      /\ \A l \in Lanes : /\ episode'[l].id \in Nat /\ pendingStart'[l].id \in Nat
                          /\ pendingStart[l].id \in Nat /\ pendingRoll'[l] \in Nat
                          /\ pendingStart[l].id <= minted /\ pendingRoll[l] <= minted
                          /\ pendingRoll[l] \in Nat
  BY DEF EvictionInv, TypeOK, SlotType, Episode, MintedIds
<1>a. \A l \in Lanes :
        /\ \/ pendingRoll'[l] = 0
           \/ l \notin g /\ pendingRoll'[l] = pendingRoll[l]
           \/ pendingRoll'[l] > minted
        /\ pendingRoll'[l] <= minted'
  BY <1>8, <1>9 DEF RollMinted, NoId
<1>b. \A l \in Lanes :
        /\ \/ pendingStart'[l] = pendingStart[l]
           \/ pendingStart'[l].id = minted + 1 /\ pendingStart'[l].ended = FALSE
        /\ pendingStart'[l].id <= minted'
  BY <1>8, <1>9 DEF StartMinted
<1>c. \A l \in Lanes : episode'[l].id <= minted
  BY <1>3 DEF SlotsApart
<1>d. \A x \in Queued' : x \in 1 .. minted
  <2>1. \A x \in new : x \in 1 .. minted
    BY <1>3 DEF NewEnds
  <2>2. QED
    BY <1>6, <2>1 DEF EvictionInv, MintedIds
<1>10. MintedIds'
  <2>1. \A x \in Queued' : x \in 1 .. minted'
    BY <1>d, <1>8, <1>9
  <2>2. \A l \in Lanes : episode'[l].id <= minted'
    BY <1>c, <1>8, <1>9
  <2>3. QED
    BY <1>1, <1>a, <1>b, <2>1, <2>2 DEF MintedIds
<1>11. DistinctIds'
  <2>1. ASSUME NEW l \in Lanes, NEW k \in Lanes, l # k
        PROVE  pendingStart'[l].id # pendingStart'[k].id \/ pendingStart'[l].id = NoId
    <3>1. CASE pendingStart'[l] = pendingStart[l] /\ pendingStart'[k] = pendingStart[k]
      BY <2>1, <3>1 DEF EvictionInv, DistinctIds
    <3>2. CASE pendingStart'[l] # pendingStart[l]
      <4>1. pendingStart'[l].id = minted + 1 /\ pendingStart'[k] = pendingStart[k]
        BY <1>8, <2>1, <3>2 DEF StartMinted
      <4>2. QED
        BY <1>9, <4>1
    <3>3. CASE pendingStart'[k] # pendingStart[k]
      <4>1. pendingStart'[k].id = minted + 1 /\ pendingStart'[l] = pendingStart[l]
        BY <1>8, <2>1, <3>3 DEF StartMinted
      <4>2. QED
        BY <1>9, <4>1
    <3>4. QED
      BY <3>1, <3>2, <3>3
  <2>2. ASSUME NEW l \in Lanes, NEW k \in Lanes, l # k
        PROVE  pendingRoll'[l] # pendingRoll'[k] \/ pendingRoll'[l] = NoId
    <3>1. CASE pendingRoll'[l] <= minted /\ pendingRoll'[k] <= minted
      <4>1. pendingRoll'[l] \in {0, pendingRoll[l]} /\ pendingRoll'[k] \in {0, pendingRoll[k]}
        BY <1>a, <1>9, <3>1
      <4>2. pendingRoll[l] # pendingRoll[k] \/ pendingRoll[l] = NoId
        BY <2>2 DEF EvictionInv, DistinctIds
      <4>3. QED
        BY <4>1, <4>2 DEF NoId
    <3>2. CASE pendingRoll'[l] > minted \/ pendingRoll'[k] > minted
      <4>1. \A i, j \in Lanes : pendingRoll'[i] > minted /\ i # j => pendingRoll'[j] # pendingRoll'[i]
        BY <1>8, <1>9 DEF RollMinted, NoId
      <4>2. QED
        BY <2>2, <3>2, <4>1
    <3>3. QED
      BY <1>9, <3>1, <3>2
  <2>3. ASSUME NEW l \in Lanes, NEW k \in Lanes
        PROVE  pendingStart'[l].id # pendingRoll'[k] \/ pendingStart'[l].id = NoId
    <3>1. CASE pendingRoll'[k] > minted
      <4>1. pendingStart'[l] = pendingStart[l]
        BY <1>8, <1>9, <3>1 DEF RollMinted, NoId
      <4>2. QED
        BY <1>9, <3>1, <4>1
    <3>2. CASE pendingRoll'[k] <= minted
      <4>1. pendingRoll'[k] \in {0, pendingRoll[k]}
        BY <1>a, <1>9, <3>2
      <4>2. pendingStart[l].id # pendingRoll[k] \/ pendingStart[l].id = NoId
        BY DEF EvictionInv, DistinctIds
      <4>3. CASE pendingStart'[l] = pendingStart[l]
        BY <4>1, <4>2, <4>3 DEF NoId
      <4>4. CASE pendingStart'[l].id = minted + 1
        BY <1>9, <3>2, <4>4
      <4>5. QED
        BY <1>b, <4>3, <4>4
    <3>3. QED
      BY <1>9, <3>1, <3>2
  <2>4. ASSUME NEW l \in Lanes, NEW k \in Lanes
        PROVE  /\ episode'[l].id # pendingStart'[k].id \/ episode'[l].id = NoId
               /\ episode'[l].id # pendingRoll'[k] \/ episode'[l].id = NoId
    <3>1. /\ episode'[l].id # pendingStart[k].id \/ episode'[l].id = NoId
          /\ k \notin g => episode'[l].id # pendingRoll[k] \/ episode'[l].id = NoId
      BY <1>3 DEF SlotsApart
    <3>2. episode'[l].id # pendingStart'[k].id \/ episode'[l].id = NoId
      BY <1>b, <1>c, <1>9, <3>1
    <3>3. episode'[l].id # pendingRoll'[k] \/ episode'[l].id = NoId
      BY <1>a, <1>c, <1>9, <3>1 DEF NoId
    <3>4. QED
      BY <3>2, <3>3
  <2>5. \A l, k \in Lanes : l # k => episode'[l].id # episode'[k].id \/ episode'[l].id = NoId
    BY <1>3 DEF SlotsApart
  <2>6. QED
    BY <2>1, <2>2, <2>3, <2>4, <2>5 DEF DistinctIds
<1>12. EndsKnown'
  <2>1. \A x \in new : \A l \in Lanes : x # pendingStart[l].id /\ (l \notin g => x # pendingRoll[l])
    BY <1>3 DEF NewEnds
  <2>2. ASSUME NEW l \in Lanes
        PROVE  pendingStart'[l].id \notin Queued' /\ ~pendingStart'[l].ended
    <3>1. CASE pendingStart'[l] = pendingStart[l]
      BY <1>6, <2>1, <3>1 DEF EvictionInv, EndsKnown
    <3>2. CASE pendingStart'[l].id = minted + 1 /\ pendingStart'[l].ended = FALSE
      BY <1>d, <1>9, <3>2
    <3>3. QED
      BY <1>b, <3>1, <3>2
  <2>3. ASSUME NEW l \in Lanes
        PROVE  pendingRoll'[l] \notin Queued'
    <3>1. CASE l \notin g /\ pendingRoll'[l] = pendingRoll[l]
      BY <1>6, <2>1, <3>1 DEF EvictionInv, EndsKnown
    <3>2. CASE pendingRoll'[l] = 0 \/ pendingRoll'[l] > minted
      BY <1>d, <1>9, <3>2
    <3>3. QED
      BY <1>a, <3>1, <3>2
  <2>4. \A l \in Lanes : episode'[l].id \in Queued' => episode'[l].ended
    BY <1>3, <1>6 DEF SlotsApart
  <2>5. QED
    BY <2>2, <2>3, <2>4 DEF EndsKnown
<1>13. QED
  BY <1>7, <1>10, <1>11, <1>12 DEF EvictionInv

(* A flush sends what was queued, and a failure queues nothing.            *)
LEMMA FlushEviction ==
  ASSUME EvictionInv, TypeOK', (\E S \in Plans : Turn(S)) \/ Failure \/ Complete
  PROVE  EvictionInv'
<1>1. /\ heldEv' \subseteq heldEv /\ pendingEv' \subseteq pendingEv
      /\ ended \subseteq ended' /\ ended' \subseteq ended \cup (pendingEv \ pendingEv')
      /\ pc' # "start"
      /\ UNCHANGED <<minted, pendingStart, pendingRoll>>
      /\ DOMAIN episode' = Lanes
      /\ \A l \in Lanes : episode'[l].id = episode[l].id /\ episode'[l].ended = episode[l].ended
  <2>1. CASE \E S \in Plans : Turn(S)
    <3> PICK S \in Plans : Turn(S)
      BY <2>1
    <3>1. \A l \in Lanes : /\ [episode[l] EXCEPT !.predicted = TRUE].id = episode[l].id
                           /\ [episode[l] EXCEPT !.predicted = TRUE].ended = episode[l].ended
      BY DEF EvictionInv, TypeOK, SlotType, Episode
    <3>2. episode' = [l \in Lanes |->
            IF l \in UNION S THEN [episode[l] EXCEPT !.predicted = TRUE] ELSE episode[l]]
      BY DEF Turn
    <3>3. /\ DOMAIN episode' = Lanes
          /\ \A l \in Lanes : episode'[l].id = episode[l].id /\ episode'[l].ended = episode[l].ended
      BY <3>1, <3>2
    <3>4. /\ heldEv' = heldEv /\ pendingEv' = pendingEv \ Flushing
          /\ ended' = ended \cup Flushing /\ pc' # "start"
          /\ UNCHANGED <<minted, pendingStart, pendingRoll>>
      BY DEF Turn
    <3>5. Flushing \subseteq pendingEv
      BY DEF Flushing
    <3>6. QED
      BY <3>3, <3>4, <3>5
  <2>2. CASE Failure \/ Complete
    <3>1. UNCHANGED <<episode, minted, pendingStart, pendingRoll>> /\ pc' # "start"
      BY <2>2 DEF Failure, Complete, EnvOpFails, PredictFails, TurnFails, Cancel, Abandon,
                  slotVars, groupVars
    <3>2. /\ heldEv' \subseteq heldEv /\ pendingEv' \subseteq pendingEv
          /\ ended \subseteq ended' /\ ended' \subseteq ended \cup (pendingEv \ pendingEv')
      BY <2>2 DEF Failure, Complete, EnvOpFails, PredictFails, TurnFails, Cancel, Abandon,
                  modelVars, Flushing
    <3>3. QED
      BY <3>1, <3>2 DEF EvictionInv, TypeOK, SlotType
  <2>3. QED
    BY <2>1, <2>2
<1>2. HeldIds' \subseteq HeldIds
  BY <1>1 DEF HeldIds
<1>3. Queued' \subseteq Queued
  BY <1>1, <1>2 DEF Queued
<1>4. QueuesApart' /\ HeldOnce'
  BY <1>1, <1>2 DEF EvictionInv, QueuesApart, HeldOnce
<1>5. MintedIds'
  BY <1>1, <1>3 DEF EvictionInv, MintedIds
<1>6. DistinctIds'
  BY <1>1 DEF EvictionInv, DistinctIds
<1>7. EndsKnown'
  BY <1>1, <1>3 DEF EvictionInv, EndsKnown
<1>8. QED
  BY <1>4, <1>5, <1>6, <1>7 DEF EvictionInv

(* The teardown sweep ends the live episodes no eviction named.            *)
LEMMA TeardownEviction ==
  ASSUME EvictionInv, TypeOK', Teardown
  PROVE  EvictionInv'
<1> DEFINE swept == EndIds(episode, LiveLanes)
<1>1. /\ heldEv' = {} /\ pendingEv' = {}
      /\ ended' = ended \cup pendingEv \cup HeldIds \cup swept
      /\ episode' = EndEpisodes(episode, LiveLanes) /\ pc' = "done"
      /\ UNCHANGED <<minted, pendingStart, pendingRoll>>
  BY DEF Teardown, groupVars
<1>2. LiveLanes \in SUBSET Lanes /\ episode \in Slots
  BY DEF LiveLanes, EvictionInv, TypeOK, SlotType, Slots
<1>3. /\ \A l \in Lanes : /\ EndEpisodes(episode, LiveLanes)[l].id = episode[l].id
                          /\ l \in LiveLanes => EndEpisodes(episode, LiveLanes)[l].ended = TRUE
                          /\ l \notin LiveLanes => EndEpisodes(episode, LiveLanes)[l] = episode[l]
      /\ \A x \in swept :
           x # NoId /\ \E l \in LiveLanes : x = episode[l].id /\ episode[l].ended = FALSE
  <2>1. \A l \in Lanes : episode[l] \in Episode
    BY <1>2 DEF Slots
  <2>2. \A l \in Lanes : /\ EndEpisodes(episode, LiveLanes)[l].id = episode[l].id
                         /\ l \in LiveLanes => EndEpisodes(episode, LiveLanes)[l].ended = TRUE
                         /\ l \notin LiveLanes => EndEpisodes(episode, LiveLanes)[l] = episode[l]
    BY <2>1, EndMarks, Zenon
  <2>3. \A x \in swept :
          x # NoId /\ \E l \in LiveLanes : x = episode[l].id /\ episode[l].ended = FALSE
    BY <1>2, EndFacts, Zenon
  <2>4. QED
    BY <2>2, <2>3
<1> HIDE DEF swept
<1>4. HeldIds' = {} /\ Queued' = Queued \cup swept
  BY <1>1 DEF Queued, HeldIds
<1>5. \A l \in Lanes : episode[l].id \in Nat /\ episode[l].id <= minted
  BY DEF EvictionInv, TypeOK, SlotType, Episode, MintedIds
<1>6. MintedIds'
  <2>1. minted \in Nat
    BY DEF EvictionInv, TypeOK, SlotType
  <2>2. \A x \in swept : x \in 1 .. minted
    BY <1>2, <1>3, <1>5, <2>1 DEF NoId
  <2>3. \A x \in Queued' : x \in 1 .. minted'
    BY <1>1, <1>4, <2>2 DEF EvictionInv, MintedIds
  <2>4. \A l \in Lanes : episode'[l].id <= minted'
    BY <1>1, <1>3, <1>5
  <2>5. QED
    BY <1>1, <2>3, <2>4 DEF EvictionInv, MintedIds
<1>7. DistinctIds'
  <2>1. \A l \in Lanes : episode'[l].id = episode[l].id
    BY <1>1, <1>3
  <2>2. QED
    BY <1>1, <2>1 DEF EvictionInv, DistinctIds
<1>8. EndsKnown'
  <2>1. ASSUME NEW l \in Lanes, episode'[l].id \in Queued'
        PROVE  episode'[l].ended
    <3>1. CASE l \in LiveLanes
      BY <1>1, <1>3, <3>1
    <3>2. CASE l \notin LiveLanes
      <4>1. episode[l].id \notin swept
        BY <1>2, <1>3, <3>2 DEF EvictionInv, DistinctIds
      <4>2. QED
        BY <1>1, <1>3, <1>4, <2>1, <3>2, <4>1 DEF EvictionInv, EndsKnown
    <3>3. QED
      BY <3>1, <3>2
  <2>2. \A l \in Lanes : pendingStart[l].id \notin swept /\ pendingRoll[l] \notin swept
    BY <1>2, <1>3 DEF EvictionInv, DistinctIds
  <2>3. QED
    BY <1>1, <1>4, <2>1, <2>2 DEF EvictionInv, EndsKnown
<1>9. QueuesApart' /\ HeldOnce'
  BY <1>1, <1>4 DEF QueuesApart, HeldOnce
<1>10. QED
  BY <1>6, <1>7, <1>8, <1>9 DEF EvictionInv

(* Every step keeps the invariant.                                         *)
LEMMA EvictionStep ==
  ASSUME LaneCounts, EvictionInv, [Next]_vars
  PROVE  EvictionInv'
<1>1. TypeOK'
  BY TypeStep DEF EvictionInv
<1>2. CASE Start
  BY <1>1, <1>2, StartEviction
<1>3. CASE (\E S \in Plans : Turn(S)) \/ Failure \/ Complete
  BY <1>1, <1>3, FlushEviction
<1>4. CASE Outcome
  BY <1>1, <1>4, OnResetEviction, OnStepEviction, OnPredictEviction DEF Outcome
<1>5. CASE Teardown
  BY <1>1, <1>5, TeardownEviction
<1>6. CASE Done \/ UNCHANGED vars
  <2>1. UNCHANGED <<pc, heldEv, pendingEv, ended, minted, episode, pendingStart, pendingRoll>>
    BY <1>6 DEF Done, vars, groupVars, slotVars, modelVars
  <2>2. Queued' = Queued /\ HeldIds' = HeldIds
    BY <2>1 DEF Queued, HeldIds
  <2>3. QED
    BY <1>1, <2>1, <2>2 DEF EvictionInv, MintedIds, DistinctIds, EndsKnown, HeldOnce, QueuesApart
<1>7. QED
  BY <1>2, <1>3, <1>4, <1>5, <1>6 DEF Next
=============================================================================
