-------------------------- MODULE OutcomeTypes --------------------------
(***************************************************************************)
(* The outcomes of the environment calls keep the types of RouteDriver's   *)
(* variables.                                                              *)
(***************************************************************************)
EXTENDS RouteDriver, TLAPS

(* What the steps need to know of counting lanes. RouteDriverTheorems      *)
(* proves it; as a hypothesis it keeps the library's theorems on finite    *)
(* sets out of the context of the lemmas below.                            *)
LaneCounts ==
  \A S \in SUBSET Lanes : /\ Cardinality(S) \in Nat
                          /\ \A T \in SUBSET S : T # S => Cardinality(T) < Cardinality(S)

(* A group is a nonempty set of lanes.                                     *)
LEMMA GroupFacts ==
  ASSUME NEW g \in Groups
  PROVE  g \subseteq Lanes /\ g # {}
<1>1. CASE LaneGroup
  BY <1>1 DEF Groups
<1>2. CASE ~LaneGroup
  <2>1. 1 \in Lanes
    BY Validated DEF Lanes
  <2>2. QED
    BY <1>2, <2>1 DEF Groups
<1>3. QED
  BY <1>1, <1>2

(* Position counts lanes of a set of lanes.                                *)
LEMMA PositionIsNat ==
  ASSUME LaneCounts, NEW S \in SUBSET Lanes, NEW l
  PROVE  Position(S, l) \in Nat
<1>1. {k \in S : k < l} \in SUBSET Lanes
  OBVIOUS
<1>2. QED
  BY <1>1 DEF LaneCounts, Position

(* A slot without an episode is well typed.                                *)
LEMMA NoEpisodeType == NoEpisode \in Episode
BY Validated DEF NoEpisode, NewEpisode, NoId, Episode

(* Staged yields a well-typed episode.                                     *)
LEMMA StagedType ==
  ASSUME NEW mint \in Nat, NEW slot \in Nat, NEW cursor \in Nat
  PROVE  Staged(mint, slot, cursor) \in Episode
BY Validated, SMT DEF Staged, Episode, NewEpisode

(* Observing ids keeps the control and data types, given those of the      *)
(* variables that Observe leaves to its caller.                            *)
PredictStates == {"none", "wanted", "inflight", "stale", "ready"}

CallerTypes(g, pred) ==
  /\ steps' \in [Groups -> Nat]
  /\ pendingDone' \in [Groups -> SUBSET Nat]
  /\ DOMAIN chunk' = Groups /\ DOMAIN replay' = Groups /\ DOMAIN acting' = Groups
  /\ \A h \in Groups : /\ chunk'[h] \in Frames(h) \cup {NoFrames}
                       /\ replay'[h] \in Frames(h) \cup {NoFrames}
                       /\ acting'[h] \in LaneIds(h) \cup {NoIds}
                       /\ h # g \/ pred = "ready" => chunk'[h] = chunk[h]
  /\ predicts' = predicts

MaybeFrames(g) == Frames(g) \cup {NoFrames}

LEMMA ObserveType ==
  ASSUME TypeOK, NEW g \in Groups, NEW ids \in LaneIds(g), NEW stp \in Nat,
         NEW rep \in MaybeFrames(g), NEW pred \in PredictStates, NEW fails \in BOOLEAN,
         pred \in {predict[g], "none", "stale"},
         Observe(g, ids, stp, rep, pred, fails), CallerTypes(g, pred)
  PROVE  ControlType' /\ DataType'
<1> USE DEF CallerTypes, PredictStates, MaybeFrames
<1> DEFINE seen == [ids |-> ids, step |-> IF History THEN stp ELSE 0]
           replans == rep.left = 0 /\ pred = "none"
           overflow == History /\ ~replans /\ Len(history[g]) >= HistoryCap
           sent == [ids |-> ids, step |-> seen.step, rows |-> history[g]]
<1>1. seen \in Observation(g) /\ sent \in Message(g) /\ sent # NoRequest
  <2>1. seen.step \in Nat /\ seen \in Observation(g)
    BY DEF Observation
  <2>2. sent.step = seen.step /\ sent \in Message(g)
    BY <2>1 DEF TypeOK, DataType, Message
  <2>3. NoRequest.step = -1
    BY DEF NoRequest
  <2>4. QED
    BY <2>1, <2>2, <2>3
<1>2. Append(history[g], seen) \in Seq(Observation(g))
  BY <1>1 DEF TypeOK, DataType
<1>3. CASE fails \/ overflow
  <2>1. /\ pc' = "drain" /\ result' = "err"
        /\ phase' = [phase EXCEPT ![g] = "Ready"]
        /\ predict' = [predict EXCEPT ![g] = pred]
        /\ request' = [request EXCEPT ![g] = IF pred = "wanted" THEN @ ELSE NoRequest]
        /\ obs' = obs /\ history' = history
    BY <1>3 DEF Observe
  <2>2. ControlType'
    BY <2>1 DEF TypeOK, ControlType
  <2>3. DataType'
    BY <2>1 DEF TypeOK, ControlType, DataType
  <2>4. QED
    BY <2>2, <2>3
<1>4. CASE ~(fails \/ overflow)
  <2>1. /\ pc' = "turn" /\ result' = result
        /\ phase' = [phase EXCEPT ![g] = "Ready"]
        /\ obs' = [obs EXCEPT ![g] = seen]
        /\ history' = [history EXCEPT ![g] =
             IF ~History \/ replans THEN <<>> ELSE Append(@, seen)]
        /\ predict' = [predict EXCEPT ![g] = IF replans THEN "wanted" ELSE pred]
        /\ request' = [request EXCEPT ![g] =
             IF replans THEN sent ELSE IF pred = "wanted" THEN @ ELSE NoRequest]
    BY <1>4 DEF Observe
  <2> HIDE DEF seen, replans, overflow, sent
  <2>2. ControlType'
    BY <2>1 DEF TypeOK, ControlType
  <2>3. DataType'
    BY <1>1, <1>2, <2>1 DEF TypeOK, ControlType, DataType
  <2>4. QED
    BY <2>2, <2>3
<1>5. QED
  BY <1>3, <1>4

(* A landed reset keeps the types.                                         *)
LEMMA OnResetType ==
  ASSUME TypeOK, NEW g \in Groups, NEW fails \in BOOLEAN, OnReset(g, fails)
  PROVE  TypeOK'
<1> DEFINE ids == [l \in g |-> pendingStart[l].id]
<1>1. ids \in LaneIds(g)
  BY GroupFacts DEF TypeOK, SlotType, Episode, LaneIds
<1>2. Observe(g, ids, steps[g], replay[g], predict[g], fails)
  BY DEF OnReset
<1>3. /\ steps' = steps /\ pendingDone' = pendingDone /\ chunk' = chunk
      /\ replay' = replay /\ acting' = acting /\ predicts' = predicts
  BY DEF OnReset, modelVars
<1>4. steps[g] \in Nat /\ replay[g] \in MaybeFrames(g) /\ predict[g] \in PredictStates
  BY DEF TypeOK, ControlType, DataType, MaybeFrames, PredictStates
<1>5. ControlType' /\ DataType'
  <2> HIDE DEF ids
  <2>1. CallerTypes(g, predict[g])
    BY <1>3 DEF TypeOK, ControlType, DataType, CallerTypes
  <2>2. predict[g] \in {predict[g], "none", "stale"}
    OBVIOUS
  <2>3. QED
    BY <1>1, <1>2, <1>4, <2>1, <2>2, ObserveType, Zenon
<1>6. SlotType'
  BY NoEpisodeType DEF TypeOK, SlotType, OnReset
<1>7. ScoreType' /\ ModelType'
  BY DEF TypeOK, OnReset, ScoreType, ModelType, scoreVars, modelVars
<1>8. QED
  BY <1>5, <1>6, <1>7 DEF TypeOK

(* The reports that are not stale, and the lanes that can be late, are of  *)
(* the group: so are the finished, scoring and rolling lanes.              *)
LEMMA FinishedFacts ==
  ASSUME LaneCounts, TypeOK, NEW g \in Groups, NEW reported \in EnvReports(g), NEW late \in Late(g)
  PROVE  /\ Finished(g, reported, late) \subseteq g
         /\ Rolling(g) \subseteq g
         /\ \A S \in SUBSET g : Cardinality(S) \in Nat
<1>1. \A r \in reported : r.lane \in g \/ (r.lane \in Lanes /\ r.id = StaleId)
  <2>1. PICK D \in SUBSET g, E \in {{}, {[lane |-> l, id |-> StaleId] : l \in Lanes}} :
          reported = {[lane |-> l, id |-> episode[l].id] : l \in D} \cup E
    BY DEF EnvReports
  <2>2. \A r \in E : r.lane \in Lanes /\ r.id = StaleId
    OBVIOUS
  <2>3. \A r \in {[lane |-> l, id |-> episode[l].id] : l \in D} : r.lane \in g
    OBVIOUS
  <2>4. QED
    BY <2>1, <2>2, <2>3
<1>2. Echoed(reported) \subseteq g
  <2>1. \A l \in Lanes : episode[l].id # StaleId
    BY DEF TypeOK, SlotType, Episode, StaleId
  <2>2. QED
    BY <1>1, <2>1 DEF Echoed
<1>3. QED
  BY <1>2, GroupFacts DEF LaneCounts, Finished, Capped, Rolling

(* The lanes an env rolled hold well-typed episodes.                       *)
LEMMA RolledType ==
  ASSUME LaneCounts, TypeOK, NEW g \in Groups
  PROVE  RolledEpisodes(g) \in [Lanes -> Episode]
<1> SUFFICES ASSUME NEW l \in Lanes PROVE RolledEpisodes(g)[l] \in Episode
  BY DEF RolledEpisodes
<1>1. Position(Rolling(g), l) \in Nat
  BY GroupFacts, PositionIsNat DEF Rolling
<1>2. RolledEpisode(g, l) \in Episode
  BY <1>1, Validated DEF TypeOK, SlotType, RolledEpisode, NewEpisode, Episode
<1>3. QED
  BY <1>2 DEF TypeOK, SlotType, RolledEpisodes

(* Ending episodes keeps their types and yields ids.                       *)
LEMMA EndType ==
  ASSUME NEW eps \in [Lanes -> Episode], NEW S \in SUBSET Lanes
  PROVE  EndEpisodes(eps, S) \in [Lanes -> Episode] /\ EndIds(eps, S) \subseteq Nat
<1>1. EndIds(eps, S) \subseteq Nat
  BY DEF EndIds, Episode
<1>2. \A l \in Lanes : [eps[l] EXCEPT !.ended = TRUE] \in Episode
  BY DEF Episode
<1>3. QED
  BY <1>1, <1>2 DEF EndEpisodes

(* A landed step keeps the types.                                          *)
LEMMA OnStepType ==
  ASSUME LaneCounts, TypeOK, NEW g \in Groups, NEW reported \in EnvReports(g),
         NEW late \in Late(g), NEW fails \in BOOLEAN, OnStep(g, reported, late, fails)
  PROVE  TypeOK'
<1> DEFINE finished == Finished(g, reported, late)
           rolled == RolledEpisodes(g)
           scoring == Scoring(g, finished)
           scored == {episode[l].id : l \in scoring}
           stops == Stops(g, total + Cardinality(scoring))
           restarts == DriverOwned /\ finished # {} /\ ~stops
           ending == IF Defers(stops) THEN {} ELSE finished
           minting == IF DriverOwned THEN {} ELSE finished
           held == IF Rolling(g) # {} THEN {} ELSE pendingDone[g]
           flushed == Flushed(g, finished)
           pred == CASE finished = {} -> predict[g]
                     [] finished # {} /\ InFlight(g) -> "stale"
                     [] OTHER -> "none"
           stp == IF History THEN steps[g] + 1 ELSE 0
<1>1. /\ g \subseteq Lanes /\ finished \subseteq g /\ Rolling(g) \subseteq g
      /\ scoring \subseteq g /\ ending \subseteq g /\ minting \subseteq g
  BY GroupFacts, FinishedFacts DEF Scoring
<1>2. /\ Cardinality(scoring) \in Nat /\ Cardinality(minting) \in Nat
      /\ Cardinality(Rolling(g)) \in Nat
      /\ \A l : Position(minting, l) \in Nat
  BY <1>1, FinishedFacts, PositionIsNat
<1>3. rolled \in [Lanes -> Episode]
  BY RolledType
<1>4. scored \subseteq Nat
  BY <1>1 DEF TypeOK, SlotType, Episode
<1>5. /\ steps' = [steps EXCEPT ![g] = stp]
      /\ pendingDone' = [pendingDone EXCEPT ![g] =
                           IF Defers(stops) THEN held \cup scored ELSE {}]
      /\ acting' = [acting EXCEPT ![g] = NoIds]
      /\ replay' = [replay EXCEPT ![g] = flushed]
      /\ chunk' = [chunk EXCEPT ![g] = IF finished # {} THEN NoFrames ELSE @]
      /\ predicts' = predicts
  BY DEF OnStep
<1>6. /\ \/ /\ stops
            /\ phase' = [phase EXCEPT ![g] = "Idle"]
            /\ predict' = [predict EXCEPT ![g] = "none"]
            /\ request' = [request EXCEPT ![g] = NoRequest]
            /\ minted' = minted + Cardinality(minting)
            /\ nextSlot' = Smaller(nextSlot + Cardinality(Rolling(g)), MaxEpisodes)
            /\ pc' = "turn"
            /\ UNCHANGED <<result, obs, history, pendingStart, trialCursor>>
         \/ /\ restarts
            /\ Restart(g)
            /\ request' = [request EXCEPT ![g] = NoRequest]
            /\ pc' = "turn"
            /\ UNCHANGED <<result, obs>>
         \/ /\ ~stops /\ ~restarts
            /\ minted' = minted + Cardinality(minting)
            /\ nextSlot' = Smaller(nextSlot + Cardinality(Rolling(g)), MaxEpisodes)
            /\ Observe(g, [l \in g |-> rolled[l].id], stp, flushed, pred, fails)
            /\ UNCHANGED <<pendingStart, trialCursor>>
  BY DEF OnStep
<1>7. /\ laneStep' = [l \in Lanes |-> CASE l \in Rolling(g) -> 0
                                       [] l \in g \ Rolling(g) -> laneStep[l] + 1
                                       [] OTHER -> laneStep[l]]
      /\ episode' = EndEpisodes(rolled, ending)
      /\ surplus' = RolledSurplus(g)
      /\ pendingRoll' = [l \in Lanes |->
           CASE l \in minting /\ ~stops -> minted + Position(minting, l) + 1
             [] l \in g /\ (l \notin minting \/ stops) -> NoId
             [] OTHER -> pendingRoll[l]]
  BY DEF OnStep
<1>8. /\ QueueEvictions(g, EndIds(episode, Rolling(g)) \cup EndIds(rolled, ending))
      /\ total' = total + Cardinality(scoring)
      /\ summaries' = summaries \cup {Summary(l) : l \in scoring}
      /\ closed' = closed \cup (pendingDone[g] \ held)
                          \cup (IF Defers(stops) THEN {} ELSE held \cup scored)
      /\ UNCHANGED <<predicts, open, ended, heard>>
  BY DEF OnStep
<1>9. /\ stp \in Nat /\ flushed \in MaybeFrames(g)
      /\ pred \in PredictStates
      /\ pred \in {predict[g], "none", "stale"}
      /\ pred = "ready" => finished = {}
      /\ held \subseteq Nat
  BY DEF TypeOK, ControlType, DataType, Flushed, MaybeFrames, PredictStates
<1> HIDE DEF finished, rolled, scoring, scored, stops, restarts, ending, minting, held,
             flushed, pred, stp
<1>10. steps' \in [Groups -> Nat] /\ pendingDone' \in [Groups -> SUBSET Nat]
  BY <1>4, <1>5, <1>9 DEF TypeOK, ControlType
<1>11. /\ DOMAIN chunk' = Groups /\ DOMAIN replay' = Groups /\ DOMAIN acting' = Groups
       /\ \A h \in Groups : /\ chunk'[h] \in Frames(h) \cup {NoFrames}
                            /\ replay'[h] \in Frames(h) \cup {NoFrames}
                            /\ acting'[h] \in LaneIds(h) \cup {NoIds}
                            /\ h # g \/ pred = "ready" => chunk'[h] = chunk[h]
  BY <1>5, <1>9 DEF TypeOK, DataType, MaybeFrames
<1>12. SlotType'
  <2>1. episode' \in [Lanes -> Episode]
    BY <1>1, <1>3, <1>7, EndType
  <2>2. laneStep' \in [Lanes -> Nat] /\ pendingRoll' \in [Lanes -> Nat]
    BY <1>2, <1>7 DEF TypeOK, SlotType, NoId
  <2>3. surplus' \subseteq Nat
    BY <1>1, <1>7 DEF TypeOK, SlotType, RolledSurplus
  <2>4. minted' \in Nat /\ nextSlot' \in 0 .. MaxEpisodes /\ trialCursor' \in Nat
    <3>1. \/ /\ minted' = minted + Cardinality(minting)
             /\ nextSlot' = Smaller(nextSlot + Cardinality(Rolling(g)), MaxEpisodes)
             /\ trialCursor' = trialCursor
          \/ Restart(g)
      BY <1>6
    <3>2. \/ /\ minted' = minted + Cardinality(minting)
             /\ nextSlot' = Smaller(nextSlot + Cardinality(Rolling(g)), MaxEpisodes)
             /\ trialCursor' = trialCursor
          \/ minted' = minted /\ nextSlot' = nextSlot /\ trialCursor' = trialCursor
          \/ /\ nextSlot # MaxEpisodes /\ minted' = minted + 1
             /\ nextSlot' = nextSlot + 1 /\ trialCursor' = trialCursor + 1
      BY <3>1 DEF Restart
    <3>3. QED
      BY <1>2, <3>2, Validated DEF TypeOK, SlotType, Smaller
  <2>5. pendingStart' \in [Lanes -> Episode]
    <3>1. Staged(minted, nextSlot, trialCursor) \in Episode
      BY StagedType, Validated DEF TypeOK, SlotType
    <3>2. QED
      BY <1>6, <3>1 DEF TypeOK, SlotType, Restart
  <2>6. QED
    BY <2>1, <2>2, <2>3, <2>4, <2>5 DEF SlotType
<1>13. ScoreType'
  <2>1. \A l \in scoring : Summary(l) \in [id : Nat, index : 0 .. MaxEpisodes, trial : Int]
    BY <1>1 DEF TypeOK, SlotType, Summary, Episode
  <2>2. pendingDone[g] \subseteq Nat
    BY DEF TypeOK, ControlType
  <2>3. closed' \subseteq Nat
    BY <1>4, <1>8, <1>9, <2>2 DEF TypeOK, ScoreType
  <2>4. total' \in Nat
    BY <1>2, <1>8 DEF TypeOK, ScoreType
  <2>5. summaries' \subseteq [id : Nat, index : 0 .. MaxEpisodes, trial : Int]
    BY <1>8, <2>1 DEF TypeOK, ScoreType
  <2>6. QED
    BY <2>3, <2>4, <2>5 DEF ScoreType
<1>14. ModelType'
  <2>1. EndIds(episode, Rolling(g)) \cup EndIds(rolled, ending) \subseteq Nat
    BY <1>1, <1>3, EndType DEF TypeOK, SlotType
  <2> DEFINE new == EndIds(episode, Rolling(g)) \cup EndIds(rolled, ending)
  <2> HIDE DEF new
  <2>2. pendingEv' \subseteq Nat /\ heldEv' \subseteq Groups \X Nat
    <3>1. new \subseteq Nat /\ QueueEvictions(g, new)
      BY <1>8, <2>1 DEF new
    <3>2. {g} \X new \subseteq Groups \X Nat
      BY <3>1
    <3>3. QED
      BY <3>1, <3>2 DEF TypeOK, ModelType, QueueEvictions
  <2>3. QED
    BY <1>8, <2>2 DEF TypeOK, ModelType
<1>15. ControlType' /\ DataType'
  <2>1. CASE stops \/ restarts
    <3>1. /\ request' = [request EXCEPT ![g] = NoRequest]
          /\ pc' = "turn" /\ result' = result /\ obs' = obs
          /\ \E x \in {"Idle", "Resetting"} : phase' = [phase EXCEPT ![g] = x]
          /\ \E x \in {"none", "stale"} : predict' = [predict EXCEPT ![g] = x]
          /\ DOMAIN history' = Groups
          /\ \A h \in Groups : history'[h] \in {history[h], <<>>}
      <4>1. CASE stops
        BY <1>6, <4>1 DEF restarts, TypeOK, DataType
      <4>2. CASE restarts
        BY <1>6, <4>2 DEF restarts, Restart, TypeOK, DataType
      <4>3. QED
        BY <2>1, <4>1, <4>2
    <3>2. ControlType'
      BY <1>10, <3>1 DEF TypeOK, ControlType
    <3>3. \A h \in Groups : predict'[h] = "ready" => h # g
      BY <3>1 DEF TypeOK, ControlType
    <3>4. \A h \in Groups : predict'[h] = "wanted" => h # g
      BY <3>1 DEF TypeOK, ControlType
    <3>5. \A h \in Groups : history'[h] \in Seq(Observation(h))
      <4>1. DataType
        BY DEF TypeOK
      <4>2. \A h \in Groups : history[h] \in Seq(Observation(h))
        BY <4>1 DEF DataType
      <4>3. \A h \in Groups : <<>> \in Seq(Observation(h))
        OBVIOUS
      <4>4. QED
        BY <3>1, <4>2, <4>3
    <3>6. DataType'
      <4>0. /\ \A h \in Groups : h # g => predict'[h] = predict[h]
            /\ \A h \in Groups : /\ predict[h] = "wanted" => request[h] # NoRequest
                                 /\ predict[h] = "ready" => chunk[h].left > 0
        <5>1. DOMAIN predict = Groups
          BY DEF TypeOK, ControlType
        <5>2. DataType
          BY DEF TypeOK
        <5>3. \A h \in Groups : h # g => predict'[h] = predict[h]
          BY <3>1, <5>1
        <5>4. QED
          BY <5>2, <5>3 DEF DataType
      <4>1. /\ DOMAIN request' = Groups /\ DOMAIN obs' = Groups
            /\ \A h \in Groups : /\ request'[h] \in Message(h) \cup {NoRequest}
                                 /\ obs'[h] \in Observation(h) \cup {NoObs}
                                 /\ h # g => request'[h] = request[h]
        BY <3>1 DEF TypeOK, DataType
      <4>2. \A h \in Groups : predict'[h] = "wanted" => request'[h] # NoRequest
        BY <3>4, <4>0, <4>1
      <4>3. \A h \in Groups : predict'[h] = "ready" => chunk'[h].left > 0
        BY <1>11, <3>3, <4>0
      <4>4. \A p \in predicts' : DOMAIN p \subseteq Groups /\ \A h \in DOMAIN p : p[h] \in Message(h)
        BY <1>5 DEF TypeOK, DataType
      <4>5. QED
        BY <1>11, <3>1, <3>5, <4>1, <4>2, <4>3, <4>4 DEF DataType
    <3>7. QED
      BY <3>2, <3>6
  <2>2. CASE ~(stops \/ restarts)
    <3>1. Observe(g, [l \in g |-> rolled[l].id], stp, flushed, pred, fails)
      BY <1>6, <2>2
    <3>2. [l \in g |-> rolled[l].id] \in LaneIds(g)
      BY <1>1, <1>3 DEF LaneIds, Episode
    <3> DEFINE ids == [l \in g |-> rolled[l].id]
    <3> HIDE DEF ids
    <3>3. ids \in LaneIds(g) /\ Observe(g, ids, stp, flushed, pred, fails)
      BY <3>1, <3>2 DEF ids
    <3>4. CallerTypes(g, pred)
      BY <1>5, <1>10, <1>11 DEF CallerTypes
    <3>5. QED
      BY <1>9, <3>3, <3>4, ObserveType, Zenon
  <2>3. QED
    BY <2>1, <2>2
<1>16. QED
  BY <1>12, <1>13, <1>14, <1>15 DEF TypeOK
=============================================================================
