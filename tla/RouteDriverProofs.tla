-------------------------- MODULE RouteDriverProofs --------------------------
(***************************************************************************)
(* The types of RouteDriver's variables are inductive, for every number of *)
(* lanes, budget, chunk length, prefetch lead, scheduler and autoreset     *)
(* mode.                                                                   *)
(***************************************************************************)
EXTENDS OutcomeTypes

(* The initial state is well typed.                                        *)
LEMMA InitType == Init => TypeOK
<1> SUFFICES ASSUME Init PROVE TypeOK
  OBVIOUS
<1>1. ControlType
  BY SMT DEF Init, ControlType
<1>2. DataType
  BY SMT DEF Init, DataType, NoRequest, NoFrames, NoObs, NoIds
<1>3. SlotType
  BY Validated, SMT DEF Init, SlotType, NoEpisode, NewEpisode, NoId, Episode
<1>4. ScoreType /\ ModelType
  BY SMT DEF Init, ScoreType, ModelType, NoRow, NoId
<1>5. QED
  BY <1>1, <1>2, <1>3, <1>4 DEF TypeOK

(* Starting the route keeps the types.                                     *)
LEMMA StartType == TypeOK /\ Start => TypeOK'
<1> SUFFICES ASSUME TypeOK, Start PROVE TypeOK'
  OBVIOUS
<1>1. ControlType'
  BY SMT DEF TypeOK, Start, ControlType
<1>2. DataType'
  BY DEF TypeOK, Start, DataType, modelVars
<1>3. SlotType'
  <2>1. pendingStart' \in [Lanes -> Episode]
    <3>1. NoEpisode \in Episode
      BY Validated DEF NoEpisode, NewEpisode, NoId, Episode
    <3>2. \A l \in Lanes : Staged(l - 1, l - 1, l - 1) \in Episode
      BY StagedType, Validated DEF Lanes
    <3>3. QED
      BY <3>1, <3>2 DEF Start
  <2>2. minted' \in Nat /\ nextSlot' \in 0 .. MaxEpisodes /\ trialCursor' \in Nat
    BY Validated DEF Start, Smaller
  <2>3. surplus' \subseteq Nat
    BY Validated DEF Start, StartingLanes, Lanes
  <2>4. QED
    BY <2>1, <2>2, <2>3 DEF TypeOK, Start, SlotType
<1>4. ScoreType' /\ ModelType'
  BY DEF TypeOK, Start, ScoreType, ModelType, scoreVars, modelVars
<1>5. QED
  BY <1>1, <1>2, <1>3, <1>4 DEF TypeOK

(* A message of a group names its lanes, so it is not the empty request.   *)
LEMMA MessageFacts ==
  ASSUME NEW g \in Groups, NEW m \in Message(g)
  PROVE  m # NoRequest /\ MessageIds(m) \subseteq Nat
<1>1. m # NoRequest
  <2>1. DOMAIN m.ids = g /\ g # {}
    BY GroupFacts DEF Message, LaneIds
  <2>2. DOMAIN NoRequest.ids = {}
    BY DEF NoRequest, NoIds
  <2>3. QED
    BY <2>1, <2>2
<1>2. Ids(m.ids) \subseteq Nat
  BY DEF Ids, Message, LaneIds
<1>3. \A i \in DOMAIN m.rows : Ids(m.rows[i].ids) \subseteq Nat
  <2>1. \A i \in DOMAIN m.rows : m.rows[i] \in Observation(g)
    BY DEF Message
  <2>2. QED
    BY <2>1 DEF Ids, Observation, LaneIds
<1>4. QED
  BY <1>1, <1>2, <1>3 DEF MessageIds

(* What a re-plan from the latest observation sends is a message.          *)
LEMMA LatestType ==
  ASSUME TypeOK, NEW g \in Groups, HasLatest(g)
  PROVE  LatestRequest(g) \in Message(g)
<1>1. obs[g] \in Observation(g)
  BY DEF TypeOK, DataType, HasLatest
<1>2. History => EarlierRows(g) \in Seq(Observation(g))
  <2>1. history[g] \in Seq(Observation(g)) /\ (History => history[g] # <<>>)
    BY DEF TypeOK, DataType, HasLatest
  <2>2. QED
    BY <2>1 DEF EarlierRows
<1>3. QED
  BY <1>1, <1>2 DEF LatestRequest, Message, Observation

(* Every group the scheduler may pick has a message to send.               *)
LEMMA RequestedType ==
  ASSUME TypeOK, NEW g \in Waiting
  PROVE  Requested(g) \in Message(g)
BY LatestType DEF TypeOK, DataType, Waiting, Requested, Prefetches

(* A landed predict keeps the types.                                       *)
LEMMA OnPredictType ==
  ASSUME TypeOK, NEW p \in predicts, NEW n \in [DOMAIN p -> 1 .. MaxChunk], OnPredict(p, n)
  PROVE  TypeOK'
<1> DEFINE frames(g) == [left |-> n[g], ids |-> p[g].ids]
           waits(g) == g \in DOMAIN p /\ predict[g] = "inflight" /\ replay[g].left > 0
           plays(g) == g \in DOMAIN p /\ predict[g] = "inflight" /\ replay[g].left = 0
           rearms(g) == g \in DOMAIN p /\ Rearms(g)
<1>1. \A g \in DOMAIN p : frames(g) \in Frames(g) /\ frames(g).left > 0
  BY Validated DEF TypeOK, DataType, Frames, Message
<1>2. \A g \in Groups : rearms(g) => LatestRequest(g) \in Message(g) /\ LatestRequest(g) # NoRequest
  BY LatestType, MessageFacts DEF Rearms
<1>3. /\ replay' = [g \in Groups |-> IF plays(g) THEN frames(g) ELSE replay[g]]
      /\ chunk' = [g \in Groups |-> IF waits(g) THEN frames(g) ELSE chunk[g]]
      /\ request' = [g \in Groups |-> IF rearms(g) THEN LatestRequest(g) ELSE request[g]]
      /\ history' = [g \in Groups |-> IF rearms(g) /\ History THEN <<>> ELSE history[g]]
      /\ predict' = [g \in Groups |->
           CASE waits(g) -> "ready"
             [] rearms(g) -> "wanted"
             [] g \in DOMAIN p /\ InFlight(g) /\ ~waits(g) /\ ~rearms(g) -> "none"
             [] OTHER -> predict[g]]
      /\ predicts' = predicts \ {p}
      /\ pc' = "turn"
      /\ UNCHANGED <<result, phase, obs, steps, pendingRoll, pendingDone, pendingStart,
                     acting, slotVars, scoreVars, open, ended, heard>>
  BY DEF OnPredict
<1>4. /\ heldEv' = heldEv \ {h \in heldEv : h[1] \in DOMAIN p}
      /\ pendingEv' = pendingEv \cup {h[2] : h \in {h \in heldEv : h[1] \in DOMAIN p}}
  BY DEF OnPredict, Freed
<1>5. \A g \in Groups : ~(waits(g) /\ rearms(g))
  BY DEF Rearms
<1> HIDE DEF frames, plays, waits, rearms
<1>6. ControlType'
  BY <1>3, <1>5 DEF TypeOK, ControlType
<1>7. DataType'
  <2>1. /\ DOMAIN request' = Groups /\ DOMAIN chunk' = Groups /\ DOMAIN replay' = Groups
        /\ DOMAIN obs' = Groups /\ DOMAIN history' = Groups /\ DOMAIN acting' = Groups
    BY <1>3 DEF TypeOK, DataType
  <2>2. ASSUME NEW g \in Groups
        PROVE  /\ request'[g] \in Message(g) \cup {NoRequest}
               /\ history'[g] \in Seq(Observation(g))
               /\ predict'[g] = "wanted" => request'[g] # NoRequest
    <3>1. request'[g] = IF rearms(g) THEN LatestRequest(g) ELSE request[g]
      BY <1>3
    <3>2. predict'[g] = "wanted" => rearms(g) \/ predict[g] = "wanted"
      BY <1>3
    <3>3. history'[g] = IF rearms(g) /\ History THEN <<>> ELSE history[g]
      BY <1>3
    <3>4. history'[g] \in Seq(Observation(g))
      BY <3>3 DEF TypeOK, DataType
    <3>5. QED
      BY <1>2, <3>1, <3>2, <3>4 DEF TypeOK, DataType
  <2>3. ASSUME NEW g \in Groups
        PROVE  /\ chunk'[g] \in Frames(g) \cup {NoFrames}
               /\ replay'[g] \in Frames(g) \cup {NoFrames}
               /\ predict'[g] = "ready" => chunk'[g].left > 0
    <3>1. plays(g) \/ waits(g) => g \in DOMAIN p
      BY DEF plays, waits
    <3>2. predict'[g] = "ready" => waits(g) \/ predict[g] = "ready"
      BY <1>3
    <3>3. /\ chunk'[g] = IF waits(g) THEN frames(g) ELSE chunk[g]
          /\ replay'[g] = IF plays(g) THEN frames(g) ELSE replay[g]
      BY <1>3
    <3>4. QED
      BY <1>1, <3>1, <3>2, <3>3 DEF TypeOK, DataType
  <2>4. \A q \in predicts' : DOMAIN q \subseteq Groups /\ \A g \in DOMAIN q : q[g] \in Message(g)
    BY <1>3 DEF TypeOK, DataType
  <2>5. \A g \in Groups : /\ obs'[g] \in Observation(g) \cup {NoObs}
                          /\ acting'[g] \in LaneIds(g) \cup {NoIds}
    BY <1>3 DEF TypeOK, DataType
  <2>6. QED
    BY <2>1, <2>2, <2>3, <2>4, <2>5 DEF DataType
<1>8. SlotType' /\ ScoreType'
  BY <1>3 DEF TypeOK, SlotType, ScoreType, slotVars, scoreVars
<1>9. ModelType'
  BY <1>3, <1>4 DEF TypeOK, ModelType
<1>10. QED
  BY <1>6, <1>7, <1>8, <1>9 DEF TypeOK

(* A scheduler plan picks groups that wait for a predict.                  *)
LEMMA PlanFacts ==
  ASSUME NEW S \in Plans
  PROVE  S \subseteq Waiting /\ S \subseteq Groups
BY DEF Plans, Waiting

(* The frame a step plays comes from a well-typed chunk with frames left.  *)
LEMMA PlayingType ==
  ASSUME TypeOK, NEW g \in Groups, CanStep(g)
  PROVE  /\ Playing(g) \in Frames(g)
         /\ AfterPop(g) \in Frames(g)
<1>1. Playing(g) \in Frames(g) \cup {NoFrames} /\ Playing(g).left > 0
  BY DEF TypeOK, DataType, CanStep, Playing
<1>2. Playing(g) \in Frames(g)
  BY <1>1 DEF NoFrames
<1>3. QED
  BY <1>1, <1>2 DEF AfterPop, Frames

(* A loop turn keeps the types.                                            *)
LEMMA TurnType ==
  ASSUME TypeOK, NEW S \in Plans, Turn(S)
  PROVE  TypeOK'
<1>1. S \subseteq Waiting /\ S \subseteq Groups
  BY PlanFacts
<1>2. \A g \in Waiting : /\ g \in Groups /\ Requested(g) \in Message(g)
                         /\ Requested(g) # NoRequest /\ MessageIds(Requested(g)) \subseteq Nat
  BY RequestedType, MessageFacts DEF Waiting
<1>3. ControlType'
  <2>1. phase' \in [Groups -> {"Ready", "Stepping", "Resetting", "Idle"}]
    BY DEF TypeOK, ControlType, Turn
  <2>2. predict' \in [Groups -> {"none", "wanted", "inflight", "stale", "ready"}]
    <3>1. \A g \in Groups : PredictAfterPop(g) \in {"none", "wanted", "inflight", "stale", "ready"}
      BY DEF TypeOK, ControlType, PredictAfterPop
    <3>2. QED
      BY <3>1 DEF TypeOK, ControlType, Turn
  <2>3. pc' \in {"start", "turn", "select", "drain", "done"}
        /\ result' \in {"none", "ok", "err", "stalled"}
    BY DEF TypeOK, ControlType, Turn
  <2>4. QED
    BY <2>1, <2>2, <2>3 DEF TypeOK, ControlType, Turn
<1>4. DataType'
  <2>1. /\ request' = [g \in Groups |->
             CASE g \in S -> NoRequest
               [] g \in Waiting \ S -> Requested(g)
               [] OTHER -> request[g]]
        /\ chunk' = [g \in Groups |->
             IF CanStep(g) /\ replay[g].left = 0 THEN NoFrames ELSE chunk[g]]
        /\ replay' = [g \in Groups |->
             CASE ~CanStep(g) -> replay[g]
               [] CanStep(g) /\ AfterPop(g).left = 0 -> NoFrames
               [] OTHER -> AfterPop(g)]
        /\ predict' = [g \in Groups |->
             CASE g \in S -> "inflight"
               [] g \in Waiting \ S -> "wanted"
               [] CanStep(g) /\ g \notin Waiting -> PredictAfterPop(g)
               [] OTHER -> predict[g]]
        /\ history' = [g \in Groups |-> IF Prefetches(g) /\ History THEN <<>> ELSE history[g]]
        /\ acting' = [g \in Groups |-> IF CanStep(g) THEN Playing(g).ids ELSE acting[g]]
        /\ obs' = obs
        /\ predicts' = predicts \cup Launched(S)
    BY DEF Turn
  <2>2. ASSUME NEW g \in Groups
        PROVE  /\ request'[g] \in Message(g) \cup {NoRequest}
               /\ predict'[g] = "wanted" => request'[g] # NoRequest
    <3>1. request'[g] = CASE g \in S -> NoRequest
                          [] g \in Waiting \ S -> Requested(g)
                          [] OTHER -> request[g]
      BY <2>1
    <3>2. predict'[g] = "wanted" => g \in Waiting \ S \/ (g \notin Waiting /\ predict[g] = "wanted")
      BY <1>1, <2>1 DEF PredictAfterPop
    <3>3. predict[g] = "wanted" => g \in Waiting
      BY DEF Waiting
    <3>4. QED
      BY <1>1, <1>2, <3>1, <3>2, <3>3 DEF TypeOK, DataType
  <2>3. ASSUME NEW g \in Groups
        PROVE  /\ chunk'[g] \in Frames(g) \cup {NoFrames}
               /\ replay'[g] \in Frames(g) \cup {NoFrames}
               /\ acting'[g] \in LaneIds(g) \cup {NoIds}
               /\ history'[g] \in Seq(Observation(g))
    <3>1. CanStep(g) => Playing(g).ids \in LaneIds(g) /\ AfterPop(g) \in Frames(g)
      BY PlayingType DEF Frames
    <3>2. history'[g] \in Seq(Observation(g))
      BY <2>1 DEF TypeOK, DataType
    <3>3. acting'[g] \in LaneIds(g) \cup {NoIds}
      BY <2>1, <3>1 DEF TypeOK, DataType
    <3>4. chunk'[g] \in Frames(g) \cup {NoFrames}
      BY <2>1 DEF TypeOK, DataType
    <3>5. replay'[g] \in Frames(g) \cup {NoFrames}
      BY <2>1, <3>1 DEF TypeOK, DataType
    <3>6. QED
      BY <3>2, <3>3, <3>4, <3>5
  <2>4. ASSUME NEW g \in Groups, predict'[g] = "ready"
        PROVE  chunk'[g].left > 0
    <3>1. predict[g] = "ready" /\ ~(CanStep(g) /\ replay[g].left = 0)
      BY <1>1, <2>1, <2>4 DEF PredictAfterPop, Waiting, Prefetches
    <3>2. QED
      BY <2>1, <3>1 DEF TypeOK, DataType
  <2>5. \A q \in Launched(S) : DOMAIN q \subseteq Groups /\ \A g \in DOMAIN q : q[g] \in Message(g)
    BY <1>1, <1>2 DEF Launched
  <2>6. QED
    BY <2>1, <2>2, <2>3, <2>4, <2>5 DEF TypeOK, DataType
<1>5. SlotType'
  <2>1. \A l \in Lanes : [episode[l] EXCEPT !.predicted = TRUE] \in Episode
    BY DEF TypeOK, SlotType, Episode
  <2>2. QED
    BY <2>1 DEF TypeOK, SlotType, Turn
<1>6. ScoreType'
  BY DEF TypeOK, ScoreType, Turn, scoreVars
<1>7. ModelType'
  <2>1. heard' \in [Lanes -> [id : Nat, step : Int]]
    <3>1. ASSUME NEW l \in Lanes, l \in UNION S
          PROVE  LET g == CHOOSE h \in S : l \in h IN
                 [id |-> Requested(g).ids[l], step |-> Requested(g).step] \in [id : Nat, step : Int]
      <4> DEFINE g == CHOOSE h \in S : l \in h
      <4>1. g \in S /\ l \in g
        BY <3>1
      <4>2. Requested(g) \in Message(g)
        BY <1>1, <1>2, <4>1
      <4>3. QED
        BY <4>1, <4>2 DEF Message, LaneIds
    <3>2. heard' = [l \in Lanes |->
            IF History /\ l \in UNION S
            THEN LET g == CHOOSE h \in S : l \in h IN
                 [id |-> Requested(g).ids[l], step |-> Requested(g).step]
            ELSE heard[l]]
      BY DEF Turn
    <3>3. QED
      BY <3>1, <3>2 DEF TypeOK, ModelType
  <2>2. UNION {MessageIds(Requested(g)) : g \in S} \subseteq Nat
    BY <1>1, <1>2
  <2>3. Flushing \subseteq Nat
    BY DEF TypeOK, ModelType, Flushing
  <2>4. QED
    BY <2>1, <2>2, <2>3 DEF TypeOK, ModelType, Turn
<1>8. QED
  BY <1>3, <1>4, <1>5, <1>6, <1>7 DEF TypeOK

(* Failures and the end of the route keep the types.                       *)
LEMMA FailureType ==
  ASSUME TypeOK, Failure \/ Complete
  PROVE  TypeOK'
<1>1. /\ pc' \in {"start", "turn", "select", "drain", "done"}
      /\ result' \in {"none", "ok", "err", "stalled"}
      /\ UNCHANGED <<groupVars, slotVars, scoreVars, heard>>
      /\ predicts' \subseteq predicts
      /\ pendingEv' \subseteq pendingEv /\ heldEv' \subseteq heldEv
      /\ open' \subseteq open /\ ended' \subseteq ended \cup pendingEv
  BY DEF TypeOK, ControlType, Failure, Complete, EnvOpFails, PredictFails, TurnFails, Cancel,
         Abandon, modelVars, Flushing
<1>2. ControlType' /\ SlotType' /\ ScoreType' /\ ModelType'
  BY <1>1 DEF TypeOK, ControlType, SlotType, ScoreType, ModelType, groupVars, slotVars, scoreVars
<1>3. DataType'
  BY <1>1 DEF TypeOK, DataType, groupVars
<1>4. QED
  BY <1>2, <1>3 DEF TypeOK

(* The teardown keeps the types.                                           *)
LEMMA TeardownType ==
  ASSUME TypeOK, Teardown
  PROVE  TypeOK'
<1>1. episode' \in [Lanes -> Episode] /\ EndIds(episode, LiveLanes) \subseteq Nat
  BY EndType DEF TypeOK, SlotType, Teardown, LiveLanes
<1>2. HeldIds \subseteq Nat
  BY DEF TypeOK, ModelType, HeldIds
<1>3. ControlType' /\ DataType'
  BY DEF TypeOK, ControlType, DataType, Teardown, groupVars
<1>4. SlotType' /\ ScoreType' /\ ModelType'
  BY <1>1, <1>2 DEF TypeOK, SlotType, ScoreType, ModelType, Teardown, groupVars, scoreVars
<1>5. QED
  BY <1>3, <1>4 DEF TypeOK

(* Every step of the route keeps the types.                                *)
LEMMA TypeStep ==
  ASSUME LaneCounts, TypeOK, [Next]_vars
  PROVE  TypeOK'
<1>1. CASE Start
  BY <1>1, StartType
<1>2. CASE \E S \in Plans : Turn(S)
  BY <1>2, TurnType
<1>3. CASE Outcome
  BY <1>3, OnResetType, OnStepType, OnPredictType DEF Outcome
<1>4. CASE Complete \/ Failure
  BY <1>4, FailureType
<1>5. CASE Teardown
  BY <1>5, TeardownType
<1>6. CASE Done \/ UNCHANGED vars
  BY <1>6 DEF TypeOK, ControlType, DataType, SlotType, ScoreType, ModelType, Done, vars,
              groupVars, slotVars, scoreVars, modelVars
<1>7. QED
  BY <1>1, <1>2, <1>3, <1>4, <1>5, <1>6 DEF Next
==============================================================================
