--------------------------- MODULE LifecycleProofs ---------------------------
(***************************************************************************)
(* RouteDriver implements EpisodeLifecycle when the driver owns resets:    *)
(* the model never sees a predict under an id whose end it was sent.       *)
(***************************************************************************)
EXTENDS EvictionProofs

EpisodeIds(g) == [l \in g |-> episode[l].id]
RowsCurrent(g, rows) == \A i \in DOMAIN rows : rows[i].ids = EpisodeIds(g)

(* What a group holds is of the episodes its lanes are in, which have not  *)
(* ended; a group that resets has forgotten the episodes before.           *)
Current(g) ==
  /\ phase[g] \in {"Ready", "Stepping"} =>
       /\ \A l \in g : ~episode[l].ended
       /\ obs[g].ids = EpisodeIds(g)
       /\ RowsCurrent(g, history[g])
  /\ phase[g] = "Resetting" => history[g] = <<>> /\ predict[g] # "wanted"
  /\ phase[g] = "Idle" => predict[g] # "wanted"
  /\ predict[g] = "wanted" =>
       request[g].ids = EpisodeIds(g) /\ RowsCurrent(g, request[g].rows)

PlansCurrent ==
  /\ pc = "start" => \A g \in Groups : history[g] = <<>> /\ predict[g] = "none"
  /\ pc \in {"turn", "select"} => \A g \in Groups : Current(g)

(* The driver owns the resets, so no lane waits for an autoreset roll.     *)
NoRolls == \A l \in Lanes : pendingRoll[l] = NoId

LifecycleInv == EvictionInv /\ NoRolls /\ PlansCurrent /\ NoPredictAfterEnd

-----------------------------------------------------------------------------
(* A group nothing touched stays current.                                  *)
LEMMA CurrentFrame ==
  ASSUME NEW h \in Groups, Current(h),
         /\ phase'[h] = phase[h] /\ predict'[h] = predict[h] /\ request'[h] = request[h]
         /\ obs'[h] = obs[h] /\ history'[h] = history[h],
         \A l \in h : episode'[l].id = episode[l].id /\ episode'[l].ended = episode[l].ended
  PROVE  Current(h)'
<1>1. EpisodeIds(h)' = EpisodeIds(h)
  BY DEF EpisodeIds
<1>2. QED
  BY <1>1 DEF Current, RowsCurrent

(* An observation of the episodes the lanes are in keeps a group current.  *)
LEMMA ObserveCurrent ==
  ASSUME TypeOK, NEW g \in Groups, NEW ids, NEW stp, NEW rep, NEW pred, NEW fails \in BOOLEAN,
         Observe(g, ids, stp, rep, pred, fails),
         ids = EpisodeIds(g)',
         \A l \in g : ~episode'[l].ended,
         \A i \in DOMAIN history[g] : history[g][i].ids = ids,
         pred = "wanted" => /\ request[g].ids = ids
                            /\ \A i \in DOMAIN request[g].rows : request[g].rows[i].ids = ids
  PROVE  /\ pc' \in {"turn", "drain"}
         /\ pc' = "turn" => Current(g)'
         /\ pc' = "turn" => \A h \in Groups : h # g =>
              /\ phase'[h] = phase[h] /\ predict'[h] = predict[h] /\ request'[h] = request[h]
              /\ obs'[h] = obs[h] /\ history'[h] = history[h]
<1> DEFINE seen == [ids |-> ids, step |-> IF History THEN stp ELSE 0]
           replans == rep.left = 0 /\ pred = "none"
<1>1. pc' \in {"turn", "drain"}
  BY DEF Observe
<1>2. SUFFICES ASSUME pc' = "turn"
               PROVE  /\ Current(g)'
                      /\ \A h \in Groups : h # g =>
                           /\ phase'[h] = phase[h] /\ predict'[h] = predict[h]
                           /\ request'[h] = request[h]
                           /\ obs'[h] = obs[h] /\ history'[h] = history[h]
  BY <1>1
<1>3. /\ phase' = [phase EXCEPT ![g] = "Ready"]
      /\ obs' = [obs EXCEPT ![g] = seen]
      /\ history' = [history EXCEPT ![g] =
           IF ~History \/ replans THEN <<>> ELSE Append(@, seen)]
      /\ predict' = [predict EXCEPT ![g] = IF replans THEN "wanted" ELSE pred]
      /\ request' = [request EXCEPT ![g] =
           IF replans
           THEN [ids |-> ids, step |-> seen.step, rows |-> history[g]]
           ELSE IF pred = "wanted" THEN @ ELSE NoRequest]
  BY <1>2 DEF Observe
<1>4. /\ phase \in [Groups -> {"Ready", "Stepping", "Resetting", "Idle"}]
      /\ predict \in [Groups -> {"none", "wanted", "inflight", "stale", "ready"}]
      /\ DOMAIN obs = Groups /\ DOMAIN history = Groups /\ DOMAIN request = Groups
      /\ history[g] \in Seq(Observation(g))
  BY DEF TypeOK, ControlType, DataType
<1>5. seen.ids = ids
  OBVIOUS
<1> HIDE DEF seen, replans
<1>6. \A h \in Groups : h # g =>
        /\ phase'[h] = phase[h] /\ predict'[h] = predict[h] /\ request'[h] = request[h]
        /\ obs'[h] = obs[h] /\ history'[h] = history[h]
  BY <1>3, <1>4
<1>7. phase'[g] = "Ready" /\ obs'[g].ids = EpisodeIds(g)'
  BY <1>3, <1>4, <1>5
<1>8. RowsCurrent(g, history[g])'
  <2>1. history'[g] = IF ~History \/ replans THEN <<>> ELSE Append(history[g], seen)
    BY <1>3, <1>4
  <2>2. \A i \in DOMAIN Append(history[g], seen) :
          Append(history[g], seen)[i] = seen \/ (i \in DOMAIN history[g] /\ Append(history[g], seen)[i] = history[g][i])
    BY <1>4
  <2>3. \A i \in DOMAIN history'[g] : history'[g][i].ids = ids
    BY <1>5, <2>1, <2>2
  <2>4. QED
    BY <2>3 DEF RowsCurrent
<1>9. predict'[g] = "wanted" => /\ request'[g].ids = EpisodeIds(g)'
                                /\ RowsCurrent(g, request[g].rows)'
  <2>1. predict'[g] = IF replans THEN "wanted" ELSE pred
    BY <1>3, <1>4
  <2>2. request'[g] = IF replans
                      THEN [ids |-> ids, step |-> seen.step, rows |-> history[g]]
                      ELSE IF pred = "wanted" THEN request[g] ELSE NoRequest
    BY <1>3, <1>4
  <2>3. CASE replans
    BY <2>2, <2>3 DEF RowsCurrent
  <2>4. CASE ~replans /\ pred = "wanted"
    BY <2>2, <2>4 DEF RowsCurrent
  <2>5. QED
    BY <2>1, <2>3, <2>4
<1>10. QED
  BY <1>6, <1>7, <1>8, <1>9 DEF Current

(* A landed reset leaves its group current on the episodes it starts.      *)
LEMMA OnResetCurrent ==
  ASSUME LifecycleInv, NEW g \in Groups, NEW fails \in BOOLEAN, OnReset(g, fails)
  PROVE  PlansCurrent'
<1> DEFINE ids == [l \in g |-> pendingStart[l].id]
<1>1. /\ Observe(g, ids, steps[g], replay[g], predict[g], fails)
      /\ \A l \in Lanes : episode'[l] = IF l \in g THEN pendingStart[l] ELSE episode[l]
      /\ pc = "select" /\ phase[g] = "Resetting"
  BY DEF OnReset
<1>2. g \subseteq Lanes
  BY GroupFacts
<1>3. history[g] = <<>> /\ predict[g] # "wanted"
  BY <1>1 DEF LifecycleInv, PlansCurrent, Current
<1>4. \A l \in g : ~episode'[l].ended
  BY <1>1, <1>2 DEF LifecycleInv, EvictionInv, EndsKnown
<1>5. ids = EpisodeIds(g)'
  BY <1>1, <1>2 DEF EpisodeIds
<1> HIDE DEF ids
<1>6. /\ pc' \in {"turn", "drain"}
      /\ pc' = "turn" => Current(g)'
      /\ pc' = "turn" => \A h \in Groups : h # g =>
           /\ phase'[h] = phase[h] /\ predict'[h] = predict[h] /\ request'[h] = request[h]
           /\ obs'[h] = obs[h] /\ history'[h] = history[h]
  BY <1>1, <1>3, <1>4, <1>5, ObserveCurrent DEF LifecycleInv, EvictionInv
<1>7. ASSUME NEW h \in Groups, h # g, pc' = "turn"
      PROVE  Current(h)'
  <2>1. \A l \in h : episode'[l] = episode[l]
    BY <1>1, <1>7, GroupsApart, GroupFacts
  <2>2. Current(h)
    BY <1>1 DEF LifecycleInv, PlansCurrent
  <2>3. QED
    BY <1>6, <1>7, <2>1, <2>2, CurrentFrame
<1>8. QED
  BY <1>6, <1>7 DEF PlansCurrent

(* A landed step: the group idles, forgets the ended episode and resets,   *)
(* or observes the episode it is in.                                       *)
LEMMA OnStepCurrent ==
  ASSUME LaneCounts, DriverOwned, LifecycleInv, NEW g \in Groups, NEW reported \in EnvReports(g),
         NEW late \in Late(g), NEW fails \in BOOLEAN, OnStep(g, reported, late, fails)
  PROVE  PlansCurrent' /\ NoRolls'
<1> DEFINE finished == Finished(g, reported, late)
           rolled == RolledEpisodes(g)
           stops == Stops(g, total + Cardinality(Scoring(g, finished)))
           flushed == Flushed(g, finished)
           pred == CASE finished = {} -> predict[g]
                     [] finished # {} /\ InFlight(g) -> "stale"
                     [] OTHER -> "none"
           stp == IF History THEN steps[g] + 1 ELSE 0
<1>1. /\ episode' = EndEpisodes(rolled, finished)
      /\ \A l \in Lanes : pendingRoll'[l] \in {NoId, pendingRoll[l]}
      /\ pc = "select" /\ phase[g] = "Stepping"
  BY DEF OnStep, Defers
<1>2. \/ /\ stops
         /\ phase' = [phase EXCEPT ![g] = "Idle"]
         /\ predict' = [predict EXCEPT ![g] = "none"]
         /\ request' = [request EXCEPT ![g] = NoRequest]
         /\ pc' = "turn"
         /\ UNCHANGED <<obs, history>>
      \/ /\ finished # {} /\ Restart(g)
         /\ request' = [request EXCEPT ![g] = NoRequest]
         /\ pc' = "turn"
         /\ UNCHANGED obs
      \/ /\ finished = {}
         /\ Observe(g, [l \in g |-> rolled[l].id], stp, flushed, pred, fails)
  BY DEF OnStep
<1>3. g \subseteq Lanes /\ finished \subseteq g
  BY GroupFacts, FinishedFacts DEF LifecycleInv, EvictionInv
<1>4. pred = IF finished = {} THEN predict[g] ELSE pred
  OBVIOUS
<1> HIDE DEF finished, rolled, stops, flushed, pred, stp
<1>5. NoRolls' /\ Rolling(g) = {}
  BY <1>1, <1>3 DEF LifecycleInv, NoRolls, Rolling
<1>6. \A l \in Lanes : rolled[l] = episode[l] /\ rolled[l] \in Episode
  <2>1. TypeOK
    BY DEF LifecycleInv, EvictionInv
  <2>2. ASSUME NEW l \in Lanes
        PROVE  RolledEpisodes(g)[l] = episode[l] /\ RolledEpisodes(g)[l] \in Episode
    BY <1>5, <2>1, RolledFacts
  <2>3. QED
    BY <2>2 DEF rolled
<1>7. \A l \in Lanes : /\ episode'[l].id = episode[l].id
                       /\ l \notin finished => episode'[l] = episode[l]
  <2>1. \A l \in Lanes : rolled[l] \in Episode
    BY <1>6
  <2>2. \A l \in Lanes : /\ EndEpisodes(rolled, finished)[l].id = rolled[l].id
                         /\ l \notin finished => EndEpisodes(rolled, finished)[l] = rolled[l]
    BY <2>1, EndMarks, Zenon
  <2>3. QED
    BY <1>1, <1>6, <2>2
<1>8. ASSUME NEW h \in Groups, h # g, pc' = "turn",
             /\ phase'[h] = phase[h] /\ predict'[h] = predict[h] /\ request'[h] = request[h]
             /\ obs'[h] = obs[h] /\ history'[h] = history[h]
      PROVE  Current(h)'
  <2>1. \A l \in h : episode'[l] = episode[l]
    BY <1>3, <1>7, <1>8, GroupsApart, GroupFacts
  <2>2. Current(h)
    BY <1>1 DEF LifecycleInv, PlansCurrent
  <2>3. QED
    BY <1>8, <2>1, <2>2, CurrentFrame
<1>9. /\ phase \in [Groups -> {"Ready", "Stepping", "Resetting", "Idle"}]
      /\ predict \in [Groups -> {"none", "wanted", "inflight", "stale", "ready"}]
      /\ DOMAIN obs = Groups /\ DOMAIN history = Groups /\ DOMAIN request = Groups
  BY DEF LifecycleInv, EvictionInv, TypeOK, ControlType, DataType
<1>10. CASE /\ stops
            /\ phase' = [phase EXCEPT ![g] = "Idle"]
            /\ predict' = [predict EXCEPT ![g] = "none"]
            /\ request' = [request EXCEPT ![g] = NoRequest]
            /\ pc' = "turn"
            /\ UNCHANGED <<obs, history>>
  <2>1. Current(g)'
    BY <1>9, <1>10 DEF Current
  <2>2. \A h \in Groups : h # g => Current(h)'
    BY <1>8, <1>9, <1>10
  <2>3. QED
    BY <1>5, <1>10, <2>1, <2>2 DEF PlansCurrent
<1>11. CASE /\ finished # {} /\ Restart(g)
            /\ request' = [request EXCEPT ![g] = NoRequest]
            /\ pc' = "turn"
            /\ UNCHANGED obs
  <2>1. /\ phase'[g] = "Idle" \/ (phase'[g] = "Resetting" /\ history'[g] = <<>>)
        /\ predict'[g] \in {"none", "stale"}
        /\ \A h \in Groups : h # g => /\ phase'[h] = phase[h] /\ predict'[h] = predict[h]
                                      /\ history'[h] = history[h]
    BY <1>9, <1>11 DEF Restart
  <2>2. Current(g)'
    BY <2>1 DEF Current
  <2>3. \A h \in Groups : h # g => Current(h)'
    BY <1>8, <1>9, <1>11, <2>1
  <2>4. QED
    BY <1>5, <1>11, <2>2, <2>3 DEF PlansCurrent
<1>12. CASE /\ finished = {}
            /\ Observe(g, [l \in g |-> rolled[l].id], stp, flushed, pred, fails)
  <2> DEFINE ids == [l \in g |-> rolled[l].id]
  <2>1. ids = EpisodeIds(g)' /\ ids = EpisodeIds(g)
    BY <1>3, <1>6, <1>7 DEF EpisodeIds
  <2>2. Current(g) /\ pred = predict[g]
    BY <1>1, <1>4, <1>12 DEF LifecycleInv, PlansCurrent
  <2> HIDE DEF ids
  <2>3. /\ \A l \in g : ~episode'[l].ended
        /\ \A i \in DOMAIN history[g] : history[g][i].ids = ids
        /\ pred = "wanted" => /\ request[g].ids = ids
                              /\ \A i \in DOMAIN request[g].rows : request[g].rows[i].ids = ids
    BY <1>1, <1>3, <1>7, <1>12, <2>1, <2>2 DEF Current, RowsCurrent
  <2>4. Observe(g, ids, stp, flushed, pred, fails)
    BY <1>12 DEF ids
  <2>5. /\ pc' \in {"turn", "drain"}
        /\ pc' = "turn" => Current(g)'
        /\ pc' = "turn" => \A h \in Groups : h # g =>
             /\ phase'[h] = phase[h] /\ predict'[h] = predict[h] /\ request'[h] = request[h]
             /\ obs'[h] = obs[h] /\ history'[h] = history[h]
    BY <2>1, <2>3, <2>4, ObserveCurrent DEF LifecycleInv, EvictionInv
  <2>6. QED
    BY <1>5, <1>8, <2>5 DEF PlansCurrent
<1>13. QED
  BY <1>2, <1>10, <1>11, <1>12

(* A landed predict re-arms only from the latest observation.              *)
LEMMA OnPredictCurrent ==
  ASSUME LifecycleInv, NEW p \in predicts, NEW n, OnPredict(p, n)
  PROVE  PlansCurrent'
<1> DEFINE rearms(g) == g \in DOMAIN p /\ Rearms(g)
<1>1. /\ pc = "select" /\ pc' = "turn" /\ UNCHANGED <<phase, obs, episode>>
      /\ \A g \in Groups :
           /\ request'[g] = IF rearms(g) THEN LatestRequest(g) ELSE request[g]
           /\ history'[g] = IF rearms(g) /\ History THEN <<>> ELSE history[g]
           /\ predict'[g] = "wanted" => rearms(g) \/ predict[g] = "wanted"
  BY DEF OnPredict, slotVars
<1>2. ASSUME NEW g \in Groups
      PROVE  Current(g)'
  <2>1. Current(g)
    BY <1>1 DEF LifecycleInv, PlansCurrent
  <2>2. EpisodeIds(g)' = EpisodeIds(g)
    BY <1>1 DEF EpisodeIds
  <2>3. CASE rearms(g)
    <3>1. /\ phase[g] = "Ready" /\ obs[g].ids = EpisodeIds(g)
          /\ RowsCurrent(g, history[g])
          /\ History => history[g] # <<>>
          /\ \A l \in g : ~episode[l].ended
      BY <2>1, <2>3 DEF Rearms, HasLatest, Current
    <3>2. /\ request'[g] = LatestRequest(g)
          /\ history'[g] = IF History THEN <<>> ELSE history[g]
      BY <1>1, <2>3
    <3>3. request'[g].ids = EpisodeIds(g)
      BY <3>1, <3>2 DEF LatestRequest
    <3>4. \A i \in DOMAIN request'[g].rows : request'[g].rows[i].ids = EpisodeIds(g)
      <4>1. request'[g].rows = IF History THEN EarlierRows(g) ELSE <<>>
        BY <3>2 DEF LatestRequest
      <4>2. history[g] \in Seq(Observation(g))
        BY DEF LifecycleInv, EvictionInv, TypeOK, DataType
      <4>3. History => \A i \in DOMAIN EarlierRows(g) :
                         i \in DOMAIN history[g] /\ EarlierRows(g)[i] = history[g][i]
        BY <3>1, <4>2 DEF EarlierRows
      <4>4. QED
        BY <3>1, <4>1, <4>3 DEF RowsCurrent
    <3>5. \A i \in DOMAIN history'[g] : history'[g][i].ids = EpisodeIds(g)
      BY <3>1, <3>2 DEF RowsCurrent
    <3>6. QED
      BY <1>1, <2>2, <3>1, <3>3, <3>4, <3>5 DEF Current, RowsCurrent
  <2>4. CASE ~rearms(g)
    <3>1. request'[g] = request[g] /\ history'[g] = history[g]
          /\ (predict'[g] = "wanted" => predict[g] = "wanted")
      BY <1>1, <2>4
    <3>2. QED
      BY <1>1, <2>1, <2>2, <3>1 DEF Current, RowsCurrent
  <2>5. QED
    BY <2>3, <2>4
<1>3. QED
  BY <1>1, <1>2 DEF PlansCurrent

(* What a current group asks for is of its episodes, which have not ended. *)
LEMMA RequestedCurrent ==
  ASSUME TypeOK, NEW g \in Waiting, Current(g)
  PROVE  /\ phase[g] \in {"Ready", "Stepping"}
         /\ Requested(g).ids = EpisodeIds(g)
         /\ RowsCurrent(g, Requested(g).rows)
<1>1. g \in Groups /\ phase[g] \in {"Ready", "Stepping", "Resetting", "Idle"}
  BY DEF Waiting, TypeOK, ControlType
<1>2. CASE predict[g] = "wanted"
  BY <1>1, <1>2 DEF Current, Requested
<1>3. CASE predict[g] # "wanted"
  <2>1. Prefetches(g) /\ Requested(g) = LatestRequest(g)
    BY <1>3 DEF Waiting, Requested
  <2>2. /\ phase[g] = "Ready" /\ obs[g].ids = EpisodeIds(g) /\ RowsCurrent(g, history[g])
        /\ History => history[g] # <<>>
    BY <2>1 DEF Prefetches, CanStep, HasLatest, Current
  <2>3. history[g] \in Seq(Observation(g))
    BY <1>1 DEF TypeOK, DataType
  <2>4. History => \A i \in DOMAIN EarlierRows(g) :
                     i \in DOMAIN history[g] /\ EarlierRows(g)[i] = history[g][i]
    BY <2>2, <2>3 DEF EarlierRows
  <2>5. /\ Requested(g).ids = obs[g].ids
        /\ Requested(g).rows = IF History THEN EarlierRows(g) ELSE <<>>
    BY <2>1 DEF LatestRequest
  <2>6. QED
    BY <2>2, <2>4, <2>5 DEF RowsCurrent
<1>4. QED
  BY <1>2, <1>3

(* A turn sends only ids of episodes that have not ended.                  *)
LEMMA TurnCurrent ==
  ASSUME LifecycleInv, NEW S \in Plans, Turn(S)
  PROVE  PlansCurrent' /\ NoPredictAfterEnd'
<1> DEFINE sent == UNION {MessageIds(Requested(g)) : g \in S}
<1>1. /\ pc = "turn" /\ pc' \in {"select", "drain"} /\ obs' = obs
      /\ ended' = ended \cup Flushing
      /\ open' = (open \ Flushing) \cup sent
      /\ \A g \in Groups :
           /\ phase'[g] = IF CanStep(g) THEN "Stepping" ELSE phase[g]
           /\ predict'[g] = "wanted" =>
                \/ g \in Waiting \ S
                \/ g \notin S /\ g \notin Waiting /\ predict[g] = "wanted"
           /\ g \in Waiting \ S => request'[g] = Requested(g)
           /\ history'[g] \in {<<>>, history[g]}
           /\ ~CanStep(g) => history'[g] = history[g]
  <2>1. /\ pc = "turn" /\ pc' \in {"select", "drain"} /\ obs' = obs
        /\ ended' = ended \cup Flushing
        /\ open' = (open \ Flushing) \cup sent
    BY DEF Turn
  <2>2. ASSUME NEW g \in Groups
        PROVE  /\ phase'[g] = IF CanStep(g) THEN "Stepping" ELSE phase[g]
               /\ g \in Waiting \ S => request'[g] = Requested(g)
               /\ history'[g] = IF Prefetches(g) /\ History THEN <<>> ELSE history[g]
               /\ predict'[g] = CASE g \in S -> "inflight"
                                  [] g \in Waiting \ S -> "wanted"
                                  [] CanStep(g) /\ g \notin Waiting -> PredictAfterPop(g)
                                  [] OTHER -> predict[g]
    BY DEF Turn
  <2>3. ASSUME NEW g \in Groups, predict'[g] = "wanted"
        PROVE  \/ g \in Waiting \ S
               \/ g \notin S /\ g \notin Waiting /\ predict[g] = "wanted"
    <3>1. S \subseteq Waiting
      BY PlanFacts
    <3>2. QED
      BY <2>2, <2>3, <3>1 DEF PredictAfterPop
  <2>4. \A g \in Groups : Prefetches(g) => CanStep(g)
    BY DEF Prefetches
  <2>5. QED
    BY <2>1, <2>2, <2>3, <2>4
<1>2. \A l \in Lanes : episode'[l].id = episode[l].id /\ episode'[l].ended = episode[l].ended
  <2>1. \A l \in Lanes : /\ [episode[l] EXCEPT !.predicted = TRUE].id = episode[l].id
                         /\ [episode[l] EXCEPT !.predicted = TRUE].ended = episode[l].ended
    BY DEF LifecycleInv, EvictionInv, TypeOK, SlotType, Episode
  <2>2. \A l \in Lanes : episode'[l] \in {episode[l], [episode[l] EXCEPT !.predicted = TRUE]}
    BY DEF Turn
  <2>3. QED
    BY <2>1, <2>2
<1>3. S \subseteq Waiting /\ S \subseteq Groups /\ Waiting \subseteq Groups
  BY PlanFacts DEF Waiting
<1>4. \A g \in Groups : Current(g)
  BY <1>1 DEF LifecycleInv, PlansCurrent
<1>5. \A g \in Waiting : /\ phase[g] \in {"Ready", "Stepping"}
                         /\ Requested(g).ids = EpisodeIds(g)
                         /\ RowsCurrent(g, Requested(g).rows)
  BY <1>3, <1>4, RequestedCurrent DEF LifecycleInv, EvictionInv
<1>6. ASSUME NEW g \in Groups
      PROVE  Current(g)'
  <2>1. EpisodeIds(g)' = EpisodeIds(g)
    BY <1>2, GroupFacts DEF EpisodeIds
  <2>2. predict[g] = "wanted" => g \in Waiting
    BY DEF Waiting
  <2>3. predict'[g] = "wanted" => /\ request'[g] = Requested(g) /\ g \in Waiting
    BY <1>1, <2>2
  <2>4. CanStep(g) => phase[g] = "Ready"
    BY DEF CanStep
  <2>5. phase'[g] \in {"Ready", "Stepping"} => phase[g] \in {"Ready", "Stepping"}
    BY <1>1, <2>4
  <2>6. phase'[g] \notin {"Ready", "Stepping"} =>
          phase'[g] = phase[g] /\ history'[g] = history[g] /\ g \notin Waiting
    BY <1>1, <1>5
  <2>7. \A l \in g : episode'[l].ended = episode[l].ended
    BY <1>2, GroupFacts
  <2>8. RowsCurrent(g, history[g]) => \A i \in DOMAIN history'[g] : history'[g][i].ids = EpisodeIds(g)
    BY <1>1 DEF RowsCurrent
  <2>9. phase'[g] \in {"Ready", "Stepping"} =>
          /\ \A l \in g : ~episode'[l].ended
          /\ obs'[g].ids = EpisodeIds(g)'
          /\ RowsCurrent(g, history[g])'
    BY <1>1, <1>4, <2>1, <2>5, <2>7, <2>8 DEF Current, RowsCurrent
  <2>10. predict'[g] = "wanted" => /\ request'[g].ids = EpisodeIds(g)'
                                   /\ RowsCurrent(g, request[g].rows)'
    BY <1>5, <2>1, <2>3 DEF RowsCurrent
  <2>11. /\ phase'[g] = "Resetting" => history'[g] = <<>> /\ predict'[g] # "wanted"
         /\ phase'[g] = "Idle" => predict'[g] # "wanted"
    BY <1>4, <2>3, <2>6 DEF Current
  <2>12. QED
    BY <2>9, <2>10, <2>11 DEF Current
<1>7. sent \cap Queued = {}
  <2>1. ASSUME NEW g \in S, NEW x \in MessageIds(Requested(g))
        PROVE  \E l \in g : x = episode[l].id
    <3>1. Ids(EpisodeIds(g)) = {episode[l].id : l \in g}
      BY DEF Ids, EpisodeIds
    <3>2. \A i \in DOMAIN Requested(g).rows : Requested(g).rows[i].ids = EpisodeIds(g)
      BY <1>3, <1>5 DEF RowsCurrent
    <3>3. Requested(g).ids = EpisodeIds(g)
      BY <1>3, <1>5
    <3>4. QED
      BY <2>1, <3>1, <3>2, <3>3 DEF MessageIds
  <2>2. \A g \in S : \A l \in g : l \in Lanes /\ ~episode[l].ended
    BY <1>3, <1>4, <1>5, GroupFacts DEF Current
  <2>3. QED
    BY <2>1, <2>2 DEF LifecycleInv, EvictionInv, EndsKnown
<1>8. Flushing \subseteq Queued /\ ended \subseteq Queued
  BY DEF Flushing, Queued
<1> HIDE DEF sent
<1>9. NoPredictAfterEnd'
  BY <1>1, <1>7, <1>8 DEF LifecycleInv, NoPredictAfterEnd
<1>10. QED
  BY <1>1, <1>6, <1>9 DEF PlansCurrent

(* An outcome sends the model nothing.                                     *)
LEMMA OutcomeFrame ==
  ASSUME Outcome
  PROVE  UNCHANGED <<open, ended>>
<1>1. ASSUME NEW g \in Groups, NEW fails \in BOOLEAN, OnReset(g, fails)
      PROVE  UNCHANGED <<open, ended>>
  BY <1>1 DEF OnReset, modelVars
<1>2. ASSUME NEW g \in Groups, NEW reported \in EnvReports(g), NEW late \in Late(g),
             NEW fails \in BOOLEAN, OnStep(g, reported, late, fails)
      PROVE  UNCHANGED <<open, ended>>
  BY <1>2 DEF OnStep
<1>3. ASSUME NEW p \in predicts, NEW n \in [DOMAIN p -> 1 .. MaxChunk], OnPredict(p, n)
      PROVE  UNCHANGED <<open, ended>>
  BY <1>3 DEF OnPredict
<1>4. QED
  BY <1>1, <1>2, <1>3 DEF Outcome

(* With driver-owned resets every step keeps the invariant.                *)
LEMMA LifecycleStep ==
  ASSUME LaneCounts, DriverOwned, LifecycleInv, [Next]_vars
  PROVE  LifecycleInv'
<1>1. EvictionInv'
  BY EvictionStep DEF LifecycleInv
<1>2. CASE Start
  <2>1. /\ \A g \in Groups : history'[g] = history[g] /\ predict'[g] = predict[g]
        /\ \A g \in Groups : phase'[g] \in {"Resetting", "Idle"}
        /\ pc = "start" /\ pc' = "turn" /\ UNCHANGED <<open, ended, pendingRoll>>
    BY <1>2 DEF Start, modelVars
  <2>2. PlansCurrent'
    BY <2>1 DEF LifecycleInv, PlansCurrent, Current
  <2>3. QED
    BY <1>1, <2>1, <2>2 DEF LifecycleInv, NoRolls, NoPredictAfterEnd
<1>3. CASE \E S \in Plans : Turn(S)
  <2>1. pendingRoll' = pendingRoll
    BY <1>3 DEF Turn
  <2>2. QED
    BY <1>1, <1>3, <2>1, TurnCurrent DEF LifecycleInv, NoRolls
<1>4. CASE Outcome
  <2>1. ASSUME NEW g \in Groups, NEW fails \in BOOLEAN, OnReset(g, fails)
        PROVE  LifecycleInv'
    <3>1. pendingRoll' = pendingRoll
      BY <2>1 DEF OnReset
    <3>2. QED
      BY <1>1, <1>4, <2>1, <3>1, OutcomeFrame, OnResetCurrent DEF LifecycleInv, NoRolls, NoPredictAfterEnd
  <2>2. ASSUME NEW g \in Groups, NEW reported \in EnvReports(g), NEW late \in Late(g),
               NEW fails \in BOOLEAN, OnStep(g, reported, late, fails)
        PROVE  LifecycleInv'
    BY <1>1, <1>4, <2>2, OutcomeFrame, OnStepCurrent DEF LifecycleInv, NoPredictAfterEnd
  <2>3. ASSUME NEW p \in predicts, NEW n \in [DOMAIN p -> 1 .. MaxChunk], OnPredict(p, n)
        PROVE  LifecycleInv'
    <3>1. pendingRoll' = pendingRoll
      BY <2>3 DEF OnPredict
    <3>2. QED
      BY <1>1, <1>4, <2>3, <3>1, OutcomeFrame, OnPredictCurrent DEF LifecycleInv, NoRolls, NoPredictAfterEnd
  <2>4. QED
    BY <1>4, <2>1, <2>2, <2>3 DEF Outcome
<1>5. CASE Complete \/ Teardown \/ Failure
  <2>1. pc' \in {"drain", "done"} /\ pendingRoll' = pendingRoll
    BY <1>5 DEF Complete, Teardown, Failure, EnvOpFails, PredictFails, TurnFails, Cancel, Abandon,
                groupVars
  <2>2. NoPredictAfterEnd'
    BY <1>5 DEF LifecycleInv, NoPredictAfterEnd, Complete, Teardown, Failure, EnvOpFails,
                PredictFails, TurnFails, Cancel, Abandon, modelVars
  <2>3. QED
    BY <1>1, <2>1, <2>2 DEF LifecycleInv, PlansCurrent, NoRolls
<1>6. CASE Done \/ UNCHANGED vars
  <2>1. /\ UNCHANGED <<pc, phase, predict, request, obs, history, episode, pendingRoll>>
        /\ UNCHANGED <<open, ended>>
    BY <1>6 DEF Done, vars, groupVars, slotVars, modelVars
  <2>2. NoRolls' /\ NoPredictAfterEnd'
    BY <2>1 DEF LifecycleInv, NoRolls, NoPredictAfterEnd
  <2>3. \A g \in Groups : Current(g) => Current(g)'
    BY <2>1 DEF Current, EpisodeIds, RowsCurrent
  <2>4. PlansCurrent'
    <3>1. PlansCurrent
      BY DEF LifecycleInv
    <3>2. QED
      BY <2>1, <2>3, <3>1 DEF PlansCurrent
  <2>5. QED
    BY <1>1, <2>2, <2>4 DEF LifecycleInv
<1>7. QED
  BY <1>2, <1>3, <1>4, <1>5, <1>6 DEF Next
=============================================================================
