----------------------------- MODULE RouteDriver -----------------------------
(***************************************************************************)
(* The route driver of rlmesh-runtime (driver.rs, state/route.rs): one     *)
(* task that drives reset -> predict -> step for the lane groups of a      *)
(* route until its episode budget is spent.  Env operations and predicts   *)
(* run concurrently; the task applies their outcomes one at a time, in     *)
(* whatever order they land, and between two outcomes takes a loop turn    *)
(* that flushes evictions and puts the next operations in flight.          *)
(*                                                                         *)
(* A group is the set of its lanes.  Episode ids are the naturals the      *)
(* mint counter hands out (0 is "no id").  An observation is the ids its   *)
(* lanes held plus the group's step counter; an action chunk is how many   *)
(* frames it still holds plus the ids of the observation it was planned    *)
(* from, which all its frames share.                                       *)
(***************************************************************************)
EXTENDS Integers, FiniteSets, Sequences

CONSTANTS
  NumEnvs,       \* lanes of the route, 1 .. NumEnvs
  SubsetStep,    \* the env steps lanes individually (subset_step)
  DriverOwned,   \* the driver restarts lanes; FALSE: NEXT_STEP autoreset
  MaxEpisodes,   \* the episode budget max_episodes
  StepCap,       \* max_episode_steps, or the edition's default cap
  TimeCap,       \* max_episode_seconds is configured
  MaxChunk,      \* frames a predict may answer with: 1 .. MaxChunk
  Lead,          \* prefetch_lead
  Fuses,         \* the model takes grouped predicts, one in flight
  Eager,         \* EagerScheduler; FALSE: any PredictScheduler
  History,       \* the model wants observation history
  HistoryCap,    \* HISTORY_BACKLOG_CAP
  Horizon        \* bound: a NEXT_STEP env ends an episode by this step

Lanes == 1 .. NumEnvs

LaneGroup == SubsetStep /\ NumEnvs > 1

Groups == IF LaneGroup THEN {{l} : l \in Lanes} ELSE {Lanes}

(* RuntimeSessionSpec::validate: positive sizes, and a lockstep vector     *)
(* needs an env that rolls its own lanes.                                  *)
ASSUME Validated ==
  /\ NumEnvs \in Nat \ {0}
  /\ MaxEpisodes \in Nat \ {0}
  /\ {StepCap, MaxChunk, Horizon} \subseteq Nat \ {0}
  /\ {Lead, HistoryCap} \subseteq Nat
  /\ {SubsetStep, DriverOwned, TimeCap, Fuses, Eager, History} \subseteq BOOLEAN
  /\ NumEnvs > 1 /\ ~SubsetStep => ~DriverOwned

VARIABLES
  pc,            \* "start", then "turn" and "select" by turns, "drain", "done"
  result,        \* "none" while running, then "ok" or "err"
  \* per group
  phase,         \* EnvPhase; an env op is in flight iff Stepping or Resetting
  predict,       \* PredictState: none, wanted, inflight, stale, ready
  request,       \* the message of a wanted predict
  chunk,         \* the frames of a ready one
  replay,        \* the chunk being played
  obs,           \* obs_msg
  history,       \* observation rows since the last predict
  steps,         \* the step counter stamped on history rows
  pendingRoll,   \* per lane: the id minted for its autoreset roll, or NoId
  pendingDone,   \* ids whose episode_completed event waits for the roll
  pendingStart,  \* per lane: the episode its reset in flight starts
  acting,        \* the ids the frame of the step in flight was planned from
  \* RouteState
  episode,       \* per lane: the episode its slot holds
  laneStep,      \* per lane: the slot's step count
  minted,        \* ids minted so far
  nextSlot,      \* episode slots claimed so far
  trialCursor,   \* trial ordinals claimed so far
  surplus,       \* ids of episodes past the budget
  total,         \* total_episodes
  summaries,     \* the episode summaries of the report
  closed,        \* ids whose episode_completed event went out
  \* towards the model
  predicts,      \* predicts in flight: functions from groups to messages
  pendingEv,     \* pending_evictions
  heldEv,        \* held_evictions
  open,          \* ids predicted on whose end was not sent
  ended,         \* ids whose end was sent, or whose send was given up on
  heard          \* per lane: the last observation delivered on a history route

groupVars == <<phase, predict, request, chunk, replay, obs, history, steps,
               pendingRoll, pendingDone, pendingStart, acting>>
slotVars  == <<episode, laneStep, minted, nextSlot, trialCursor, surplus>>
scoreVars == <<total, summaries, closed>>
modelVars == <<predicts, pendingEv, heldEv, open, ended, heard>>
vars == <<pc, result, groupVars, slotVars, scoreVars, modelVars>>

NoId == 0
StaleId == -1    \* external: an id no lane holds any more
NoIds == [l \in {} |-> NoId]

(* An episode the model has not predicted on; index 0 is surplus.          *)
NewEpisode(id, index, trial) ==
  [id |-> id, index |-> index, trial |-> trial, predicted |-> FALSE, ended |-> FALSE]
NoEpisode == NewEpisode(NoId, 0, 0)
NoFrames == [left |-> 0, ids |-> NoIds]
NoRow == [id |-> NoId, step |-> -1]
NoObs == [ids |-> NoIds, step |-> -1]
NoRequest == [ids |-> NoIds, step |-> -1, rows |-> <<>>]

Smaller(a, b) == IF a < b THEN a ELSE b
Ids(f) == {f[l] : l \in DOMAIN f}

(* The message's ids, its own and its history rows'. *)
MessageIds(msg) ==
  Ids(msg.ids) \cup UNION {Ids(msg.rows[i].ids) : i \in DOMAIN msg.rows}

Busy(g) == phase[g] \in {"Stepping", "Resetting"}
InFlight(g) == predict[g] \in {"inflight", "stale"}
HeldIds == {h[2] : h \in heldEv}

Init ==
  /\ pc = "start"
  /\ result = "none"
  /\ phase = [g \in Groups |-> "Ready"]
  /\ predict = [g \in Groups |-> "none"]
  /\ request = [g \in Groups |-> NoRequest]
  /\ chunk = [g \in Groups |-> NoFrames]
  /\ replay = [g \in Groups |-> NoFrames]
  /\ obs = [g \in Groups |-> NoObs]
  /\ history = [g \in Groups |-> <<>>]
  /\ steps = [g \in Groups |-> 0]
  /\ pendingRoll = [l \in Lanes |-> NoId]
  /\ pendingDone = [g \in Groups |-> {}]
  /\ pendingStart = [l \in Lanes |-> NoEpisode]
  /\ acting = [g \in Groups |-> NoIds]
  /\ episode = [l \in Lanes |-> NoEpisode]
  /\ laneStep = [l \in Lanes |-> 0]
  /\ minted = 0
  /\ nextSlot = 0
  /\ trialCursor = 0
  /\ surplus = {}
  /\ total = 0
  /\ summaries = {}
  /\ closed = {}
  /\ predicts = {}
  /\ pendingEv = {}
  /\ heldEv = {}
  /\ open = {}
  /\ ended = {}
  /\ heard = [l \in Lanes |-> NoRow]

-----------------------------------------------------------------------------
(* Episode slots and resets.                                               *)

(* The episode a reset stages for a lane, with `mint` ids minted, `slot`   *)
(* slots and `cursor` trial ordinals claimed before it: a fresh id, the    *)
(* slot as its index (0, surplus, past the budget) and its ordinal.        *)
StagedFromZero(mint, slot, cursor) ==    \* faulty
  NewEpisode(mint + 1,
             IF slot < MaxEpisodes THEN slot ELSE 0,
             IF DriverOwned THEN cursor ELSE -1)

Staged(mint, slot, cursor) ==
  NewEpisode(mint + 1,
             IF slot < MaxEpisodes THEN slot + 1 ELSE 0,
             IF DriverOwned THEN cursor ELSE -1)

(* run_loop's preamble: begin_reset(initial) for every group, in order, so *)
(* lane l is the l-th to be staged.  A lane group past the budget goes     *)
(* idle (claim_slots); a vector's lanes past it start surplus              *)
(* (claim_slots_upto).                                                     *)
StartingLanes == IF LaneGroup THEN 1 .. Smaller(NumEnvs, MaxEpisodes) ELSE Lanes

Start ==
  /\ pc = "start"
  /\ pendingStart' = [l \in Lanes |->
       IF l \in StartingLanes THEN Staged(l - 1, l - 1, l - 1) ELSE NoEpisode]
  /\ phase' = [g \in Groups |-> IF g \subseteq StartingLanes THEN "Resetting" ELSE "Idle"]
  /\ nextSlot' = Smaller(NumEnvs, MaxEpisodes)
  /\ minted' = IF LaneGroup THEN Smaller(NumEnvs, MaxEpisodes) ELSE NumEnvs
  /\ trialCursor' = IF DriverOwned THEN minted' ELSE 0
  /\ surplus' = {l \in StartingLanes : l > MaxEpisodes}
  /\ pc' = "turn"
  /\ UNCHANGED <<result, predict, request, chunk, replay, obs, history, steps,
                 pendingRoll, pendingDone, acting, episode, laneStep,
                 scoreVars, modelVars>>

-----------------------------------------------------------------------------
(* The model side of a group.                                              *)

(* latest_request: what a re-plan from the latest observation would send,  *)
(* if that observation has not left the group yet.                         *)
HasObserved(g) == obs[g] # NoObs    \* faulty: it may have left already

HasLatest(g) ==
  /\ obs[g] # NoObs
  /\ History => history[g] # <<>> /\ history[g][Len(history[g])].step = obs[g].step

(* The rows before that last one, which go out as the backlog.             *)
EarlierRows(g) == SubSeq(history[g], 1, Len(history[g]) - 1)

LatestRequestAlone(g) ==    \* faulty: the backlog is dropped
  [ids |-> obs[g].ids, step |-> obs[g].step, rows |-> <<>>]

LatestRequest(g) ==
  [ids |-> obs[g].ids, step |-> obs[g].step,
   rows |-> IF History THEN EarlierRows(g) ELSE <<>>]

(* observe: hand group g the observation of `ids`; it re-plans now if no   *)
(* frame covers the next step, and is buffered as a history row otherwise. *)
(* `fails`: the observation transform refuses it, which ends the route.    *)
Observe(g, ids, stp, rep, pred, fails) ==
  LET seen == [ids |-> ids, step |-> IF History THEN stp ELSE 0]
      replans == rep.left = 0 /\ pred = "none"
      overflow == History /\ ~replans /\ Len(history[g]) >= HistoryCap
  IN IF fails \/ overflow
     THEN /\ pc' = "drain"
          /\ result' = "err"
          /\ phase' = [phase EXCEPT ![g] = "Ready"]
          /\ predict' = [predict EXCEPT ![g] = pred]
          /\ request' = [request EXCEPT ![g] = IF pred = "wanted" THEN @ ELSE NoRequest]
          /\ UNCHANGED <<obs, history>>
     ELSE /\ pc' = "turn"
          /\ phase' = [phase EXCEPT ![g] = "Ready"]
          /\ obs' = [obs EXCEPT ![g] = seen]
          /\ history' = [history EXCEPT ![g] =
               IF ~History \/ replans THEN <<>> ELSE Append(@, seen)]
          /\ predict' = [predict EXCEPT ![g] = IF replans THEN "wanted" ELSE pred]
          /\ request' = [request EXCEPT ![g] =
               IF replans
               THEN [ids |-> ids, step |-> seen.step, rows |-> history[g]]
               ELSE IF pred = "wanted" THEN @ ELSE NoRequest]
          /\ UNCHANGED result

-----------------------------------------------------------------------------
(* Outcomes of env operations.                                             *)

(* A reset landed: its lanes' slots move to the staged episodes            *)
(* (start_episodes_at, sync_slots) and the group observes.                 *)
OnReset(g, fails) ==
  /\ pc = "select"
  /\ phase[g] = "Resetting"
  /\ episode' = [l \in Lanes |-> IF l \in g THEN pendingStart[l] ELSE episode[l]]
  /\ laneStep' = [l \in Lanes |-> IF l \in g THEN 0 ELSE laneStep[l]]
  /\ surplus' = surplus \ {episode[l].id : l \in g}
  /\ pendingStart' = [l \in Lanes |-> IF l \in g THEN NoEpisode ELSE pendingStart[l]]
  /\ Observe(g, [l \in g |-> pendingStart[l].id], steps[g], replay[g], predict[g], fails)
  /\ UNCHANGED <<chunk, replay, steps, pendingRoll, pendingDone, acting,
                 minted, nextSlot, trialCursor, scoreVars, modelVars>>

(* Faulty: the id an echo names is not looked at.                          *)
EchoedUnderAnyId(reported) == {r.lane : r \in reported}

(* The completions a step applies: the reports that name the id the lane's *)
(* slot holds (a report past that id is a stale echo and is dropped), plus *)
(* the group's own lanes at the step or time cap (capped_completions).     *)
Echoed(reported) == {r.lane : r \in {q \in reported : episode[q.lane].id = q.id}}

Capped(g, late) ==
  {l \in g : DriverOwned /\ (laneStep[l] + 1 >= StepCap \/ l \in late)}

Finished(g, reported, late) == Echoed(reported) \cup Capped(g, late)

Position(S, l) == Cardinality({k \in S : k < l})

(* NEXT_STEP: the lanes the env rolled in this step, each on a fresh slot  *)
(* while the budget lasts and surplus past it.                             *)
Rolling(g) == {l \in g : pendingRoll[l] # NoId}

(* Faulty: the first rolled lane shares the last claimed slot.             *)
RolledOnSharedSlot(g, l) ==
  LET index == nextSlot + Position(Rolling(g), l) IN
  NewEpisode(pendingRoll[l], IF index <= MaxEpisodes THEN index ELSE 0, -1)

RolledEpisode(g, l) ==
  LET index == nextSlot + Position(Rolling(g), l) + 1 IN
  NewEpisode(pendingRoll[l], IF index <= MaxEpisodes THEN index ELSE 0, -1)

RolledEpisodes(g) ==
  [l \in Lanes |-> IF l \in Rolling(g) THEN RolledEpisode(g, l) ELSE episode[l]]

RolledSurplus(g) ==
  (surplus \cup {pendingRoll[l] : l \in {k \in Rolling(g) : RolledEpisode(g, k).index = 0}})
    \ {episode[l].id : l \in Rolling(g)}

(* queue_evictions: each id is ended on its slot once, and its eviction is *)
(* held while the group has a predict in flight.                           *)
EndIds(eps, S) == {eps[l].id : l \in {k \in S : eps[k].id # NoId /\ ~eps[k].ended}}

(* Faulty: the slot does not remember that its id was ended.               *)
EndedUnmarked(eps, S) == eps

EndEpisodes(eps, S) ==
  [l \in Lanes |-> IF l \in S THEN [eps[l] EXCEPT !.ended = TRUE] ELSE eps[l]]

(* Faulty: a held eviction is queued as well.                              *)
QueuedAndHeld(g, ids) ==
  /\ heldEv' = IF InFlight(g) THEN heldEv \cup ({g} \X ids) ELSE heldEv
  /\ pendingEv' = pendingEv \cup ids

QueueEvictions(g, ids) ==
  IF InFlight(g)
  THEN heldEv' = heldEv \cup ({g} \X ids) /\ UNCHANGED pendingEv
  ELSE pendingEv' = pendingEv \cup ids /\ UNCHANGED heldEv

(* Under NEXT_STEP an ended id is observed and stepped once more, so its   *)
(* completion event and its eviction wait for the roll; not when the group *)
(* stops.                                                                  *)
DefersNothing(stops) == FALSE    \* faulty

Defers(stops) == ~DriverOwned /\ ~stops

(* complete_episodes: the completed lanes that score.                      *)
ScoringSurplus(g, finished) == finished    \* faulty: surplus counts

Scoring(g, finished) == {l \in finished : episode[l].id \notin RolledSurplus(g)}

Summary(l) == [id |-> episode[l].id, index |-> episode[l].index, trial |-> episode[l].trial]

(* Nothing scored is left for the group: the budget is spent, or every     *)
(* lane it holds is surplus.                                               *)
Stops(g, count) ==
  \/ (~LaneGroup \/ ~DriverOwned) /\ count >= MaxEpisodes
  \/ \A l \in g : RolledEpisodes(g)[l].id \in RolledSurplus(g)

(* begin_reset for a group whose episode the driver restarts: always one   *)
(* lane (see Validated), which goes idle once the budget is claimed.       *)
Restart(g) ==
  IF nextSlot = MaxEpisodes
  THEN /\ phase' = [phase EXCEPT ![g] = "Idle"]
       /\ predict' = [predict EXCEPT ![g] = "none"]
       /\ UNCHANGED <<pendingStart, minted, nextSlot, trialCursor, history>>
  ELSE /\ phase' = [phase EXCEPT ![g] = "Resetting"]
       /\ predict' = [predict EXCEPT ![g] = IF InFlight(g) THEN "stale" ELSE "none"]
       /\ pendingStart' = [l \in Lanes |->
            IF l \in g THEN Staged(minted, nextSlot, trialCursor) ELSE pendingStart[l]]
       /\ minted' = minted + 1
       /\ nextSlot' = nextSlot + 1
       /\ trialCursor' = trialCursor + 1
       /\ history' = [history EXCEPT ![g] = <<>>]

(* The frames left to play after a step: none once an episode finished.    *)
FlushedNothing(g, finished) == replay[g]    \* faulty

Flushed(g, finished) == IF finished # {} THEN NoFrames ELSE replay[g]

(* on_step: account the step, roll the lanes the env autoreset, complete   *)
(* the finished episodes, drop what was planned for them, then stop,       *)
(* restart or observe.                                                     *)
OnStep(g, reported, late, fails) ==
  LET finished == Finished(g, reported, late)
      rolling == Rolling(g)
      rolled == RolledEpisodes(g)
      scoring == Scoring(g, finished)
      scored == {episode[l].id : l \in scoring}
      count == total + Cardinality(scoring)
      stops == Stops(g, count)
      restarts == DriverOwned /\ finished # {} /\ ~stops
      defers == Defers(stops)
      ending == IF defers THEN {} ELSE finished
      minting == IF DriverOwned THEN {} ELSE finished
      held == IF rolling # {} THEN {} ELSE pendingDone[g]
      flushed == Flushed(g, finished)
      pred == CASE finished = {} -> predict[g]
                [] finished # {} /\ InFlight(g) -> "stale"
                [] OTHER -> "none"
      stp == IF History THEN steps[g] + 1 ELSE 0
  IN
  /\ pc = "select"
  /\ phase[g] = "Stepping"
  /\ steps' = [steps EXCEPT ![g] = stp]
  /\ laneStep' = [l \in Lanes |-> CASE l \in rolling -> 0
                                    [] l \in g \ rolling -> laneStep[l] + 1
                                    [] OTHER -> laneStep[l]]
  /\ acting' = [acting EXCEPT ![g] = NoIds]
  /\ replay' = [replay EXCEPT ![g] = flushed]
  /\ chunk' = [chunk EXCEPT ![g] = IF finished # {} THEN NoFrames ELSE @]
  /\ episode' = EndEpisodes(rolled, ending)
  /\ QueueEvictions(g, EndIds(episode, rolling) \cup EndIds(rolled, ending))
  /\ surplus' = RolledSurplus(g)
  /\ total' = count
  /\ summaries' = summaries \cup {Summary(l) : l \in scoring}
  /\ closed' = closed \cup (pendingDone[g] \ held)
                      \cup (IF defers THEN {} ELSE held \cup scored)
  /\ pendingDone' = [pendingDone EXCEPT ![g] =
                       IF defers THEN held \cup scored ELSE {}]
  /\ pendingRoll' = [l \in Lanes |->
       CASE l \in minting /\ ~stops -> minted + Position(minting, l) + 1
         [] l \in g /\ (l \notin minting \/ stops) -> NoId
         [] OTHER -> pendingRoll[l]]
  /\ \/ /\ stops
        /\ phase' = [phase EXCEPT ![g] = "Idle"]
        /\ predict' = [predict EXCEPT ![g] = "none"]
        /\ request' = [request EXCEPT ![g] = NoRequest]
        /\ minted' = minted + Cardinality(minting)
        /\ nextSlot' = Smaller(nextSlot + Cardinality(rolling), MaxEpisodes)
        /\ pc' = "turn"
        /\ UNCHANGED <<result, obs, history, pendingStart, trialCursor>>
     \/ /\ restarts
        /\ Restart(g)
        /\ request' = [request EXCEPT ![g] = NoRequest]
        /\ pc' = "turn"
        /\ UNCHANGED <<result, obs>>
     \/ /\ ~stops /\ ~restarts
        /\ minted' = minted + Cardinality(minting)
        /\ nextSlot' = Smaller(nextSlot + Cardinality(rolling), MaxEpisodes)
        /\ Observe(g, [l \in g |-> rolled[l].id], stp, flushed, pred, fails)
        /\ UNCHANGED <<pendingStart, trialCursor>>
  /\ UNCHANGED <<predicts, open, ended, heard>>

(* A reset or step that errs, times out or panics ends the route.          *)
EnvOpFails(g) ==
  /\ pc = "select"
  /\ Busy(g)
  /\ pc' = "drain"
  /\ result' = "err"
  /\ UNCHANGED <<groupVars, slotVars, scoreVars, modelVars>>

-----------------------------------------------------------------------------
(* A loop turn: flush evictions, dispatch steps, dispatch predicts.        *)

(* flush_evictions, only while no predict is in flight; best effort, so an *)
(* abandoned flush drops its ids like a delivered one.                     *)
Flushing == IF predicts = {} THEN pendingEv ELSE {}

CanStepUnplanned(g) == phase[g] = "Ready"    \* faulty

CanStep(g) == phase[g] = "Ready" /\ (replay[g].left > 0 \/ predict[g] = "ready")
Stepped == {g \in Groups : CanStep(g)}

(* The chunk a dispatched step pops its frame from. *)
Playing(g) == IF replay[g].left > 0 THEN replay[g] ELSE chunk[g]
AfterPop(g) == [Playing(g) EXCEPT !.left = @ - 1]
PredictAfterPop(g) == IF replay[g].left = 0 THEN "none" ELSE predict[g]

(* Async inference: with Lead frames or fewer left and nothing asked for,  *)
(* ask for the next chunk from the latest observation.                     *)
Prefetches(g) ==
  /\ CanStep(g)
  /\ Lead > 0
  /\ AfterPop(g).left <= Lead
  /\ PredictAfterPop(g) = "none"
  /\ HasLatest(g)

Waiting == {g \in Groups : predict[g] = "wanted" \/ Prefetches(g)}
Requested(g) == IF predict[g] = "wanted" THEN request[g] ELSE LatestRequest(g)

(* The scheduler's plan: any subset of the waiting groups, forced to all   *)
(* of them when nothing else is in flight; a model that fuses predicts     *)
(* takes one grouped predict at a time.                                    *)
Idling == Stepped = {} /\ (\A g \in Groups : ~Busy(g)) /\ predicts = {}

Plans ==
  IF Fuses /\ predicts # {} THEN {{}}
  ELSE IF Eager THEN {Waiting}
  ELSE {S \in SUBSET Waiting : Idling => S # {}} \cup (IF Waiting = {} THEN {{}} ELSE {})

Launched(S) ==
  IF S = {} THEN {}
  ELSE IF Fuses THEN {[g \in S |-> Requested(g)]}
  ELSE {[h \in {g} |-> Requested(h)] : g \in S}

Turn(S) ==
  LET sent == UNION {MessageIds(Requested(g)) : g \in S} IN
  /\ pc = "turn"
  /\ ~ (predicts = {} /\ \A g \in Groups : phase[g] = "Idle")
  /\ pendingEv' = pendingEv \ Flushing
  /\ ended' = ended \cup Flushing
  /\ open' = (open \ Flushing) \cup sent
  /\ heard' = [l \in Lanes |->
       IF History /\ l \in UNION S
       THEN LET g == CHOOSE h \in S : l \in h IN
            [id |-> Requested(g).ids[l], step |-> Requested(g).step]
       ELSE heard[l]]
  /\ phase' = [g \in Groups |-> IF CanStep(g) THEN "Stepping" ELSE phase[g]]
  /\ replay' = [g \in Groups |->
       CASE ~CanStep(g) -> replay[g]
         [] CanStep(g) /\ AfterPop(g).left = 0 -> NoFrames
         [] OTHER -> AfterPop(g)]
  /\ chunk' = [g \in Groups |->
       IF CanStep(g) /\ replay[g].left = 0 THEN NoFrames ELSE chunk[g]]
  /\ acting' = [g \in Groups |-> IF CanStep(g) THEN Playing(g).ids ELSE acting[g]]
  /\ predict' = [g \in Groups |->
       CASE g \in S -> "inflight"
         [] g \in Waiting \ S -> "wanted"
         [] CanStep(g) /\ g \notin Waiting -> PredictAfterPop(g)
         [] OTHER -> predict[g]]
  /\ request' = [g \in Groups |->
       CASE g \in S -> NoRequest
         [] g \in Waiting \ S -> Requested(g)
         [] OTHER -> request[g]]
  /\ history' = [g \in Groups |-> IF Prefetches(g) /\ History THEN <<>> ELSE history[g]]
  /\ predicts' = predicts \cup Launched(S)
  /\ episode' = [l \in Lanes |->
       IF l \in UNION S THEN [episode[l] EXCEPT !.predicted = TRUE] ELSE episode[l]]
  /\ IF (\A g \in Groups : ~Busy(g)) /\ Stepped = {} /\ predicts = {} /\ S = {}
     THEN pc' = "drain" /\ result' = "stalled"
     ELSE pc' = "select" /\ UNCHANGED result
  /\ UNCHANGED <<obs, steps, pendingRoll, pendingDone, pendingStart, laneStep, minted,
                 nextSlot, trialCursor, surplus, scoreVars, heldEv>>

(* The action transform refuses a frame: the turn ends after its flush.    *)
TurnFails ==
  /\ pc = "turn"
  /\ Stepped # {}
  /\ pendingEv' = pendingEv \ Flushing
  /\ ended' = ended \cup Flushing
  /\ open' = open \ Flushing
  /\ pc' = "drain"
  /\ result' = "err"
  /\ UNCHANGED <<groupVars, slotVars, scoreVars, predicts, heldEv, heard>>

-----------------------------------------------------------------------------
(* Outcomes of predicts.                                                   *)

(* Faulty: a stale result is only dropped.                                 *)
RearmsNever(g) == FALSE

(* Faulty: it re-arms before the reset's observation is there.             *)
RearmsAnytime(g) ==
  /\ predict[g] = "stale"
  /\ replay[g].left = 0
  /\ HasObserved(g)

(* A stale result that lands after the next observation did re-arms from   *)
(* that observation, or nothing would.                                     *)
Rearms(g) ==
  /\ predict[g] = "stale"
  /\ phase[g] = "Ready"
  /\ replay[g].left = 0
  /\ HasLatest(g)

(* The evictions held behind predict p.                                    *)
FreedNone(p) == {}    \* faulty

Freed(p) == {h \in heldEv : h[1] \in DOMAIN p}

(* on_predict_outcome: predict p landed with n[g] frames for each group g; *)
(* a group that went idle meanwhile ignores them, and the evictions held   *)
(* behind p are released.                                                  *)
OnPredict(p, n) ==
  LET landed(g) == g \in DOMAIN p
      frames(g) == [left |-> n[g], ids |-> p[g].ids]
      plays(g) == landed(g) /\ predict[g] = "inflight" /\ replay[g].left = 0
      waits(g) == landed(g) /\ predict[g] = "inflight" /\ replay[g].left > 0
      rearms(g) == landed(g) /\ Rearms(g)
  IN
  /\ pc = "select"
  /\ predicts' = predicts \ {p}
  /\ replay' = [g \in Groups |-> IF plays(g) THEN frames(g) ELSE replay[g]]
  /\ chunk' = [g \in Groups |-> IF waits(g) THEN frames(g) ELSE chunk[g]]
  /\ request' = [g \in Groups |-> IF rearms(g) THEN LatestRequest(g) ELSE request[g]]
  /\ history' = [g \in Groups |-> IF rearms(g) /\ History THEN <<>> ELSE history[g]]
  /\ predict' = [g \in Groups |->
       CASE waits(g) -> "ready"
         [] rearms(g) -> "wanted"
         [] landed(g) /\ InFlight(g) /\ ~waits(g) /\ ~rearms(g) -> "none"
         [] OTHER -> predict[g]]
  /\ heldEv' = heldEv \ Freed(p)
  /\ pendingEv' = pendingEv \cup {h[2] : h \in Freed(p)}
  /\ pc' = "turn"
  /\ UNCHANGED <<result, phase, obs, steps, pendingRoll, pendingDone, pendingStart,
                 acting, slotVars, scoreVars, open, ended, heard>>

(* A predict that errs, times out or answers for another route.            *)
PredictFails(p) ==
  /\ pc = "select"
  /\ predicts' = predicts \ {p}
  /\ pc' = "drain"
  /\ result' = "err"
  /\ UNCHANGED <<groupVars, slotVars, scoreVars, pendingEv, heldEv, open, ended, heard>>

-----------------------------------------------------------------------------
(* The end of the route.                                                   *)

(* Faulty: the first idle group ends the route.                            *)
CompleteOnFirstIdle ==
  /\ pc = "turn"
  /\ predicts = {}
  /\ \E g \in Groups : phase[g] = "Idle"
  /\ pc' = "drain"
  /\ result' = "ok"
  /\ UNCHANGED <<groupVars, slotVars, scoreVars, modelVars>>

(* Faulty: it waits for evictions that no later turn flushes.              *)
CompleteOnceFlushed ==
  /\ pc = "turn"
  /\ predicts = {} /\ pendingEv = {}
  /\ \A g \in Groups : phase[g] = "Idle"
  /\ pc' = "drain"
  /\ result' = "ok"
  /\ UNCHANGED <<groupVars, slotVars, scoreVars, modelVars>>

(* Every group is idle and nothing is in flight.                           *)
Complete ==
  /\ pc = "turn"
  /\ predicts = {}
  /\ \A g \in Groups : phase[g] = "Idle"
  /\ pc' = "drain"
  /\ result' = "ok"
  /\ UNCHANGED <<groupVars, slotVars, scoreVars, modelVars>>

(* The caller cancels, or the contract relay or a hook fails.              *)
Cancel ==
  /\ pc \in {"start", "turn", "select"}
  /\ pc' = "drain"
  /\ result' = "err"
  /\ UNCHANGED <<groupVars, slotVars, scoreVars, modelVars>>

(* Teardown: let the predicts in flight land, then end every episode the   *)
(* model still holds (end_live_episodes) along with the queued and held    *)
(* evictions, before the release.                                          *)
LiveLanesOfCleanEnd ==    \* faulty: a failed route skips the sweep
  {l \in Lanes : result = "ok" /\ episode[l].predicted /\ ~episode[l].ended}

LiveLanes == {l \in Lanes : episode[l].predicted /\ ~episode[l].ended}

Teardown ==
  LET ends == pendingEv \cup HeldIds \cup EndIds(episode, LiveLanes) IN
  /\ pc = "drain"
  /\ pc' = "done"
  /\ predicts' = {}
  /\ open' = open \ ends
  /\ ended' = ended \cup ends
  /\ episode' = EndEpisodes(episode, LiveLanes)
  /\ pendingEv' = {}
  /\ heldEv' = {}
  /\ UNCHANGED <<result, groupVars, laneStep, minted, nextSlot, trialCursor, surplus,
                 scoreVars, heard>>

(* A predict outlives the close timeout: it is abandoned and nothing more  *)
(* is sent to the model but the release.                                   *)
Abandon ==
  /\ pc = "drain"
  /\ predicts # {}
  /\ pc' = "done"
  /\ pendingEv' = {}
  /\ heldEv' = {}
  /\ UNCHANGED <<result, groupVars, slotVars, scoreVars, predicts, open, ended, heard>>

Done == pc = "done" /\ UNCHANGED vars

-----------------------------------------------------------------------------
(* External: what an env reports for a step of group g.  It completes any  *)
(* of the group's lanes under the ids pushed down to it, except the ones   *)
(* it autoresets in this step, and may echo completions under ids that the *)
(* lanes have moved past.                                                  *)
EnvReports(g) ==
  LET may == {l \in g : pendingRoll[l] = NoId}
      must == {l \in may : ~DriverOwned /\ laneStep[l] + 1 >= Horizon}
  IN {{[lane |-> l, id |-> episode[l].id] : l \in D} \cup E :
        D \in {X \in SUBSET may : must \subseteq X},
        E \in {{}, {[lane |-> l, id |-> StaleId] : l \in Lanes}}}

Late(g) == IF TimeCap THEN SUBSET g ELSE {{}}

Outcome ==
  \/ \E g \in Groups : \E fails \in BOOLEAN : OnReset(g, fails)
  \/ \E g \in Groups : \E reported \in EnvReports(g), late \in Late(g), fails \in BOOLEAN :
       OnStep(g, reported, late, fails)
  \/ \E p \in predicts : \E n \in [DOMAIN p -> 1 .. MaxChunk] : OnPredict(p, n)

Failure ==
  \/ \E g \in Groups : EnvOpFails(g)
  \/ \E p \in predicts : PredictFails(p)
  \/ TurnFails
  \/ Cancel
  \/ Abandon

Next ==
  \/ Start
  \/ \E S \in Plans : Turn(S)
  \/ Outcome
  \/ Complete
  \/ Teardown
  \/ Failure
  \/ Done

Spec == Init /\ [][Next]_vars

(* The loop keeps turning and every operation put in flight lands: env     *)
(* operations and predicts are all bounded by timeouts.                    *)
FairSpec ==
  /\ Spec
  /\ WF_vars(Start \/ (\E S \in Plans : Turn(S)) \/ Complete \/ Teardown)
  /\ WF_vars(Outcome)

-----------------------------------------------------------------------------
(* Properties.                                                             *)

LaneIds(g) == [g -> Nat]
Observation(g) == [ids : LaneIds(g), step : Int]
Message(g) == [ids : LaneIds(g), step : Int, rows : Seq(Observation(g))]
Frames(g) == [left : Nat, ids : LaneIds(g)]
Episode == [id : Nat, index : 0 .. MaxEpisodes, trial : Int,
            predicted : BOOLEAN, ended : BOOLEAN]

ControlType ==
  /\ pc \in {"start", "turn", "select", "drain", "done"}
  /\ result \in {"none", "ok", "err", "stalled"}
  /\ phase \in [Groups -> {"Ready", "Stepping", "Resetting", "Idle"}]
  /\ predict \in [Groups -> {"none", "wanted", "inflight", "stale", "ready"}]
  /\ steps \in [Groups -> Nat]
  /\ pendingDone \in [Groups -> SUBSET Nat]

DataType ==
  /\ DOMAIN request = Groups /\ DOMAIN chunk = Groups /\ DOMAIN replay = Groups
  /\ DOMAIN obs = Groups /\ DOMAIN history = Groups /\ DOMAIN acting = Groups
  /\ \A g \in Groups :
       /\ request[g] \in Message(g) \cup {NoRequest}
       /\ chunk[g] \in Frames(g) \cup {NoFrames}
       /\ replay[g] \in Frames(g) \cup {NoFrames}
       /\ obs[g] \in Observation(g) \cup {NoObs}
       /\ history[g] \in Seq(Observation(g))
       /\ acting[g] \in LaneIds(g) \cup {NoIds}
       /\ predict[g] = "wanted" => request[g] # NoRequest
       /\ predict[g] = "ready" => chunk[g].left > 0
  /\ \A p \in predicts : DOMAIN p \subseteq Groups /\ \A g \in DOMAIN p : p[g] \in Message(g)

SlotType ==
  /\ pendingRoll \in [Lanes -> Nat]
  /\ pendingStart \in [Lanes -> Episode]
  /\ episode \in [Lanes -> Episode]
  /\ laneStep \in [Lanes -> Nat]
  /\ minted \in Nat
  /\ nextSlot \in 0 .. MaxEpisodes
  /\ trialCursor \in Nat
  /\ surplus \subseteq Nat

ScoreType ==
  /\ total \in Nat
  /\ summaries \subseteq [id : Nat, index : 0 .. MaxEpisodes, trial : Int]
  /\ closed \subseteq Nat

ModelType ==
  /\ pendingEv \subseteq Nat
  /\ heldEv \subseteq Groups \X Nat
  /\ open \subseteq Nat
  /\ ended \subseteq Nat
  /\ heard \in [Lanes -> [id : Nat, step : Int]]

(* The variables keep the types of the driver's and RouteState's fields.   *)
TypeOK == ControlType /\ DataType /\ SlotType /\ ScoreType /\ ModelType

(* queue_evictions and the teardown sweep end each id once: an eviction    *)
(* that is queued, held or already sent is never queued again, and the     *)
(* episodes the sweep would end have none.                                 *)
QueuesApart ==
  /\ pendingEv \cap ended = {}
  /\ HeldIds \cap (pendingEv \cup ended) = {}

EndedOnce ==
  /\ QueuesApart
  /\ EndIds(episode, LiveLanes) \cap (pendingEv \cup HeldIds \cup ended) = {}

(* Towards the model the route keeps the lifecycle contract: a predict     *)
(* never carries an id whose end was already sent.                         *)
Lifecycle == INSTANCE EpisodeLifecycle
KeepsLifecycle == Lifecycle!Spec

(* A route that tears down without abandoning a predict leaves the model   *)
(* no episode it predicted on and never heard the end of.                  *)
NothingLeftOpen == pc = "done" /\ predicts = {} => open = {}

(* Evictions are held only behind a predict that is still in flight, so    *)
(* each of them is released when that predict lands.                       *)
HeldBehindPredict ==
  pc \in {"turn", "select"} =>
    \A h \in heldEv : \E p \in predicts : h[1] \in DOMAIN p

(* Evictions come out even: none goes out twice, none is stuck behind a    *)
(* predict that is gone, and none is missing when the route is torn down.  *)
EvictionsSettle == EndedOnce /\ HeldBehindPredict /\ NothingLeftOpen

(* The loop's stall error is unreachable: while a group is live something  *)
(* is in flight or can be put in flight.                                   *)
NeverStalls == result # "stalled"

(* The frame a step acts on was planned from an observation of the         *)
(* episodes the lanes are in: no chunk crosses an episode boundary.        *)
PlanMatchesEpisode ==
  \A g \in Groups : phase[g] = "Stepping" =>
    \A l \in g : acting[g][l] = episode[l].id

(* episode_completed is the last hook event under its id: a lane that is   *)
(* observed or stepped holds an episode whose completion is not out.       *)
CompletionIsLast ==
  \A g \in Groups : phase[g] \in {"Ready", "Stepping"} =>
    \A l \in g : episode[l].id \notin closed

(* NEXT_STEP defers completions and evictions to the roll: the completion  *)
(* is still the last event under its id, and a group whose budget is spent *)
(* and that never rolls again leaves no eviction out.                      *)
DeferredSettle == CompletionIsLast /\ NothingLeftOpen

(* total_episodes counts each scored episode once.                         *)
CountedOnce == total = Cardinality(summaries)

(* A clean end scored every slot of the budget exactly once, and under     *)
(* driver-owned resets walked exactly the trial ordinals 0 .. M - 1.       *)
CleanEndIsExact ==
  result = "ok" =>
    /\ total = MaxEpisodes
    /\ {s.index : s \in summaries} = 1 .. MaxEpisodes
    /\ DriverOwned => {s.trial : s \in summaries} = 0 .. MaxEpisodes - 1

(* The route keeps the budget contract of EpisodeLedger, and what it       *)
(* reports (total_episodes, slots and trial ordinals of the summaries)     *)
(* agrees with it.                                                         *)
Ledger == INSTANCE EpisodeLedger WITH
            claimed <- nextSlot,
            scored <- {s.index : s \in summaries},
            ended <- IF pc = "done" THEN result ELSE "no"
KeepsLedger == Ledger!Spec /\ [](CountedOnce /\ CleanEndIsExact)

(* History routes: what the lane's model-side window last received, then   *)
(* what the wanted request carries, then the buffered rows, are the        *)
(* observations of consecutive steps within an episode, and the latest     *)
(* observation is the last of them: each step leaves the group exactly     *)
(* once, as a predict's own observation or as a history row.               *)
Row(o, l) == [id |-> o.ids[l], step |-> o.step]

Backlog(g, l) ==
  LET rows(s) == [i \in DOMAIN s |-> Row(s[i], l)] IN
  <<heard[l]>>
    \o (IF predict[g] = "wanted" THEN Append(rows(request[g].rows), Row(request[g], l)) ELSE <<>>)
    \o rows(history[g])

DeliveredExactlyOnce ==
  History /\ pc \in {"turn", "select"} =>
    \A g \in Groups : phase[g] \in {"Ready", "Stepping"} => \A l \in g :
    LET rows == Backlog(g, l) IN
    /\ \A i \in 1 .. Len(rows) - 1 :
         rows[i].id = rows[i + 1].id => rows[i + 1].step = rows[i].step + 1
    /\ rows[Len(rows)] = Row(obs[g], l)

(* A predict never goes out under an id whose end was already sent.        *)
NoPredictAfterEnd == open \cap ended = {}

(* Every route ends: the budget is spent, or a failure ends it, and never  *)
(* the loop's own stall error.                                             *)
RouteEnds == <>(pc = "done" /\ NeverStalls)
=============================================================================
