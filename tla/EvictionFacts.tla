--------------------------- MODULE EvictionFacts ----------------------------
(***************************************************************************)
(* The invariant behind RouteDriver's evictions, and what a step does to   *)
(* the ids it is about.                                                    *)
(***************************************************************************)
EXTENDS RouteDriverProofs

(* The ids whose end was queued, held or sent.                             *)
Queued == pendingEv \cup HeldIds \cup ended

(* Every id in use was minted, and none is before the first reset.         *)
MintedIds ==
  /\ pc = "start" => minted = 0
  /\ \A x \in Queued : x \in 1 .. minted
  /\ \A l \in Lanes : /\ episode[l].id <= minted
                      /\ pendingStart[l].id <= minted
                      /\ pendingRoll[l] <= minted

(* No two lanes, and no two of a lane's episode, staged reset and autoreset*)
(* roll, share an id.                                                      *)
DistinctIds ==
  \A l, k \in Lanes :
    /\ l # k => /\ episode[l].id # episode[k].id \/ episode[l].id = NoId
                /\ pendingStart[l].id # pendingStart[k].id \/ pendingStart[l].id = NoId
                /\ pendingRoll[l] # pendingRoll[k] \/ pendingRoll[l] = NoId
    /\ episode[l].id # pendingStart[k].id \/ episode[l].id = NoId
    /\ episode[l].id # pendingRoll[k] \/ episode[l].id = NoId
    /\ pendingStart[l].id # pendingRoll[k] \/ pendingStart[l].id = NoId

(* A lane whose episode's end is queued knows it, and the ids it will move *)
(* to are not queued.                                                      *)
EndsKnown ==
  \A l \in Lanes :
    /\ episode[l].id \in Queued => episode[l].ended
    /\ pendingStart[l].id \notin Queued /\ ~pendingStart[l].ended
    /\ pendingRoll[l] \notin Queued

(* An id is held behind one group.                                         *)
HeldOnce == \A h, k \in heldEv : h[2] = k[2] => h = k

EvictionInv == TypeOK /\ MintedIds /\ DistinctIds /\ EndsKnown /\ HeldOnce /\ QueuesApart

-----------------------------------------------------------------------------
(* Position numbers a set of lanes from 0, without gaps or repeats.        *)
LEMMA PositionFacts ==
  ASSUME LaneCounts, NEW S \in SUBSET Lanes, NEW l \in S
  PROVE  /\ Position(S, l) \in Nat /\ Cardinality(S) \in Nat
         /\ Position(S, l) < Cardinality(S)
         /\ \A k \in S : k < l => Position(S, k) < Position(S, l)
<1>1. l \in Int /\ \A k \in S : k \in Int
  BY DEF Lanes
<1>2. {k \in S : k < l} \in SUBSET S /\ {k \in S : k < l} # S
  BY <1>1
<1>3. ASSUME NEW k \in S, k < l
      PROVE  Position(S, k) < Position(S, l)
  <2>1. \A j \in S : j < k => j < l /\ j # k
    BY <1>1, <1>3
  <2>2. /\ {j \in S : j < l} \in SUBSET Lanes
        /\ {j \in S : j < k} \in SUBSET {j \in S : j < l}
    BY <2>1
  <2>3. {j \in S : j < k} # {j \in S : j < l}
    <3>1. k \in {j \in S : j < l} /\ k \notin {j \in S : j < k}
      BY <1>1, <1>3
    <3>2. QED
      BY <3>1
  <2>4. QED
    BY <2>2, <2>3 DEF LaneCounts, Position
<1>4. QED
  BY <1>2, <1>3, PositionIsNat DEF LaneCounts, Position

(* Groups are disjoint, and a group the driver restarts has one lane.      *)
LEMMA GroupsApart ==
  /\ \A g, h \in Groups : g # h => g \cap h = {}
  /\ DriverOwned => \A g \in Groups : \E l \in Lanes : g = {l}
<1>1. CASE LaneGroup
  BY <1>1 DEF Groups
<1>2. CASE ~LaneGroup
  <2>1. Groups = {Lanes}
    BY <1>2 DEF Groups
  <2>2. DriverOwned => NumEnvs = 1
    BY <1>2, Validated DEF LaneGroup
  <2>3. DriverOwned => Lanes = {1}
    BY <2>2 DEF Lanes
  <2>4. QED
    BY <2>1, <2>3
<1>3. QED
  BY <1>1, <1>2

(* The initial state has no id.                                            *)
LEMMA InitEviction == Init => EvictionInv
<1> SUFFICES ASSUME Init PROVE EvictionInv
  OBVIOUS
<1>1. TypeOK
  BY InitType
<1>2. Queued = {} /\ heldEv = {} /\ pendingEv = {} /\ ended = {} /\ HeldIds = {}
  BY DEF Init, Queued, HeldIds
<1>3. QED
  BY <1>1, <1>2 DEF Init, EvictionInv, MintedIds, DistinctIds, EndsKnown, HeldOnce, QueuesApart,
                    NoEpisode, NewEpisode, NoId

(* The route's first resets mint an id per lane.                           *)
LEMMA StartEviction ==
  ASSUME EvictionInv, TypeOK', Start
  PROVE  EvictionInv'
<1>1. minted = 0 /\ Queued = {}
  <2>1. minted = 0
    BY DEF EvictionInv, MintedIds, Start
  <2>2. QED
    BY <2>1 DEF EvictionInv, MintedIds
<1>2. \A l \in Lanes : episode[l].id = 0 /\ pendingRoll[l] = 0
  BY <1>1 DEF EvictionInv, MintedIds, TypeOK, SlotType, Episode
<1>3. /\ Queued' = {} /\ HeldIds' = HeldIds
      /\ UNCHANGED <<heldEv, pendingEv, ended, episode, pendingRoll>>
  BY <1>1 DEF Start, modelVars, Queued, HeldIds
<1>4. \A l \in Lanes : /\ pendingStart'[l].id \in {0, l} /\ pendingStart'[l].id <= minted'
                       /\ pendingStart'[l].ended = FALSE
  <2>1. \A l \in Lanes : /\ Staged(l - 1, l - 1, l - 1).id = l
                         /\ Staged(l - 1, l - 1, l - 1).ended = FALSE
    BY DEF Staged, NewEpisode, Lanes
  <2>2. NoEpisode.id = 0 /\ NoEpisode.ended = FALSE
    BY DEF NoEpisode, NewEpisode, NoId
  <2>3. \A l \in Lanes : l \in StartingLanes => l <= minted'
    BY Validated DEF Start, StartingLanes, Lanes, Smaller
  <2>4. minted' \in Nat
    BY DEF TypeOK, SlotType
  <2>5. QED
    BY <2>1, <2>2, <2>3, <2>4 DEF Start
<1>5. MintedIds'
  <2>1. pc' = "turn" /\ minted' \in Nat
    BY DEF Start, TypeOK, SlotType
  <2>2. QED
    BY <1>2, <1>3, <1>4, <2>1 DEF MintedIds
<1>6. DistinctIds'
  BY <1>2, <1>3, <1>4 DEF DistinctIds, NoId
<1>7. EndsKnown' /\ HeldOnce' /\ QueuesApart'
  BY <1>3, <1>4 DEF EvictionInv, EndsKnown, HeldOnce, QueuesApart
<1>8. QED
  BY <1>5, <1>6, <1>7 DEF EvictionInv

(* A reset that lands moves its lanes to the staged ids.                   *)
LEMMA OnResetEviction ==
  ASSUME EvictionInv, TypeOK', NEW g \in Groups, NEW fails \in BOOLEAN, OnReset(g, fails)
  PROVE  EvictionInv'
<1>1. /\ UNCHANGED <<heldEv, pendingEv, ended, minted, pendingRoll>>
      /\ Queued' = Queued /\ HeldIds' = HeldIds /\ pc' # "start"
  BY DEF OnReset, Observe, modelVars, Queued, HeldIds
<1>2. \A l \in Lanes :
        /\ episode'[l] = IF l \in g THEN pendingStart[l] ELSE episode[l]
        /\ pendingStart'[l] = IF l \in g THEN NoEpisode ELSE pendingStart[l]
  BY DEF OnReset
<1>3. NoEpisode.id = 0 /\ NoEpisode.ended = FALSE /\ minted \in Nat /\ 0 \notin Queued
  BY DEF NoEpisode, NewEpisode, NoId, EvictionInv, TypeOK, SlotType, MintedIds
<1>4. MintedIds'
  BY <1>1, <1>2, <1>3 DEF EvictionInv, MintedIds
<1>5. DistinctIds'
  BY <1>1, <1>2, <1>3 DEF EvictionInv, DistinctIds, NoId
<1>6. EndsKnown' /\ HeldOnce' /\ QueuesApart'
  BY <1>1, <1>2, <1>3 DEF EvictionInv, EndsKnown, HeldOnce, QueuesApart
<1>7. QED
  BY <1>4, <1>5, <1>6 DEF EvictionInv

(* A rolled lane is in the episode minted for its roll; the others stay.   *)
LEMMA RolledFacts ==
  ASSUME LaneCounts, TypeOK, NEW g \in Groups, NEW l \in Lanes
  PROVE  /\ RolledEpisodes(g)[l] \in Episode
         /\ l \in Rolling(g) => /\ RolledEpisodes(g)[l].id = pendingRoll[l]
                                /\ RolledEpisodes(g)[l].ended = FALSE
         /\ l \notin Rolling(g) => RolledEpisodes(g)[l] = episode[l]
<1>1. RolledEpisodes(g)[l] \in Episode
  BY RolledType
<1>2. RolledEpisode(g, l).id = pendingRoll[l] /\ RolledEpisode(g, l).ended = FALSE
  BY DEF RolledEpisode, NewEpisode
<1>3. RolledEpisodes(g)[l] = IF l \in Rolling(g) THEN RolledEpisode(g, l) ELSE episode[l]
  BY DEF RolledEpisodes
<1>4. QED
  BY <1>1, <1>2, <1>3

(* Ending lanes marks their episodes and keeps their ids.                  *)
LEMMA EndMarks ==
  ASSUME NEW eps, NEW S, NEW l \in Lanes, eps[l] \in Episode
  PROVE  /\ EndEpisodes(eps, S)[l].id = eps[l].id
         /\ l \in S => EndEpisodes(eps, S)[l].ended = TRUE
         /\ l \notin S => EndEpisodes(eps, S)[l] = eps[l]
<1>1. [eps[l] EXCEPT !.ended = TRUE].id = eps[l].id /\ [eps[l] EXCEPT !.ended = TRUE].ended = TRUE
  BY DEF Episode
<1>2. EndEpisodes(eps, S)[l] = IF l \in S THEN [eps[l] EXCEPT !.ended = TRUE] ELSE eps[l]
  BY DEF EndEpisodes
<1>3. QED
  BY <1>1, <1>2

Slots == [Lanes -> Episode]

(* Ending lanes returns the ids that were not marked yet.                  *)
LEMMA EndFacts ==
  ASSUME NEW eps \in Slots, NEW S \in SUBSET Lanes
  PROVE  \A x \in EndIds(eps, S) :
           x # NoId /\ \E l \in S : x = eps[l].id /\ eps[l].ended = FALSE
<1>1. \A l \in Lanes : eps[l].ended \in BOOLEAN
  BY DEF Slots, Episode
<1>2. QED
  BY <1>1 DEF EndIds

(* The ids a landed step ends, and the episodes it leaves in the slots.    *)
StepEnds(g, ending) ==
  EndIds(episode, Rolling(g)) \cup EndIds(RolledEpisodes(g), ending)
StepEpisodes(g, ending) == EndEpisodes(RolledEpisodes(g), ending)

(* The ids new are minted, not queued before, and not the next of a lane.  *)
NewEnds(g, new) ==
  \A x \in new : /\ x \in 1 .. minted /\ x \notin Queued
                 /\ \A l \in Lanes : x # pendingStart[l].id /\ (l \notin g => x # pendingRoll[l])

(* The episodes eps are distinct, and marked if their end is queued.       *)
SlotsApart(g, new, eps) ==
  \A l \in Lanes :
    /\ eps[l].id <= minted
    /\ eps[l].id \in Queued \cup new => eps[l].ended = TRUE
    /\ \A k \in Lanes : /\ l # k => eps[l].id # eps[k].id \/ eps[l].id = NoId
                        /\ eps[l].id # pendingStart[k].id \/ eps[l].id = NoId
                        /\ k \notin g => eps[l].id # pendingRoll[k] \/ eps[l].id = NoId

(* A step queues the ends of episodes whose end was not queued before, and *)
(* leaves every lane's episode distinct and marked if its end is queued.   *)
LEMMA EndsFresh ==
  ASSUME LaneCounts, EvictionInv, NEW g \in Groups, NEW ending \in SUBSET g
  PROVE  /\ NewEnds(g, StepEnds(g, ending))
         /\ SlotsApart(g, StepEnds(g, ending), StepEpisodes(g, ending))
<1> DEFINE rolled == RolledEpisodes(g)
           new == StepEnds(g, ending)
           eps == StepEpisodes(g, ending)
<1>1. /\ g \subseteq Lanes /\ Rolling(g) \subseteq g
      /\ ending \in SUBSET Lanes /\ Rolling(g) \in SUBSET Lanes
  BY GroupFacts DEF Rolling
<1>2. rolled \in Slots /\ episode \in Slots
  BY RolledType DEF EvictionInv, TypeOK, SlotType, Slots
<1>3. \A l \in Lanes : /\ l \in Rolling(g) => rolled[l].id = pendingRoll[l] /\ rolled[l].ended = FALSE
                       /\ l \notin Rolling(g) => rolled[l] = episode[l]
  BY RolledFacts DEF EvictionInv
<1>4. \A l \in Lanes : /\ eps[l].id = rolled[l].id
                       /\ l \in ending => eps[l].ended = TRUE
                       /\ l \notin ending => eps[l] = rolled[l]
  <2>1. \A l \in Lanes : /\ EndEpisodes(rolled, ending)[l].id = rolled[l].id
                         /\ l \in ending => EndEpisodes(rolled, ending)[l].ended = TRUE
                         /\ l \notin ending => EndEpisodes(rolled, ending)[l] = rolled[l]
    <3>1. \A l \in Lanes : rolled[l] \in Episode
      BY <1>2 DEF Slots
    <3>2. QED
      BY <3>1, EndMarks, Zenon
  <2>2. QED
    BY <2>1 DEF StepEpisodes
<1>5. \A x \in new : /\ x # NoId
                     /\ \/ \E l \in Rolling(g) : x = episode[l].id /\ episode[l].ended = FALSE
                        \/ \E l \in ending : x = rolled[l].id /\ rolled[l].ended = FALSE
  <2>1. \A x \in EndIds(episode, Rolling(g)) :
          x # NoId /\ \E l \in Rolling(g) : x = episode[l].id /\ episode[l].ended = FALSE
    BY <1>1, <1>2, EndFacts, Zenon
  <2>2. \A x \in EndIds(rolled, ending) :
          x # NoId /\ \E l \in ending : x = rolled[l].id /\ rolled[l].ended = FALSE
    BY <1>1, <1>2, EndFacts, Zenon
  <2>3. QED
    BY <2>1, <2>2 DEF StepEnds
<1>6. \A l \in Lanes : /\ episode[l].ended \in BOOLEAN
                       /\ episode[l].id \in Nat /\ pendingRoll[l] \in Nat
                       /\ episode[l].ended = FALSE => episode[l].id \notin Queued
                       /\ pendingRoll[l] \notin Queued
                       /\ pendingRoll[l] <= minted /\ episode[l].id <= minted
  BY DEF EvictionInv, TypeOK, SlotType, Episode, EndsKnown, MintedIds
<1>7. \A l \in Lanes : l \in Rolling(g) => pendingRoll[l] # NoId
  BY DEF Rolling
<1> HIDE DEF rolled, new, eps
<1>8. \A x \in new : x \in 1 .. minted /\ x \notin Queued
  BY <1>1, <1>3, <1>5, <1>6 DEF NoId, EvictionInv, TypeOK, SlotType
<1>9. \A l, k \in Lanes : /\ l # k => rolled[l].id # rolled[k].id \/ rolled[l].id = NoId
                          /\ rolled[l].id # pendingStart[k].id \/ rolled[l].id = NoId
                          /\ k \notin g => rolled[l].id # pendingRoll[k] \/ rolled[l].id = NoId
                          /\ k \in Rolling(g) => rolled[l].id # episode[k].id \/ rolled[l].id = NoId
  BY <1>1, <1>3, <1>7 DEF EvictionInv, DistinctIds
<1>10. \A x \in new : \A l \in Lanes : x # pendingStart[l].id /\ (l \notin g => x # pendingRoll[l])
  BY <1>1, <1>5, <1>9 DEF EvictionInv, DistinctIds
<1>11. ASSUME NEW l \in Lanes, eps[l].id \in Queued \cup new
       PROVE  eps[l].ended = TRUE
  <2>1. CASE l \in ending
    BY <1>4, <2>1
  <2>2. CASE l \notin ending
    <3>1. rolled[l].id \in Queued => rolled[l].ended = TRUE
      BY <1>3, <1>6
    <3>2. rolled[l].id \notin new
      BY <1>1, <1>5, <1>9, <2>2
    <3>3. QED
      BY <1>4, <1>11, <2>2, <3>1, <3>2
  <2>3. QED
    BY <2>1, <2>2
<1>12. \A l \in Lanes : eps[l].id <= minted
  BY <1>3, <1>4, <1>6
<1>13. \A l, k \in Lanes : /\ l # k => eps[l].id # eps[k].id \/ eps[l].id = NoId
                           /\ eps[l].id # pendingStart[k].id \/ eps[l].id = NoId
                           /\ k \notin g => eps[l].id # pendingRoll[k] \/ eps[l].id = NoId
  BY <1>4, <1>9
<1>14. NewEnds(g, new) /\ SlotsApart(g, new, eps)
  BY <1>8, <1>10, <1>11, <1>12, <1>13 DEF NewEnds, SlotsApart
<1>15. QED
  BY <1>14 DEF new, eps

(* A lane's next roll, or its next reset, is gone, kept or freshly minted, *)
(* and a step mints for a roll or for a restart, not for both.             *)
RollMinted(g, l) ==
  \/ pendingRoll'[l] = NoId
  \/ l \notin g /\ pendingRoll'[l] = pendingRoll[l]
  \/ /\ pendingRoll'[l] > minted /\ pendingRoll'[l] <= minted'
     /\ \A k \in Lanes : k # l => pendingRoll'[k] # pendingRoll'[l]
     /\ \A k \in Lanes : pendingStart'[k] = pendingStart[k]

StartMinted(l) ==
  \/ pendingStart'[l] = pendingStart[l]
  \/ /\ pendingStart'[l].id = minted + 1 /\ minted + 1 <= minted'
     /\ pendingStart'[l].ended = FALSE
     /\ \A k \in Lanes : k # l => pendingStart'[k] = pendingStart[k]

(* The ids a landed step mints, for a roll or for a restart, are fresh.    *)
LEMMA MintsFresh ==
  ASSUME LaneCounts, EvictionInv, TypeOK', NEW g \in Groups, NEW reported \in EnvReports(g),
         NEW late \in Late(g), NEW fails \in BOOLEAN, OnStep(g, reported, late, fails)
  PROVE  minted' >= minted /\ \A l \in Lanes : RollMinted(g, l) /\ StartMinted(l)
<1> DEFINE finished == Finished(g, reported, late)
           stops == Stops(g, total + Cardinality(Scoring(g, finished)))
           minting == IF DriverOwned THEN {} ELSE finished
<1>1. pendingRoll' = [l \in Lanes |->
        CASE l \in minting /\ ~stops -> minted + Position(minting, l) + 1
          [] l \in g /\ (l \notin minting \/ stops) -> NoId
          [] OTHER -> pendingRoll[l]]
  BY DEF OnStep
<1>2. \/ /\ minted' = minted + Cardinality(minting)
         /\ pendingStart' = pendingStart
      \/ DriverOwned /\ Restart(g)
  BY DEF OnStep
<1>3. minting \subseteq g /\ g \subseteq Lanes
  BY GroupFacts, FinishedFacts DEF EvictionInv
<1>4. minted \in Nat /\ Cardinality(minting) \in Nat
  BY <1>3, FinishedFacts DEF EvictionInv, TypeOK, SlotType
<1>5. DriverOwned => minting = {}
  OBVIOUS
<1> HIDE DEF finished, stops, minting
<1>10. /\ minted' >= minted
       /\ minting # {} => minted' = minted + Cardinality(minting) /\ pendingStart' = pendingStart
  BY <1>2, <1>4, <1>5 DEF Restart
<1>11. ASSUME NEW l \in Lanes
       PROVE  RollMinted(g, l)
  <2>1. CASE l \in minting /\ ~stops
    <3>1. pendingRoll'[l] = minted + Position(minting, l) + 1
      BY <1>1, <2>1
    <3>2. Position(minting, l) \in Nat /\ Position(minting, l) < Cardinality(minting)
      BY <1>3, <2>1, PositionFacts
    <3>3. pendingRoll'[l] > minted /\ pendingRoll'[l] <= minted'
      BY <1>4, <1>10, <2>1, <3>1, <3>2
    <3>4. ASSUME NEW k \in Lanes, k # l
          PROVE  pendingRoll'[k] # pendingRoll'[l]
      <4>1. CASE k \in minting
        <5>1. pendingRoll'[k] = minted + Position(minting, k) + 1
          BY <1>1, <2>1, <4>1
        <5>2. k < l \/ l < k
          BY <3>4 DEF Lanes
        <5>3. Position(minting, k) # Position(minting, l)
          BY <1>3, <2>1, <4>1, <5>2, PositionFacts
        <5>4. Position(minting, k) \in Nat
          BY <1>3, <4>1, PositionFacts
        <5>5. QED
          BY <1>4, <3>1, <3>2, <5>1, <5>3, <5>4
      <4>2. CASE k \notin minting
        <5>1. pendingRoll'[k] \in {NoId, pendingRoll[k]}
          BY <1>1, <4>2
        <5>2. pendingRoll'[k] <= minted
          BY <1>4, <5>1 DEF EvictionInv, MintedIds, NoId
        <5>3. pendingRoll'[k] \in Nat /\ pendingRoll'[l] \in Nat
          BY DEF TypeOK, SlotType
        <5>4. QED
          BY <1>4, <3>3, <5>2, <5>3
      <4>3. QED
        BY <4>1, <4>2
    <3>5. QED
      BY <1>10, <2>1, <3>3, <3>4 DEF RollMinted
  <2>2. CASE ~(l \in minting /\ ~stops)
    <3>1. pendingRoll'[l] = NoId \/ (l \notin g /\ pendingRoll'[l] = pendingRoll[l])
      BY <1>1, <1>3, <2>2
    <3>2. QED
      BY <3>1 DEF RollMinted
  <2>3. QED
    BY <2>1, <2>2
<1>12. ASSUME NEW l \in Lanes
       PROVE  StartMinted(l)
  <2>1. CASE pendingStart' = pendingStart
    BY <2>1 DEF StartMinted
  <2>2. CASE DriverOwned /\ Restart(g) /\ nextSlot # MaxEpisodes
    <3>1. /\ Staged(minted, nextSlot, trialCursor).id = minted + 1
          /\ Staged(minted, nextSlot, trialCursor).ended = FALSE
      BY DEF Staged, NewEpisode
    <3>2. /\ \A k \in Lanes : pendingStart'[k] =
               IF k \in g THEN Staged(minted, nextSlot, trialCursor) ELSE pendingStart[k]
          /\ minted' = minted + 1
      BY <2>2 DEF Restart
    <3>3. \E k \in Lanes : g = {k}
      BY <2>2, GroupsApart
    <3>4. \A k \in Lanes : k # l /\ l \in g => k \notin g
      BY <3>3
    <3>5. CASE l \in g
      BY <1>4, <3>1, <3>2, <3>4, <3>5 DEF StartMinted
    <3>6. CASE l \notin g
      BY <3>2, <3>6 DEF StartMinted
    <3>7. QED
      BY <3>5, <3>6
  <2>3. QED
    BY <1>2, <2>1, <2>2 DEF Restart
<1>13. QED
  BY <1>10, <1>11, <1>12

(* A landed predict releases the evictions held behind it.                 *)
LEMMA OnPredictEviction ==
  ASSUME EvictionInv, TypeOK', NEW p \in predicts, NEW n, OnPredict(p, n)
  PROVE  EvictionInv'
<1> DEFINE freed == Freed(p)
<1>1. /\ heldEv' = heldEv \ freed
      /\ pendingEv' = pendingEv \cup {h[2] : h \in freed}
      /\ pc' = "turn"
      /\ UNCHANGED <<ended, minted, episode, pendingStart, pendingRoll>>
  BY DEF OnPredict, slotVars
<1> HIDE DEF freed
<1>2. freed \subseteq heldEv
  BY DEF freed, Freed
<1>3. Queued' = Queued
  BY <1>1, <1>2 DEF Queued, HeldIds
<1>4. QueuesApart'
  <2>1. HeldIds' \cap {h[2] : h \in freed} = {}
    BY <1>1, <1>2 DEF EvictionInv, HeldOnce, HeldIds
  <2>2. HeldIds' \subseteq HeldIds /\ {h[2] : h \in freed} \subseteq HeldIds
    BY <1>1, <1>2 DEF HeldIds
  <2>3. QED
    BY <1>1, <2>1, <2>2 DEF EvictionInv, QueuesApart
<1>5. HeldOnce'
  BY <1>1 DEF EvictionInv, HeldOnce
<1>6. MintedIds' /\ DistinctIds' /\ EndsKnown'
  BY <1>1, <1>3 DEF EvictionInv, MintedIds, DistinctIds, EndsKnown
<1>7. QED
  BY <1>4, <1>5, <1>6 DEF EvictionInv
=============================================================================
