--------------------------- MODULE EpisodeTracker ---------------------------
(***************************************************************************)
(* The episode tracker of the environment server: which episode each lane  *)
(* plays, which lanes are owed an autoreset observation, and the episodes  *)
(* a reset cut short that no response has reported yet.  One value t of    *)
(* the tracker is a record; its methods are operators on that record.      *)
(***************************************************************************)
EXTENDS Naturals, Sequences

CONSTANTS
  NumEnvs,         \* number of lanes
  MaxInterrupted,  \* capacity of the buffer of interrupted episodes
  None             \* no episode

ASSUME TrackerConstants ==
  /\ NumEnvs \in Nat \ {0}
  /\ MaxInterrupted \in Nat \ {0}

Lanes == 0 .. NumEnvs - 1

(* What a report keeps of an episode: its id and how many steps it took.   *)
(* Seed, reward, times and flags are copied along and decide nothing.      *)
Episode(id) == [id |-> id, steps |-> 0]

NewTracker ==
  [active      |-> [l \in Lanes |-> None],
   pending     |-> {},
   interrupted |-> <<>>,
   dropped     |-> 0]

LaneState(t, l) ==
  IF t.active[l] # None THEN "active"
  ELSE IF l \in t.pending THEN "pending" ELSE "idle"

(* faulty: the buffer has no bound. *)
PushUnbounded(t, e) == [t EXCEPT !.interrupted = Append(@, e)]

(* faulty: the buffer evicts without counting. *)
PushUncounted(t, e) ==
  IF Len(t.interrupted) >= MaxInterrupted
  THEN [t EXCEPT !.interrupted = Append(Tail(@), e)]
  ELSE [t EXCEPT !.interrupted = Append(@, e)]

(* The buffer keeps the most recent interruptions and counts the others. *)
PushInterrupted(t, e) ==
  IF Len(t.interrupted) >= MaxInterrupted
  THEN [t EXCEPT !.interrupted = Append(Tail(@), e), !.dropped = @ + 1]
  ELSE [t EXCEPT !.interrupted = Append(@, e)]

(* faulty: a reset forgets the episode it replaces. *)
StartOver(t, l, id) ==
  [t EXCEPT !.pending = @ \ {l}, !.active[l] = Episode(id)]

(* A reset or a roll starts an episode; one it replaces is interrupted. *)
StartEpisode(t, l, id) ==
  LET started == [t EXCEPT !.pending = @ \ {l}, !.active[l] = Episode(id)]
  IN  IF t.active[l] = None THEN started
      ELSE PushInterrupted(started, t.active[l])

RecordStep(t, l) ==
  IF t.active[l] = None THEN t ELSE [t EXCEPT !.active[l].steps = @ + 1]

CompleteEpisode(t, l) == [t EXCEPT !.active[l] = None]

ExpectAutoreset(t, l) == [t EXCEPT !.pending = @ \cup {l}]

(* faulty: the buffer is read but not emptied. *)
TakeCopy(t) == [t EXCEPT !.dropped = 0]

TakeInterrupted(t) == [t EXCEPT !.interrupted = <<>>, !.dropped = 0]

(* The active episodes in lane order (the code drains a map, in any). *)
ActiveEpisodes(t) ==
  LET upTo[n \in 0 .. NumEnvs] ==
        IF n = 0 THEN <<>>
        ELSE IF t.active[n - 1] = None THEN upTo[n - 1]
        ELSE Append(upTo[n - 1], t.active[n - 1])
  IN  upTo[NumEnvs]

(* What complete_all reports; it leaves a new tracker behind. *)
CompleteAll(t) == t.interrupted \o ActiveEpisodes(t)

(* A reset of the lanes starts an episode on each, in the order given. *)
StartEpisodes(t, lanes, ids) ==
  LET after[n \in 0 .. Len(lanes)] ==
        IF n = 0 THEN t ELSE StartEpisode(after[n - 1], lanes[n], ids[n])
  IN  after[Len(lanes)]

(* One lane of a step response: a running lane counts the step and may     *)
(* complete, a pending lane rolls into the id the request brought, an idle *)
(* lane awaits its reset.                                                  *)
StepLane(s, l, id, done, nextStep) ==
  LET t == RecordStep(s.tracker, l)
  IN  CASE LaneState(s.tracker, l) = "active" /\ done ->
             [tracker   |-> IF nextStep
                            THEN ExpectAutoreset(CompleteEpisode(t, l), l)
                            ELSE CompleteEpisode(t, l),
              completed |-> Append(s.completed, t.active[l])]
        [] LaneState(s.tracker, l) = "active" /\ ~done ->
             [s EXCEPT !.tracker = t]
        [] LaneState(s.tracker, l) = "pending" ->
             [s EXCEPT !.tracker = StartEpisode(s.tracker, l, id)]
        [] LaneState(s.tracker, l) = "idle" -> s

(* A step response: first the interruptions since the last one, then the   *)
(* episodes that complete in it.                                           *)
ApplyStep(t, lanes, ids, done, nextStep) ==
  LET after[n \in 0 .. Len(lanes)] ==
        IF n = 0
        THEN [tracker |-> TakeInterrupted(t), completed |-> t.interrupted]
        ELSE StepLane(after[n - 1], lanes[n], ids[n], done[n], nextStep)
  IN  after[Len(lanes)]

(* The NEXT_STEP contract of one lane of a step response. *)
LegalLane(t, l, done) ==
  \/ LaneState(t, l) = "active"
  \/ LaneState(t, l) = "pending" /\ ~done
=============================================================================
