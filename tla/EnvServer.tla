------------------------------ MODULE EnvServer ------------------------------
(***************************************************************************)
(* The environment endpoint: Join streams that compete for one session     *)
(* slot, the read loop of the stream that holds it, the requests it serves *)
(* (lane-scoped ones in tasks of their own, the others one at a time) and  *)
(* the end of a session.  An operation in progress passes the await points *)
(* of handle_env_request: the environment call, the tracker lock, the send *)
(* on the response channel.                                                *)
(***************************************************************************)
EXTENDS EpisodeTracker, FiniteSets

CONSTANTS
  Streams,        \* Join calls
  SupportsLanes,  \* the environment serves lanes on their own
  Autoreset,      \* "NEXT_STEP", "DISABLED" or "SAME_STEP"
  Faults,         \* how the environment may fail: subset of FaultKinds
  Deadlines,      \* requests carry a timeout, which may expire
  LaneLists,      \* the lanes a lane-scoped request may name
  Kinds,          \* the kinds of request the clients send
  Pins,           \* the editions a client may pin
  ChannelCap,     \* capacity of the response channel
  MaxRequests     \* bound on the requests of all streams together

FaultKinds == {"recoverable", "fatal", "contract"}

ASSUME ServerConstants ==
  /\ SupportsLanes \in BOOLEAN
  /\ Deadlines \in BOOLEAN
  /\ Autoreset \in {"NEXT_STEP", "DISABLED", "SAME_STEP"}
  /\ SupportsLanes => Autoreset = "DISABLED"
  /\ Faults \subseteq FaultKinds
  /\ LaneLists \subseteq Seq(Nat) \ {<<>>}
  /\ ChannelCap \in Nat \ {0}
  /\ MaxRequests \in Nat

VARIABLES
  joinActive,  \* the session slot is taken
  phase,       \* where the task of each Join stream is
  inbox,       \* requests sent and not yet read, per stream
  ops,         \* operations in progress
  terminal,    \* the reply that ends the session, not yet sent
  replies,     \* responses sent, per stream
  tracker,     \* the episode tracker, shared by all streams
  edition,     \* the edition the environment was last pinned to
  world,       \* what each lane of the environment really plays
  client,      \* the other end of each stream
  books        \* per stream: episodes begun, drops that were logged

vars == <<joinActive, phase, inbox, ops, terminal, replies, tracker, edition,
          world, client, books>>

NextStep == Autoreset = "NEXT_STEP"

WholeVector == [i \in 1 .. NumEnvs |-> i - 1]

(* The lanes a request covers, in response order. *)
LanesOf(q) == IF q.lanes = <<>> THEN WholeVector ELSE q.lanes

(* The ids the runtime minted for the lanes of a request. *)
IdsOf(s, q) == [i \in 1 .. Len(LanesOf(q)) |-> <<s, q.n, LanesOf(q)[i]>>]

Named(q) == {LanesOf(q)[i] : i \in 1 .. Len(LanesOf(q))}

LaneScoped(q) == q.kind \in {"reset", "step"} /\ q.lanes # <<>>

(* faulty: lanes may be repeated. *)
InRange(lanes) == \A i \in 1 .. Len(lanes) : lanes[i] \in Lanes

ValidLanes(lanes) ==
  \A i \in 1 .. Len(lanes) :
    /\ lanes[i] \in Lanes
    /\ \A j \in 1 .. i - 1 : lanes[j] # lanes[i]

(* Requests refused before they reach the environment or the tracker. *)
Rejected(q) ==
  \/ LaneScoped(q) /\ ~(SupportsLanes /\ ValidLanes(q.lanes))
  \/ q.kind = "step" /\ Autoreset = "SAME_STEP"

Reply(q, kind, episodes) == [n |-> q.n, kind |-> kind, episodes |-> episodes]

NoReply == [n |-> 0, kind |-> "none", episodes |-> <<>>]

OpsOf(s) == {o \in ops : o.stream = s}

(* The task of a stream has the slot until Release. *)
Holding == {"open", "serving", "draining", "swept"}

(* faulty: a send waits for room although nobody reads any more. *)
HasRoom(s) == Len(replies[s]) - client[s].seen < ChannelCap

(* A send goes through while the channel has room, and fails at once when  *)
(* the client dropped the stream.                                          *)
CanSend(s) == client[s].gone \/ Len(replies[s]) - client[s].seen < ChannelCap

Sent(s, r) ==
  IF client[s].gone THEN replies
  ELSE [replies EXCEPT ![s] = Append(@, r)]

Init ==
  /\ joinActive = FALSE
  /\ phase = [s \in Streams |-> "idle"]
  /\ inbox = [s \in Streams |-> <<>>]
  /\ ops = {}
  /\ terminal = [s \in Streams |-> NoReply]
  /\ replies = [s \in Streams |-> <<>>]
  /\ tracker = NewTracker
  /\ edition = "current"
  /\ world = [l \in Lanes |-> [id |-> None, steps |-> 0, over |-> FALSE]]
  /\ client = [s \in Streams |->
                 [sent |-> 0, seen |-> 0, waiting |-> {}, pin |-> "current",
                  eos |-> FALSE, gone |-> FALSE]]
  /\ books = [s \in Streams |-> [begun |-> {}, logged |-> 0]]

-----------------------------------------------------------------------------
(* The slot.                                                               *)

Join(s) ==
  /\ phase[s] = "idle"
  /\ ~joinActive
  /\ joinActive' = TRUE
  /\ phase' = [phase EXCEPT ![s] = "open"]
  /\ UNCHANGED <<inbox, ops, terminal, replies, tracker, edition, world, client, books>>

Refuse(s) ==
  /\ phase[s] = "idle"
  /\ joinActive
  /\ phase' = [phase EXCEPT ![s] = "refused"]
  /\ UNCHANGED <<joinActive, inbox, ops, terminal, replies, tracker, edition,
                 world, client, books>>

-----------------------------------------------------------------------------
(* The client.  It keeps one request per lane in flight, or one request of *)
(* the whole vector; it may ask for the close at any time; it sends        *)
(* nothing more after a close or a non-recoverable error.                  *)

Seen(s) == {replies[s][i] : i \in 1 .. client[s].seen}

Connected(s) ==
  /\ phase[s] \notin {"idle", "refused"}
  /\ ~client[s].eos
  /\ \A q \in client[s].waiting : q.kind # "close"
  /\ \A r \in Seen(s) : r.kind \notin {"fatal", "close"}

MaySend(s, q) ==
  \/ q.kind = "close"
  \/ client[s].waiting = {}
  \/ LaneScoped(q) /\ \A w \in client[s].waiting :
                        LaneScoped(w) /\ Named(w) \cap Named(q) = {}

Requests(n) ==
  [n : {n}, kind : Kinds \cap {"reset", "step"}, pin : {"none"},
   lanes : LaneLists \cup {<<>>}]
  \cup [n : {n}, kind : Kinds \cap {"render", "close"}, pin : {"none"}, lanes : {<<>>}]
  \cup [n : {n} \cap {1}, kind : Kinds \cap {"configure"}, pin : Pins, lanes : {<<>>}]

(* The bound of the model: at most MaxRequests requests in all. *)
BoundedRequests ==
  Cardinality({x \in Streams \X (1 .. MaxRequests) : x[2] <= client[x[1]].sent})
    < MaxRequests

ClientSend(s) ==
  /\ Connected(s)
  /\ BoundedRequests
  /\ \E q \in Requests(client[s].sent + 1) :
       /\ MaySend(s, q)
       /\ inbox' = [inbox EXCEPT ![s] = Append(@, q)]
       /\ client' = [client EXCEPT ![s].sent = @ + 1,
                                   ![s].waiting = @ \cup {q},
                                   ![s].pin = IF q.kind = "configure"
                                              THEN q.pin ELSE @]
  /\ UNCHANGED <<joinActive, phase, ops, terminal, replies, tracker, edition,
                 world, books>>

(* The response pump takes the next reply off the stream. *)
Receive(s) ==
  /\ client[s].seen < Len(replies[s])
  /\ ~client[s].gone
  /\ LET r == replies[s][client[s].seen + 1]
     IN  client' = [client EXCEPT ![s].seen = @ + 1,
                                  ![s].waiting = {q \in @ : q.n # r.n}]
  /\ UNCHANGED <<joinActive, phase, inbox, ops, terminal, replies, tracker,
                 edition, world, books>>

(* The client ends its request stream, or drops the call altogether. *)
Hangup(s) ==
  /\ phase[s] \notin {"idle", "refused"}
  /\ \E gone \in BOOLEAN :
       /\ gone \/ ~client[s].eos
       /\ ~client[s].gone
       /\ client' = [client EXCEPT ![s].eos = TRUE, ![s].gone = gone,
                                   ![s].waiting = IF gone THEN {} ELSE @]
  /\ UNCHANGED <<joinActive, phase, inbox, ops, terminal, replies, tracker,
                 edition, world, books>>

-----------------------------------------------------------------------------
(* The read loop.                                                          *)

(* faulty: only a configure message sets the edition. *)
PinOnlyConfigured(q) ==
  IF q.kind = "configure" /\ q.pin # "unknown" THEN q.pin ELSE edition

(* The first message settles the edition of the session: its pin, or this  *)
(* build's own.  A pin this build does not implement settles nothing.      *)
Pinned(q) ==
  CASE q.kind = "configure" /\ q.pin # "unknown" -> q.pin
    [] q.kind # "configure" /\ q.n = 1 -> "current"
    [] OTHER -> edition

(* A request enters its handler and runs to its first await point. *)
Begin(s, q, serial) ==
  LET op(stage, reply) ==
        [stream |-> s, req |-> q, serial |-> serial, stage |-> stage,
         done |-> <<>>, reply |-> reply]
  IN  CASE Rejected(q) -> op("send", Reply(q, "recoverable", <<>>))
        [] q.kind = "configure" ->
             op("send", Reply(q, IF q.pin = "unknown" THEN "fatal" ELSE "ok", <<>>))
        [] q.kind = "close" -> op("tracker", NoReply)
        [] OTHER -> op("env", NoReply)

(* A lane-scoped request on a lane environment becomes a task of its own. *)
ReadLane(s) ==
  /\ phase[s] = "open"
  /\ inbox[s] # <<>>
  /\ SupportsLanes
  /\ LaneScoped(Head(inbox[s]))
  /\ ops' = ops \cup {Begin(s, Head(inbox[s]), FALSE)}
  /\ edition' = Pinned(Head(inbox[s]))
  /\ inbox' = [inbox EXCEPT ![s] = Tail(@)]
  /\ UNCHANGED <<joinActive, phase, terminal, replies, tracker, world, client, books>>

(* faulty: a serial request does not wait for the lane operations. *)
AlwaysQuiet(s) == TRUE

(* No lane operation of the stream is still running. *)
Quiet(s) == OpsOf(s) = {}

(* Every other request waits for the lane operations and runs in the loop. *)
ReadSerial(s) ==
  /\ phase[s] = "open"
  /\ inbox[s] # <<>>
  /\ ~(SupportsLanes /\ LaneScoped(Head(inbox[s])))
  /\ Quiet(s)
  /\ ops' = ops \cup {Begin(s, Head(inbox[s]), TRUE)}
  /\ edition' = Pinned(Head(inbox[s]))
  /\ phase' = [phase EXCEPT ![s] = "serving"]
  /\ inbox' = [inbox EXCEPT ![s] = Tail(@)]
  /\ UNCHANGED <<joinActive, terminal, replies, tracker, world, client, books>>

-----------------------------------------------------------------------------
(* The environment, as its adapters answer the server.                     *)

(* One outcome per lane.  A lane environment fails lane by lane, a vector  *)
(* environment and a render as a whole; only a faulty environment ends an  *)
(* episode on its roll.                                                    *)
Outcomes(q) ==
  LET width == Len(LanesOf(q))
      fine == {"on"} \cup (IF q.kind = "step" THEN {"done"} ELSE {})
      bad  == Faults \cap {"recoverable", "fatal"}
      rolls(i) == q.kind = "step" /\ NextStep /\ world[LanesOf(q)[i]].over
      all  == IF SupportsLanes /\ q.kind # "render"
              THEN [1 .. width -> fine \cup bad]
              ELSE [1 .. width -> fine] \cup {[i \in 1 .. width |-> b] : b \in bad}
  IN  {f \in all : "contract" \in Faults
                   \/ \A i \in 1 .. width : rolls(i) => f[i] # "done"}

(* faulty: a lane's recoverable failure hides that other lanes moved. *)
GatherFirst(f) ==
  LET failed == {f[i] : i \in DOMAIN f} \ {"on", "done"}
  IN  IF failed = {} THEN "ok" ELSE IF "fatal" \in failed THEN "fatal"
      ELSE "recoverable"

(* The outcome of a request from those of its lanes: it can be retried     *)
(* only if no lane moved.                                                  *)
GatherLaneResults(f) ==
  LET results == {f[i] : i \in DOMAIN f}
  IN  CASE results \subseteq {"on", "done"} -> "ok"
        [] results = {"recoverable"} -> "recoverable"
        [] OTHER -> "fatal"

(* What a lane plays after the environment served its part of a request. *)
Moved(s, q, f, l) ==
  LET i == CHOOSE j \in 1 .. Len(LanesOf(q)) : LanesOf(q)[j] = l
      fresh == [id |-> IdsOf(s, q)[i], steps |-> 0, over |-> FALSE]
      w == world[l]
  IN  CASE f[i] \notin {"on", "done"} -> w
        [] q.kind = "reset" -> fresh
        [] q.kind = "step" /\ w.over /\ NextStep /\ f[i] = "on" -> fresh
        [] q.kind = "step" /\ w.id # None /\ ~w.over ->
             [w EXCEPT !.steps = @ + 1, !.over = f[i] = "done"]
        [] OTHER -> w

(* An operation at its next await point, and one with its reply ready. *)
At(o, stage, done, reply) ==
  [stream |-> o.stream, req |-> o.req, serial |-> o.serial, stage |-> stage,
   done |-> done, reply |-> reply]

Answered(o, kind, episodes) ==
  (ops \ {o}) \cup {At(o, "send", <<>>, Reply(o.req, kind, episodes))}

(* The call returns.  An expired deadline turns any result into a timeout, *)
(* which the client may recover from; the call ran to its end all the same.*)
RunEnv(o) ==
  /\ o.stage = "env"
  /\ \E f \in Outcomes(o.req), late \in {FALSE, Deadlines} :
       LET q == o.req
           result == IF late THEN "recoverable" ELSE GatherLaneResults(f)
           done == [i \in DOMAIN f |-> f[i] = "done"]
       IN  /\ ops' = IF result = "ok" /\ q.kind # "render"
                     THEN (ops \ {o}) \cup {At(o, "tracker", done, NoReply)}
                     ELSE Answered(o, result, <<>>)
           /\ world' = [l \in Lanes |-> IF l \in Named(q)
                                        THEN Moved(o.stream, q, f, l) ELSE world[l]]
  /\ UNCHANGED <<joinActive, phase, inbox, terminal, replies, tracker, edition,
                 client, books>>

-----------------------------------------------------------------------------
(* The tracker, under its lock.                                            *)

(* faulty: a step that breaks the contract is applied all the same. *)
AnyStep(o) == TRUE

(* The step keeps the NEXT_STEP contract on all its lanes. *)
LegalStep(o) ==
  NextStep => \A i \in 1 .. Len(LanesOf(o.req)) :
                LegalLane(tracker, LanesOf(o.req)[i], o.done[i])

(* Ids whose episodes start when the step is applied: those of its rolls. *)
RolledIds(o) ==
  {IdsOf(o.stream, o.req)[i] : i \in
     {j \in 1 .. Len(LanesOf(o.req)) :
        LaneState(tracker, LanesOf(o.req)[j]) = "pending"}}

TrackReset(o) ==
  /\ o.stage = "tracker" /\ o.req.kind = "reset"
  /\ LET ids == IdsOf(o.stream, o.req)
     IN  /\ tracker' = StartEpisodes(tracker, LanesOf(o.req), ids)
         /\ books' = [books EXCEPT ![o.stream].begun =
                        @ \cup {ids[i] : i \in DOMAIN ids}]
  /\ ops' = Answered(o, "ok", <<>>)
  /\ UNCHANGED <<joinActive, phase, inbox, terminal, replies, edition, world, client>>

TrackStep(o) ==
  /\ o.stage = "tracker" /\ o.req.kind = "step"
  /\ IF LegalStep(o)
     THEN LET after == ApplyStep(tracker, LanesOf(o.req), IdsOf(o.stream, o.req),
                                 o.done, NextStep)
          IN  /\ tracker' = after.tracker
              /\ ops' = Answered(o, "ok", after.completed)
              /\ books' = [books EXCEPT ![o.stream].begun = @ \cup RolledIds(o),
                                        ![o.stream].logged = @ + tracker.dropped]
     ELSE /\ ops' = Answered(o, "fatal", <<>>)
          /\ UNCHANGED <<tracker, books>>
  /\ UNCHANGED <<joinActive, phase, inbox, terminal, replies, edition, world, client>>

TrackClose(o) ==
  /\ o.stage = "tracker" /\ o.req.kind = "close"
  /\ tracker' = NewTracker
  /\ ops' = Answered(o, "close", CompleteAll(tracker))
  /\ books' = [books EXCEPT ![o.stream].logged = @ + tracker.dropped]
  /\ UNCHANGED <<joinActive, phase, inbox, terminal, replies, edition, world, client>>

-----------------------------------------------------------------------------
(* Replies, and the end of the session.                                    *)

(* faulty: a reply that finds the channel full is lost. *)
SendOrDrop(o) ==
  /\ o.stage = "send" /\ ~o.serial
  /\ replies' = IF CanSend(o.stream) THEN Sent(o.stream, o.reply) ELSE replies
  /\ ops' = ops \ {o}
  /\ UNCHANGED <<joinActive, phase, inbox, terminal, tracker, edition, world,
                 client, books>>

SendLane(o) ==
  /\ o.stage = "send" /\ ~o.serial
  /\ CanSend(o.stream)
  /\ replies' = Sent(o.stream, o.reply)
  /\ ops' = ops \ {o}
  /\ UNCHANGED <<joinActive, phase, inbox, terminal, tracker, edition, world,
                 client, books>>

(* faulty: the closing reply is sent before the session is cleaned up. *)
SendAtOnce(o) ==
  /\ o.stage = "send" /\ o.serial
  /\ CanSend(o.stream)
  /\ replies' = Sent(o.stream, o.reply)
  /\ ops' = ops \ {o}
  /\ phase' = [phase EXCEPT ![o.stream] =
                 IF client[o.stream].gone \/ o.reply.kind \in {"close", "fatal"}
                 THEN "draining" ELSE "open"]
  /\ UNCHANGED <<joinActive, inbox, terminal, tracker, edition, world, client, books>>

(* A close or a non-recoverable error leaves the loop with its reply held  *)
(* back; any other reply is sent, and the loop goes on if it got through.  *)
SendSerial(o) ==
  /\ o.stage = "send" /\ o.serial
  /\ ops' = ops \ {o}
  /\ \/ /\ o.reply.kind \in {"close", "fatal"}
        /\ terminal' = [terminal EXCEPT ![o.stream] = o.reply]
        /\ phase' = [phase EXCEPT ![o.stream] = "draining"]
        /\ UNCHANGED replies
     \/ /\ o.reply.kind \notin {"close", "fatal"}
        /\ CanSend(o.stream)
        /\ replies' = Sent(o.stream, o.reply)
        /\ phase' = [phase EXCEPT ![o.stream] =
                       IF client[o.stream].gone THEN "draining" ELSE "open"]
        /\ UNCHANGED terminal
  /\ UNCHANGED <<joinActive, inbox, tracker, edition, world, client, books>>

(* The request stream ends: after its last message, or broken off. *)
StreamEnds(s) ==
  /\ phase[s] = "open"
  /\ client[s].eos
  /\ inbox[s] = <<>> \/ client[s].gone
  /\ phase' = [phase EXCEPT ![s] = "draining"]
  /\ UNCHANGED <<joinActive, inbox, ops, terminal, replies, tracker, edition,
                 world, client, books>>

(* faulty: the leftovers of the session stay in the tracker. *)
NoSweep(s) ==
  /\ phase[s] = "draining"
  /\ Quiet(s)
  /\ phase' = [phase EXCEPT ![s] = "swept"]
  /\ UNCHANGED <<joinActive, inbox, ops, terminal, replies, tracker, edition,
                 world, client, books>>

(* faulty: the session is swept while its lane operations still run. *)
SweepEarly(s) ==
  /\ phase[s] = "draining"
  /\ tracker' = NewTracker
  /\ phase' = [phase EXCEPT ![s] = "swept"]
  /\ books' = [books EXCEPT ![s].logged = @ + tracker.dropped]
  /\ UNCHANGED <<joinActive, inbox, ops, terminal, replies, edition, world, client>>

(* Once the lane operations are through, what is left of the session's     *)
(* episodes is completed and dropped.                                      *)
Sweep(s) ==
  /\ phase[s] = "draining"
  /\ Quiet(s)
  /\ tracker' = NewTracker
  /\ phase' = [phase EXCEPT ![s] = "swept"]
  /\ books' = [books EXCEPT ![s].logged = @ + tracker.dropped]
  /\ UNCHANGED <<joinActive, inbox, ops, terminal, replies, edition, world, client>>

Release(s) ==
  /\ phase[s] = "swept"
  /\ joinActive' = FALSE
  /\ phase' = [phase EXCEPT ![s] = "released"]
  /\ UNCHANGED <<inbox, ops, terminal, replies, tracker, edition, world, client, books>>

(* The held reply goes out and the response stream ends. *)
Finish(s) ==
  /\ phase[s] = "released"
  /\ \/ terminal[s] = NoReply /\ UNCHANGED replies
     \/ terminal[s] # NoReply /\ CanSend(s) /\ replies' = Sent(s, terminal[s])
  /\ terminal' = [terminal EXCEPT ![s] = NoReply]
  /\ phase' = [phase EXCEPT ![s] = "ended"]
  /\ UNCHANGED <<joinActive, inbox, ops, tracker, edition, world, client, books>>

Handle(o) ==
  RunEnv(o) \/ TrackReset(o) \/ TrackStep(o) \/ TrackClose(o) \/ SendLane(o) \/ SendSerial(o)

Loop(s) ==
  ReadLane(s) \/ ReadSerial(s) \/ StreamEnds(s) \/ Sweep(s) \/ Release(s) \/ Finish(s)

Next ==
  \/ \E s \in Streams : Join(s) \/ Refuse(s) \/ ClientSend(s) \/ Receive(s) \/ Hangup(s)
  \/ \E s \in Streams : Loop(s)
  \/ \E o \in ops : Handle(o)

Spec == Init /\ [][Next]_vars

(* The tasks of the server run, environment calls return, and the client's *)
(* pump reads as long as the stream lasts.                                 *)
Fairness ==
  /\ \A s \in Streams : WF_vars(Loop(s)) /\ WF_vars(Receive(s))
  /\ \A s \in Streams, n \in 1 .. MaxRequests :
       WF_vars(\E o \in ops : o.stream = s /\ o.req.n = n /\ Handle(o))

FairSpec == Spec /\ Fairness

-----------------------------------------------------------------------------
(* Properties.                                                             *)

ReplyKinds == {"ok", "recoverable", "fatal", "close"}
Phases == {"idle", "refused", "open", "serving", "draining", "swept", "released", "ended"}

(* The variables keep their types: a stream's task is in one of the phases *)
(* of the join function, an operation is at one of its await points, and   *)
(* the interrupted buffer keeps within MAX_INTERRUPTED_EPISODES.           *)
TypeOK ==
  /\ joinActive \in BOOLEAN
  /\ phase \in [Streams -> Phases]
  /\ \A o \in ops : /\ o.stream \in Streams
                    /\ o.serial \in BOOLEAN
                    /\ o.stage \in {"env", "tracker", "send"}
                    /\ o.stage = "send" => o.reply.kind \in ReplyKinds
  /\ \A s \in Streams : /\ terminal[s].kind \in {"none", "close", "fatal"}
                        /\ \A i \in DOMAIN replies[s] : replies[s][i].kind \in ReplyKinds
  /\ DOMAIN tracker.active = Lanes
  /\ tracker.pending \subseteq Lanes
  /\ Len(tracker.interrupted) <= MaxInterrupted

(* The task that took the slot in join holds it alone until it drops its   *)
(* guard, every operation belongs to it, and a serial operation runs with  *)
(* no other operation in progress, so two sessions never meet in the       *)
(* environment and whole-vector work finds the lanes quiet.                *)
SlotExclusive ==
  /\ joinActive <=> \E s \in Streams : phase[s] \in Holding
  /\ \A s, r \in Streams : phase[s] \in Holding /\ phase[r] \in Holding => s = r
  /\ \A o \in ops : /\ phase[o.stream] \in {"open", "serving", "draining"}
                    /\ o.serial => ops = {o} /\ phase[o.stream] = "serving"

(* A client that has the final reply of its session, or saw the response   *)
(* stream end, finds the slot released: join drops the guard before it     *)
(* sends the terminal response and drops the sender.                       *)
ReleaseBarrier ==
  \A s \in Streams :
    phase[s] = "ended" \/ (\E i \in DOMAIN replies[s] : replies[s][i].kind = "close")
      => phase[s] \notin Holding

RepliesOf(s) ==
  {replies[s][i] : i \in DOMAIN replies[s]}
  \cup {o.reply : o \in OpsOf(s)} \cup {terminal[s]}

Reported(r) == {r.episodes[i].id : i \in DOMAIN r.episodes}

Tracked ==
  {tracker.active[l].id : l \in {m \in Lanes : tracker.active[m] # None}}
  \cup {tracker.interrupted[i].id : i \in DOMAIN tracker.interrupted}

(* An episode is reported at most once over all the responses of its       *)
(* session, and never while the tracker still holds it: drain_interrupted, *)
(* complete_episode and complete_all each take what they report.           *)
ReportedOnce ==
  \A s \in Streams :
    /\ \A r \in RepliesOf(s) :
         /\ Cardinality(Reported(r)) = Len(r.episodes)
         /\ Reported(r) \cap Tracked = {}
    /\ \A r, q \in RepliesOf(s) : r # q => Reported(r) \cap Reported(q) = {}

(* A response never reports an episode of another session, although the    *)
(* tracker is shared: every session leaves it empty, however it ends.      *)
OwnEpisodes ==
  /\ \A s \in Streams : \A r \in RepliesOf(s) : \A id \in Reported(r) : id[1] = s
  /\ \A s \in Streams : phase[s] \in Holding => \A id \in Tracked : id[1] = s
  /\ ~joinActive => tracker = NewTracker

ClosedBy(s) == \E r \in RepliesOf(s) : r.kind = "close"

(* Nothing is lost without a trace: in a session whose client listens,     *)
(* every episode a reset or a roll began is still tracked, was reported,   *)
(* or is counted among the drops take_interrupted logs; after a close      *)
(* nothing is tracked any more, so the close reported all that was left.   *)
AccountedFor ==
  \A s \in Streams :
    ~client[s].gone /\ (phase[s] \in {"open", "serving"} \/ ClosedBy(s)) =>
      LET known == UNION {Reported(r) : r \in RepliesOf(s)} \cup Tracked
          drops == books[s].logged + (IF phase[s] \in Holding THEN tracker.dropped ELSE 0)
      IN  Cardinality(books[s].begun \ known) = drops

(* The tracker's books are right: within its bounds, every episode is      *)
(* reported once, kept, or counted as dropped.                             *)
EpisodesAccounted == TypeOK /\ ReportedOnce /\ AccountedFor

(* The session is served and its client was told of no fatal error. *)
Healthy(s) ==
  /\ phase[s] \in {"open", "serving"}
  /\ ~client[s].gone
  /\ \A r \in RepliesOf(s) : r.kind \notin {"fatal", "close"}

Resting(l) == \A o \in ops : o.stage # "send" => l \notin Named(o.req)

(* Between requests the tracker agrees with the environment on every lane: *)
(* a lane it calls active plays that episode and took as many steps, one   *)
(* it calls pending is over, and one it calls idle plays nothing that this *)
(* session started.  Only a non-recoverable error ends this agreement.     *)
TrackerFollowsEnv ==
  \A s \in Streams :
    Healthy(s) => \A l \in Lanes : Resting(l) =>
        CASE LaneState(tracker, l) = "active" ->
               /\ world[l].id = tracker.active[l].id
               /\ world[l].steps = tracker.active[l].steps
               /\ ~world[l].over
          [] LaneState(tracker, l) = "pending" -> world[l].over
          [] LaneState(tracker, l) = "idle" ->
               world[l].id = None \/ world[l].id[1] # s \/ world[l].over

(* The environment runs a session's operations at the edition that session *)
(* settled with its first message, never at the previous session's.        *)
EditionSettled ==
  \A o \in ops : o.stage = "env" => edition = client[o.stream].pin

(* Nothing passes from one session to the next: neither episodes, through  *)
(* the tracker, nor the edition, through the environment.                  *)
SessionsApart == OwnEpisodes /\ EditionSettled

(* The server ends the session after a non-recoverable error: once such a  *)
(* reply is out, the stream ends and the slot is free, without the help of *)
(* the client.                                                             *)
FatalEnds ==
  \A s \in Streams :
    (\E i \in DOMAIN replies[s] : replies[s][i].kind = "fatal") ~> phase[s] = "ended"

(* A session whose client is gone ends, and with it the slot is freed,     *)
(* whatever was in flight when the client left.                            *)
DroppedSessionEnds ==
  \A s \in Streams : client[s].gone ~> phase[s] = "ended"

(* A request is answered or its stream ends; in particular a full response *)
(* channel, or a request that waits for the lanes, holds nobody up for     *)
(* ever.                                                                   *)
AnsweredOrEnded ==
  \A s \in Streams, n \in 1 .. MaxRequests :
    (\E q \in client[s].waiting : q.n = n) ~>
      \/ \A q \in client[s].waiting : q.n # n
      \/ phase[s] = "ended"

(* The endpoint never hangs: requests are answered and abandoned sessions  *)
(* end, so that the slot becomes free again.                               *)
SessionsProgress == AnsweredOrEnded /\ DroppedSessionEnds
=============================================================================
