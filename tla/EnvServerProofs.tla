--------------------------- MODULE EnvServerProofs ---------------------------
(***************************************************************************)
(* Theorems about the environment server, for any number of streams and    *)
(* lanes: the session slot is exclusive, the closing reply comes after its *)
(* release, and no session finds anything of another in the tracker.       *)
(***************************************************************************)
EXTENDS EnvServer, TLAPS

(* An operation has the fields that Begin gives it. *)
OpShape(o) ==
  /\ o = [stream |-> o.stream, req |-> o.req, serial |-> o.serial,
          stage |-> o.stage, done |-> o.done, reply |-> o.reply]
  /\ o.stream \in Streams
  /\ o.serial \in BOOLEAN

(* The state of the slot, with the types that the argument needs. *)
SlotInv ==
  /\ joinActive \in BOOLEAN
  /\ phase \in [Streams -> Phases]
  /\ \A o \in ops : OpShape(o)
  /\ SlotExclusive

(* What an operation in progress may do to the slot: nothing.  The step of *)
(* a handler from one await point to the next keeps its stream and kind.   *)
LEMMA HandlerKeepsSlot ==
  ASSUME SlotInv, NEW o \in ops, NEW p,
         OpShape(p), p.stream = o.stream, p.serial = o.serial,
         ops' = (ops \ {o}) \cup {p},
         UNCHANGED <<joinActive, phase>>
  PROVE  SlotInv'
BY DEF SlotInv, SlotExclusive, OpShape

(* Steps of the clients leave the slot, the phases and the operations. *)
LEMMA ClientKeepsSlot ==
  ASSUME SlotInv, UNCHANGED <<joinActive, phase, ops>>
  PROVE  SlotInv'
BY DEF SlotInv, SlotExclusive, OpShape

(* The initial state has no session. *)
LEMMA InitSlot == Init => SlotInv
BY DEF Init, SlotInv, SlotExclusive, Holding, Phases

(* A Join takes the slot only when no stream holds it. *)
LEMMA JoinSlot ==
  ASSUME SlotInv, NEW s \in Streams, Join(s)
  PROVE  SlotInv'
BY DEF SlotInv, SlotExclusive, OpShape, Join, Holding, Phases

(* A refused Join leaves the slot alone. *)
LEMMA RefuseSlot ==
  ASSUME SlotInv, NEW s \in Streams, Refuse(s)
  PROVE  SlotInv'
BY DEF SlotInv, SlotExclusive, OpShape, Refuse, Holding, Phases

(* What Begin makes of a request is an operation of the stream. *)
LEMMA BeginShape ==
  ASSUME NEW s \in Streams, NEW q, NEW serial \in BOOLEAN
  PROVE  /\ OpShape(Begin(s, q, serial))
         /\ Begin(s, q, serial).stream = s
         /\ Begin(s, q, serial).serial = serial
BY DEF OpShape, Begin

(* A lane operation starts in the stream that holds the slot, which is not *)
(* serving a serial request.                                               *)
LEMMA ReadLaneSlot ==
  ASSUME SlotInv, NEW s \in Streams, ReadLane(s)
  PROVE  SlotInv'
<1> DEFINE b == Begin(s, Head(inbox[s]), FALSE)
<1>1. OpShape(b) /\ b.stream = s /\ b.serial = FALSE
  BY BeginShape
<1>2. ops' = ops \cup {b} /\ UNCHANGED <<joinActive, phase>> /\ phase[s] = "open"
  BY DEF ReadLane
<1> HIDE DEF b
<1>3. \A o \in ops : ~o.serial
  BY <1>2 DEF SlotInv, SlotExclusive, OpShape, Holding
<1> QED
  BY <1>1, <1>2, <1>3 DEF SlotInv, SlotExclusive, OpShape, Holding

(* A serial operation starts when nothing else is in progress. *)
LEMMA ReadSerialSlot ==
  ASSUME SlotInv, NEW s \in Streams, ReadSerial(s)
  PROVE  SlotInv'
<1> DEFINE b == Begin(s, Head(inbox[s]), TRUE)
<1>1. OpShape(b) /\ b.stream = s /\ b.serial = TRUE
  BY BeginShape
<1>2. /\ ops' = ops \cup {b} /\ UNCHANGED joinActive
      /\ phase[s] = "open" /\ phase' = [phase EXCEPT ![s] = "serving"]
      /\ Quiet(s)
  BY DEF ReadSerial
<1> HIDE DEF b
<1>3. ops = {}
  BY <1>2 DEF SlotInv, SlotExclusive, OpShape, Holding, Quiet, OpsOf
<1> QED
  BY <1>1, <1>2, <1>3 DEF SlotInv, SlotExclusive, OpShape, Holding, Phases

(* The reply of a lane operation ends it and changes nothing else. *)
LEMMA SendLaneSlot ==
  ASSUME SlotInv, NEW o \in ops, SendLane(o)
  PROVE  SlotInv'
BY DEF SlotInv, SlotExclusive, OpShape, SendLane

(* The reply of a serial operation leaves no operation behind. *)
LEMMA SendSerialSlot ==
  ASSUME SlotInv, NEW o \in ops, SendSerial(o)
  PROVE  SlotInv'
<1>1. /\ ops' = {} /\ UNCHANGED joinActive /\ o.stream \in Streams
      /\ phase[o.stream] = "serving"
  BY DEF SlotInv, SlotExclusive, OpShape, SendSerial
<1>2. PICK p \in {"open", "draining"} : phase' = [phase EXCEPT ![o.stream] = p]
  BY DEF SendSerial
<1> QED
  BY <1>1, <1>2 DEF SlotInv, SlotExclusive, Holding, Phases

(* Leaving the read loop keeps the slot. *)
LEMMA StreamEndsSlot ==
  ASSUME SlotInv, NEW s \in Streams, StreamEnds(s)
  PROVE  SlotInv'
BY DEF SlotInv, SlotExclusive, OpShape, StreamEnds, Holding, Phases

(* The sweep comes after the last operation of the session. *)
LEMMA SweepSlot ==
  ASSUME SlotInv, NEW s \in Streams, Sweep(s)
  PROVE  SlotInv'
BY DEF SlotInv, SlotExclusive, OpShape, Sweep, Quiet, OpsOf, Holding, Phases

(* The guard is dropped by the only stream that holds the slot. *)
LEMMA ReleaseSlot ==
  ASSUME SlotInv, NEW s \in Streams, Release(s)
  PROVE  SlotInv'
BY DEF SlotInv, SlotExclusive, OpShape, Release, Holding, Phases

(* The end of the response stream no longer concerns the slot. *)
LEMMA FinishSlot ==
  ASSUME SlotInv, NEW s \in Streams, Finish(s)
  PROVE  SlotInv'
BY DEF SlotInv, SlotExclusive, OpShape, Finish, Holding, Phases

(* The next await point of an operation is an operation of its stream. *)
LEMMA AtShape ==
  ASSUME NEW o, OpShape(o), NEW stage, NEW done, NEW reply
  PROVE  /\ OpShape(At(o, stage, done, reply))
         /\ At(o, stage, done, reply).stream = o.stream
         /\ At(o, stage, done, reply).serial = o.serial
BY DEF OpShape, At

(* An operation that moves on replaces itself. *)
LEMMA AtSlot ==
  ASSUME SlotInv, NEW o \in ops, NEW stage, NEW done, NEW reply,
         ops' = (ops \ {o}) \cup {At(o, stage, done, reply)},
         UNCHANGED <<joinActive, phase>>
  PROVE  SlotInv'
<1> DEFINE p == At(o, stage, done, reply)
<1>1. OpShape(p) /\ p.stream = o.stream /\ p.serial = o.serial
  BY AtShape DEF SlotInv
<1>2. ops' = (ops \ {o}) \cup {p}
  OBVIOUS
<1> HIDE DEF p
<1> QED
  BY <1>1, <1>2, HandlerKeepsSlot

(* An answered operation replaces the one in progress. *)
LEMMA AnsweredSlot ==
  ASSUME SlotInv, NEW o \in ops, NEW kind, NEW episodes,
         ops' = Answered(o, kind, episodes), UNCHANGED <<joinActive, phase>>
  PROVE  SlotInv'
BY AtSlot DEF Answered

(* The environment call ends in an answer or at the tracker's lock. *)
LEMMA RunEnvSlot ==
  ASSUME SlotInv, NEW o \in ops, RunEnv(o)
  PROVE  SlotInv'
<1>1. \/ \E kind : ops' = Answered(o, kind, <<>>)
      \/ \E done : ops' = (ops \ {o}) \cup {At(o, "tracker", done, NoReply)}
  BY Zenon DEF RunEnv
<1>2. UNCHANGED <<joinActive, phase>>
  BY DEF RunEnv
<1> QED
  BY <1>1, <1>2, AnsweredSlot, AtSlot

(* Every step keeps the slot exclusive. *)
LEMMA SlotStep == SlotInv /\ [Next]_vars => SlotInv'
<1> SUFFICES ASSUME SlotInv, [Next]_vars PROVE SlotInv'
  OBVIOUS
<1>1. ASSUME NEW s \in Streams,
             Join(s) \/ Refuse(s) \/ ClientSend(s) \/ Receive(s) \/ Hangup(s)
      PROVE  SlotInv'
  <2>1. CASE ClientSend(s) \/ Receive(s) \/ Hangup(s)
    BY <2>1, ClientKeepsSlot DEF ClientSend, Receive, Hangup
  <2> QED
    BY <1>1, <2>1, JoinSlot, RefuseSlot
<1>2. ASSUME NEW s \in Streams, Loop(s)
      PROVE  SlotInv'
  BY <1>2, ReadLaneSlot, ReadSerialSlot, StreamEndsSlot, SweepSlot, ReleaseSlot,
     FinishSlot DEF Loop
<1>3. ASSUME NEW o \in ops, Handle(o)
      PROVE  SlotInv'
  <2>1. CASE TrackReset(o)
    BY <2>1, AnsweredSlot DEF TrackReset
  <2>2. CASE TrackStep(o)
    <3>1. PICK kind, episodes : ops' = Answered(o, kind, episodes)
      BY <2>2, Zenon DEF TrackStep
    <3>2. UNCHANGED <<joinActive, phase>>
      BY <2>2 DEF TrackStep
    <3> QED
      BY <3>1, <3>2, AnsweredSlot
  <2>3. CASE TrackClose(o)
    BY <2>3, AnsweredSlot DEF TrackClose
  <2> QED
    BY <1>3, <2>1, <2>2, <2>3, RunEnvSlot, SendLaneSlot, SendSerialSlot DEF Handle
<1>4. CASE UNCHANGED vars
  BY <1>4, ClientKeepsSlot DEF vars
<1> QED
  BY <1>1, <1>2, <1>3, <1>4 DEF Next

(* Over every behaviour one Join stream at a time holds the slot, only it  *)
(* has operations in the environment, and a serial operation is alone:     *)
(* the compare-exchange in join, the drop of the guard after the last lane *)
(* task, and the wait for lane tasks before a serial request.              *)
THEOREM SlotIsExclusive == Spec => []SlotExclusive
<1>1. SlotInv => SlotExclusive
  BY DEF SlotInv
<1> QED
  BY <1>1, InitSlot, SlotStep, PTL DEF Spec

-----------------------------------------------------------------------------
(* The hand-over of the tracker.                                           *)

(* Nobody holds the slot, or its holder has swept: the tracker is empty. *)
EmptyWhenFree ==
  /\ ~joinActive => tracker = NewTracker
  /\ \A s \in Streams : phase[s] = "swept" => tracker = NewTracker

(* An operation that changes the tracker belongs to a session that has the *)
(* slot and has not swept it.                                              *)
LEMMA TrackKeepsEmpty ==
  ASSUME SlotInv, EmptyWhenFree, NEW o \in ops, UNCHANGED <<joinActive, phase>>
  PROVE  EmptyWhenFree'
BY DEF SlotInv, SlotExclusive, OpShape, EmptyWhenFree, Holding

(* Every other step leaves the tracker, and no stream becomes swept. *)
LEMMA OthersKeepEmpty ==
  ASSUME SlotInv, EmptyWhenFree, UNCHANGED <<joinActive, tracker>>,
         NEW s \in Streams, NEW p \in Phases \ {"swept"},
         phase' = [phase EXCEPT ![s] = p]
  PROVE  EmptyWhenFree'
BY DEF SlotInv, EmptyWhenFree

(* Each step of the read loop keeps the hand-over. *)
LEMMA LoopKeepsEmpty ==
  ASSUME SlotInv, EmptyWhenFree, NEW s \in Streams, Loop(s)
  PROVE  EmptyWhenFree'
<1>1. CASE ReadLane(s)
  BY <1>1 DEF ReadLane, EmptyWhenFree
<1>2. CASE ReadSerial(s)
  BY <1>2, OthersKeepEmpty DEF ReadSerial, Phases
<1>3. CASE StreamEnds(s)
  BY <1>3, OthersKeepEmpty DEF StreamEnds, Phases
<1>4. CASE Sweep(s)
  BY <1>4 DEF Sweep, EmptyWhenFree
<1>5. CASE Release(s)
  BY <1>5 DEF Release, EmptyWhenFree, SlotInv, SlotExclusive, Holding
<1>6. CASE Finish(s)
  BY <1>6, OthersKeepEmpty DEF Finish, Phases
<1> QED
  BY <1>1, <1>2, <1>3, <1>4, <1>5, <1>6 DEF Loop

(* Each step of a handler keeps the hand-over. *)
LEMMA HandleKeepsEmpty ==
  ASSUME SlotInv, EmptyWhenFree, NEW o \in ops, Handle(o)
  PROVE  EmptyWhenFree'
<1>1. CASE RunEnv(o)
  BY <1>1, TrackKeepsEmpty DEF RunEnv
<1>2. CASE TrackReset(o) \/ TrackStep(o) \/ TrackClose(o)
  BY <1>2, TrackKeepsEmpty DEF TrackReset, TrackStep, TrackClose
<1>3. CASE SendLane(o)
  BY <1>3, TrackKeepsEmpty DEF SendLane
<1>4. CASE SendSerial(o)
  <2>1. PICK p \in {"open", "draining"} : phase' = [phase EXCEPT ![o.stream] = p]
    BY <1>4 DEF SendSerial
  <2>2. o.stream \in Streams /\ p \in Phases \ {"swept"}
    BY DEF SlotInv, OpShape, Phases
  <2> QED
    BY <1>4, <2>1, <2>2, OthersKeepEmpty DEF SendSerial
<1> QED
  BY <1>1, <1>2, <1>3, <1>4 DEF Handle

(* Every step keeps the hand-over. *)
LEMMA EmptyStep == SlotInv /\ EmptyWhenFree /\ [Next]_vars => EmptyWhenFree'
<1> SUFFICES ASSUME SlotInv, EmptyWhenFree, [Next]_vars PROVE EmptyWhenFree'
  OBVIOUS
<1>1. ASSUME NEW s \in Streams,
             Join(s) \/ Refuse(s) \/ ClientSend(s) \/ Receive(s) \/ Hangup(s)
      PROVE  EmptyWhenFree'
  <2>1. CASE Join(s)
    BY <2>1 DEF Join, SlotInv, SlotExclusive, Holding, EmptyWhenFree
  <2>2. CASE Refuse(s)
    BY <2>2, OthersKeepEmpty DEF Refuse, Phases
  <2>3. CASE ClientSend(s) \/ Receive(s) \/ Hangup(s)
    BY <2>3 DEF ClientSend, Receive, Hangup, EmptyWhenFree
  <2> QED
    BY <1>1, <2>1, <2>2, <2>3
<1>2. CASE UNCHANGED vars
  BY <1>2 DEF vars, EmptyWhenFree
<1> QED
  BY <1>1, <1>2, LoopKeepsEmpty, HandleKeepsEmpty DEF Next

(* A session that takes the slot finds the episode tracker as new, however *)
(* the sessions before it ended: complete_all runs after the last lane     *)
(* task of a session and before its guard is dropped.                      *)
THEOREM SessionsStartClean == Spec => [](~joinActive => tracker = NewTracker)
<1>1. Init => EmptyWhenFree
  BY DEF Init, EmptyWhenFree
<1>2. EmptyWhenFree => (~joinActive => tracker = NewTracker)
  BY DEF EmptyWhenFree
<1> QED
  BY <1>1, <1>2, InitSlot, SlotStep, EmptyStep, PTL DEF Spec

-----------------------------------------------------------------------------
(* The closing reply.                                                      *)

(* A sequence, of whatever elements. *)
IsSeq(r) == \E S : r \in Seq(S)

(* What a stream holds after one more reply. *)
LEMMA AppendReply ==
  ASSUME NEW r, IsSeq(r), NEW x
  PROVE  /\ IsSeq(Append(r, x))
         /\ \A i \in DOMAIN Append(r, x) :
              (i \in DOMAIN r /\ Append(r, x)[i] = r[i]) \/ Append(r, x)[i] = x
<1>1. PICK S : r \in Seq(S)
  BY DEF IsSeq
<1>2. r \in Seq(S \cup {x})
  BY <1>1
<1>3. Append(r, x) \in Seq(S \cup {x})
  BY <1>2
<1> QED
  BY <1>2, <1>3 DEF IsSeq

(* A stream on which the closing reply is out has ended. *)
RepliesClosedLast ==
  /\ DOMAIN replies = Streams
  /\ \A s \in Streams : IsSeq(replies[s])
  /\ \A s \in Streams : \A i \in DOMAIN replies[s] :
       replies[s][i].kind = "close" => phase[s] = "ended"

(* A reply may be sent that is not the closing one, or is the last of its  *)
(* stream.                                                                 *)
LEMMA SentKeepsClosed ==
  ASSUME NEW s \in Streams, NEW x, RepliesClosedLast, replies' = Sent(s, x),
         x.kind = "close" => phase'[s] = "ended",
         \A t \in Streams : phase[t] = "ended" => phase'[t] = "ended"
  PROVE  RepliesClosedLast'
<1>1. CASE client[s].gone
  BY <1>1 DEF Sent, RepliesClosedLast
<1>2. CASE ~client[s].gone
  <2>1. replies' = [replies EXCEPT ![s] = Append(replies[s], x)]
    BY <1>2 DEF Sent
  <2>2. DOMAIN replies' = Streams /\ replies'[s] = Append(replies[s], x)
    BY <2>1 DEF RepliesClosedLast
  <2>3. \A t \in Streams \ {s} : replies'[t] = replies[t]
    BY <2>1 DEF RepliesClosedLast
  <2>4. /\ IsSeq(replies'[s])
        /\ \A i \in DOMAIN replies'[s] :
             \/ i \in DOMAIN replies[s] /\ replies'[s][i] = replies[s][i]
             \/ replies'[s][i] = x
    BY <2>2, AppendReply DEF RepliesClosedLast
  <2>5. \A t \in Streams : IsSeq(replies'[t])
    BY <2>3, <2>4 DEF RepliesClosedLast
  <2>6. \A i \in DOMAIN replies'[s] :
          replies'[s][i].kind = "close" => phase'[s] = "ended"
    BY <2>4 DEF RepliesClosedLast
  <2>7. ASSUME NEW t \in Streams \ {s}, NEW i \in DOMAIN replies'[t],
               replies'[t][i].kind = "close"
        PROVE  phase'[t] = "ended"
    BY <2>3, <2>7 DEF RepliesClosedLast
  <2> QED
    BY <2>2, <2>5, <2>6, <2>7 DEF RepliesClosedLast
<1> QED
  BY <1>1, <1>2

(* No lane operation is about to close the session. *)
LanesNeverClose ==
  \A o \in ops : ~o.serial => o.req.kind # "close" /\ o.reply.kind # "close"

(* What starts as a lane operation is a reset or a step. *)
LEMMA BeginNeverCloses ==
  ASSUME NEW s \in Streams, NEW q, LaneScoped(q)
  PROVE  /\ Begin(s, q, FALSE).req.kind # "close"
         /\ Begin(s, q, FALSE).reply.kind # "close"
BY DEF Begin, LaneScoped, Reply, NoReply

(* An operation that moves on to a reply other than the closing one. *)
LEMMA AtNeverCloses ==
  ASSUME LanesNeverClose, NEW o \in ops, NEW stage, NEW done, NEW reply,
         reply.kind # "close" \/ o.req.kind = "close",
         ops' = (ops \ {o}) \cup {At(o, stage, done, reply)}
  PROVE  LanesNeverClose'
<1> DEFINE p == At(o, stage, done, reply)
<1>1. p.serial = o.serial /\ p.req = o.req /\ p.reply = reply
  BY DEF At
<1>2. ops' = (ops \ {o}) \cup {p}
  OBVIOUS
<1> HIDE DEF p
<1> QED
  BY <1>1, <1>2 DEF LanesNeverClose

(* An operation that is answered, with the closing reply only for a close. *)
LEMMA AnsweredNeverCloses ==
  ASSUME LanesNeverClose, NEW o \in ops, NEW kind, NEW episodes,
         kind # "close" \/ o.req.kind = "close",
         ops' = Answered(o, kind, episodes)
  PROVE  LanesNeverClose'
<1>1. Reply(o.req, kind, episodes).kind = kind
  BY DEF Reply
<1> QED
  BY <1>1, AtNeverCloses DEF Answered

(* A step of a handler gives no lane operation a closing reply. *)
LEMMA HandleNeverCloses ==
  ASSUME LanesNeverClose, NEW o \in ops, Handle(o)
  PROVE  LanesNeverClose'
<1>1. CASE RunEnv(o)
  <2>1. \/ \E kind \in {"ok", "recoverable", "fatal"} : ops' = Answered(o, kind, <<>>)
        \/ \E done : ops' = (ops \ {o}) \cup {At(o, "tracker", done, NoReply)}
    <3>1. \A f : GatherLaneResults(f) \in {"ok", "recoverable", "fatal"}
      BY DEF GatherLaneResults
    <3>2. PICK f \in Outcomes(o.req), late \in {FALSE, Deadlines} :
            LET result == IF late THEN "recoverable" ELSE GatherLaneResults(f)
                done == [i \in DOMAIN f |-> f[i] = "done"]
            IN  ops' = IF result = "ok" /\ o.req.kind # "render"
                       THEN (ops \ {o}) \cup {At(o, "tracker", done, NoReply)}
                       ELSE Answered(o, result, <<>>)
      BY <1>1, Zenon DEF RunEnv
    <3> DEFINE result == IF late THEN "recoverable" ELSE GatherLaneResults(f)
    <3>3. result \in {"ok", "recoverable", "fatal"}
      BY <3>1
    <3>4. \/ ops' = Answered(o, result, <<>>)
          \/ \E done : ops' = (ops \ {o}) \cup {At(o, "tracker", done, NoReply)}
      BY <3>2, Zenon
    <3> QED
      BY <3>3, <3>4, Zenon
  <2>2. NoReply.kind # "close"
    BY DEF NoReply
  <2> QED
    BY <2>1, <2>2, AnsweredNeverCloses, AtNeverCloses
<1>2. CASE TrackReset(o)
  BY <1>2, AnsweredNeverCloses DEF TrackReset
<1>3. CASE TrackStep(o)
  <2>1. \E kind \in {"ok", "fatal"} : \E episodes : ops' = Answered(o, kind, episodes)
    BY <1>3, Zenon DEF TrackStep
  <2> QED
    BY <2>1, AnsweredNeverCloses
<1>4. CASE TrackClose(o)
  BY <1>4, AnsweredNeverCloses DEF TrackClose
<1>5. CASE SendLane(o) \/ SendSerial(o)
  BY <1>5 DEF SendLane, SendSerial, LanesNeverClose
<1> QED
  BY <1>1, <1>2, <1>3, <1>4, <1>5 DEF Handle

(* A lane operation is started for a reset or a step. *)
LEMMA LoopNeverCloses ==
  ASSUME LanesNeverClose, SlotInv, NEW s \in Streams, Loop(s)
  PROVE  LanesNeverClose'
<1>1. CASE ReadLane(s)
  <2> DEFINE b == Begin(s, Head(inbox[s]), FALSE)
  <2>1. b.req.kind # "close" /\ b.reply.kind # "close"
    BY <1>1, BeginNeverCloses DEF ReadLane
  <2>2. ops' = ops \cup {b}
    BY <1>1 DEF ReadLane
  <2> HIDE DEF b
  <2> QED
    BY <2>1, <2>2 DEF LanesNeverClose
<1>2. CASE ReadSerial(s)
  <2> DEFINE b == Begin(s, Head(inbox[s]), TRUE)
  <2>1. b.serial
    BY BeginShape
  <2>2. ops' = ops \cup {b}
    BY <1>2 DEF ReadSerial
  <2> HIDE DEF b
  <2> QED
    BY <2>1, <2>2 DEF LanesNeverClose
<1>3. CASE StreamEnds(s) \/ Sweep(s) \/ Release(s) \/ Finish(s)
  BY <1>3 DEF StreamEnds, Sweep, Release, Finish, LanesNeverClose
<1> QED
  BY <1>1, <1>2, <1>3 DEF Loop

(* The closing reply is sent by Finish alone: lane operations have none,   *)
(* and a serial one holds its own back.                                    *)
LEMMA RepliesStep ==
  ASSUME SlotInv, LanesNeverClose, RepliesClosedLast, Next
  PROVE  RepliesClosedLast'
<1>1. ASSUME NEW s \in Streams, NEW p, phase[s] # "ended",
             phase' = [phase EXCEPT ![s] = p]
      PROVE  \A t \in Streams : phase[t] = "ended" => phase'[t] = "ended"
  BY <1>1 DEF SlotInv
<1>2. ASSUME UNCHANGED replies,
             \A t \in Streams : phase[t] = "ended" => phase'[t] = "ended"
      PROVE  RepliesClosedLast'
  BY <1>2 DEF RepliesClosedLast
<1>3. ASSUME NEW s \in Streams,
             Join(s) \/ Refuse(s) \/ ClientSend(s) \/ Receive(s) \/ Hangup(s)
      PROVE  RepliesClosedLast'
  BY <1>1, <1>2, <1>3 DEF Join, Refuse, ClientSend, Receive, Hangup
<1>4. ASSUME NEW s \in Streams, Loop(s)
      PROVE  RepliesClosedLast'
  <2>1. CASE ReadLane(s) \/ ReadSerial(s) \/ StreamEnds(s)
    BY <1>1, <1>2, <2>1 DEF ReadLane, ReadSerial, StreamEnds
  <2>2. CASE Sweep(s) \/ Release(s)
    BY <1>1, <1>2, <2>2 DEF Sweep, Release
  <2>3. CASE Finish(s)
    <3>1. /\ phase[s] # "ended" /\ phase' = [phase EXCEPT ![s] = "ended"]
          /\ phase'[s] = "ended"
      BY <2>3 DEF Finish, SlotInv
    <3>2. UNCHANGED replies \/ replies' = Sent(s, terminal[s])
      BY <2>3 DEF Finish
    <3> QED
      BY <1>1, <1>2, <3>1, <3>2, SentKeepsClosed
  <2> QED
    BY <1>4, <2>1, <2>2, <2>3 DEF Loop
<1>5. ASSUME NEW o \in ops, Handle(o)
      PROVE  RepliesClosedLast'
  <2>0. o.stream \in Streams
    BY DEF SlotInv, OpShape
  <2>1. CASE RunEnv(o) \/ TrackReset(o) \/ TrackStep(o) \/ TrackClose(o)
    BY <1>2, <2>1 DEF RunEnv, TrackReset, TrackStep, TrackClose
  <2>2. CASE SendLane(o)
    <3>1. o.reply.kind # "close" /\ UNCHANGED phase /\ replies' = Sent(o.stream, o.reply)
      BY <2>2 DEF SendLane, LanesNeverClose
    <3> QED
      BY <2>0, <3>1, SentKeepsClosed
  <2>3. CASE SendSerial(o)
    <3>1. phase[o.stream] # "ended"
      BY <2>3 DEF SendSerial, SlotInv, SlotExclusive
    <3>2. PICK p \in {"open", "draining"} : phase' = [phase EXCEPT ![o.stream] = p]
      BY <2>3 DEF SendSerial
    <3>3. \/ UNCHANGED replies
          \/ o.reply.kind # "close" /\ replies' = Sent(o.stream, o.reply)
      BY <2>3 DEF SendSerial
    <3> QED
      BY <1>1, <1>2, <2>0, <3>1, <3>2, <3>3, SentKeepsClosed
  <2> QED
    BY <1>5, <2>1, <2>2, <2>3 DEF Handle
<1> QED
  BY <1>3, <1>4, <1>5 DEF Next

(* Every step keeps the three parts of the invariant together. *)
LEMMA ClosedStep ==
  SlotInv /\ LanesNeverClose /\ RepliesClosedLast /\ [Next]_vars
    => LanesNeverClose' /\ RepliesClosedLast'
<1> SUFFICES ASSUME SlotInv, LanesNeverClose, RepliesClosedLast, [Next]_vars
             PROVE  LanesNeverClose' /\ RepliesClosedLast'
  OBVIOUS
<1>1. ASSUME NEW s \in Streams,
             Join(s) \/ Refuse(s) \/ ClientSend(s) \/ Receive(s) \/ Hangup(s)
      PROVE  LanesNeverClose'
  BY <1>1 DEF Join, Refuse, ClientSend, Receive, Hangup, LanesNeverClose
<1>2. CASE Next
  BY <1>1, <1>2, LoopNeverCloses, HandleNeverCloses, RepliesStep DEF Next
<1>3. CASE UNCHANGED vars
  BY <1>3 DEF vars, LanesNeverClose, RepliesClosedLast
<1> QED
  BY <1>2, <1>3

(* A client that has the closing reply of its session, or saw its response *)
(* stream end, finds the slot free of it, whatever the other streams do:   *)
(* join drops the guard before it sends the terminal response, and no lane *)
(* task sends one.                                                         *)
THEOREM CloseMeansReleased == Spec => []ReleaseBarrier
<1>1. Init => LanesNeverClose /\ RepliesClosedLast
  <2> SUFFICES ASSUME Init PROVE LanesNeverClose /\ RepliesClosedLast
    OBVIOUS
  <2>1. IsSeq(<<>>) /\ DOMAIN <<>> = {}
    <3>1. <<>> \in Seq({}) /\ DOMAIN <<>> = {}
      OBVIOUS
    <3> QED
      BY <3>1 DEF IsSeq
  <2>2. ops = {} /\ replies = [s \in Streams |-> <<>>]
    BY DEF Init
  <2>3. LanesNeverClose
    BY <2>2 DEF LanesNeverClose
  <2>4. RepliesClosedLast
    BY <2>1, <2>2 DEF RepliesClosedLast
  <2> QED
    BY <2>3, <2>4
<1>2. RepliesClosedLast => ReleaseBarrier
  BY DEF RepliesClosedLast, ReleaseBarrier, Holding
<1> QED
  BY <1>1, <1>2, InitSlot, SlotStep, ClosedStep, PTL DEF Spec
=============================================================================
