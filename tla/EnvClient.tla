------------------------------ MODULE EnvClient ------------------------------
(* Clients of one environment server in one process                         *)
(* (crates/rlmesh-grpc/src/env/client.rs and env/stream.rs).                *)
(*                                                                          *)
(* The clones of a client share a session: one Join stream, opened by the   *)
(* first call that needs it, and replaced by a reset after a fatal error.   *)
(* A stream that a client lets go of is put on a list of the process, and a *)
(* later Join to the address waits until it has finished. The server, which *)
(* admits one Join at a time, and the transport are external.               *)
EXTENDS Naturals, FiniteSets, TLC

CONSTANTS
  Clients,
  Handles,     \* the clones of all clients
  Layouts,     \* ways to share the clones among the clients
  MaxStreams,  \* bound: Joins opened
  MaxCalls,    \* bound: calls made
  MaxBroken,   \* bound: calls given up and connections lost
  None

VARIABLES
  clientOf, \* the client that each clone belongs to
  state,    \* ClientState of each client, after its handshake
  slot,     \* its Join stream
  endedBy,  \* ended_by: the stream whose fatal error ended the last session
  lock,     \* open_lock: the clone that holds it
  ids,      \* request_counter
  begun,    \* number of calls made
  broken,   \* number of calls given up and of connections lost
  call,     \* the call that each clone is in
  join      \* the streams, with both of their ends

vars == <<clientOf, state, slot, endedBy, lock, ids, begun, broken, call, join>>

Streams == 1..MaxStreams

---------------------------------------------------------------------------
(* A call is at "ensure" before ensure_join_stream, at "lock", "barrier"    *)
(* and "joining" within it, at "configure" or "send" before send_on_stream, *)
(* "waiting" in it and "answered" or "failed" after it; a close ends at     *)
(* "finish".                                                                *)
Idle == [at |-> "idle", op |-> None, kind |-> None, on |-> None, n |-> 0, tag |-> 0,
         got |-> 0, ok |-> TRUE, behind |-> {}]

(* sess is the server's view: "none", "asked", "active", "refused", "over". *)
(* over is what the transport tells the client: "no", "ended", "lost".      *)
Unopened == [owner |-> None, sess |-> "none", pump |-> "none", pending |-> {}, up |-> {},
             down |-> {}, over |-> "no", ending |-> FALSE, retiring |-> FALSE,
             behind |-> {}, patient |-> TRUE, blocker |-> None]

Init ==
  /\ clientOf \in Layouts
  /\ state = [c \in Clients |-> "Ready"]
  /\ slot = [c \in Clients |-> None]
  /\ endedBy = [c \in Clients |-> None]
  /\ lock = [c \in Clients |-> None]
  /\ ids = [c \in Clients |-> 0]
  /\ begun = 0
  /\ broken = 0
  /\ call = [h \in Handles |-> Idle]
  /\ join = [s \in Streams |-> Unopened]

At(h, place) == [call EXCEPT ![h].at = place]

Opening(h) == \/ call[h].at \in {"barrier", "joining", "configure"}
              \/ call[h].at \in {"waiting", "answered", "failed"} /\ call[h].kind = "configure"

Opened == {s \in Streams : join[s].sess # "none"}

(* Faulty: the list keeps whole streams, not only their completion.        *)
HeldByList(s) ==
  \/ \E c \in Clients : slot[c] = s
  \/ \E h \in Handles : /\ call[h].on = s
                        /\ call[h].at \in {"joining", "waiting", "answered", "failed"}
  \/ join[s].retiring

(* A request sender of the stream is alive: in the client, or in a call.   *)
Held(s) ==
  \/ \E c \in Clients : slot[c] = s
  \/ \E h \in Handles : /\ call[h].on = s
                        /\ call[h].at \in {"joining", "waiting", "answered", "failed"}

RetireUnlisted(joins, s) == joins    \* faulty

(* JoinStream::retire puts the stream on the list.                         *)
Retire(joins, s) == [joins EXCEPT ![s].retiring = TRUE]

Retired(s) == IF s = None THEN join ELSE Retire(join, s)

(* set_stream(None).                                                       *)
DropStream(c) ==
  /\ slot' = [slot EXCEPT ![c] = None]
  /\ join' = Retired(slot[c])

(* close_local, and the drop of a CloseGuard or of the last clone.         *)
CloseLocal(c) ==
  /\ DropStream(c)
  /\ state' = [state EXCEPT ![c] = "Closed"]

Unlock(h) == lock' = [lock EXCEPT ![clientOf[h]] = IF @ = h THEN None ELSE @]

---------------------------------------------------------------------------
(* The calls.                                                              *)

(* Every call that may open a Join finds room for it within the bound.     *)
Room ==
  Cardinality(Opened) + Cardinality({h \in Handles : call[h].at \in {"ensure", "lock", "barrier"}})
    < MaxStreams

Begin(h, op, place) ==
  /\ call[h].at = "idle"
  /\ state[clientOf[h]] = "Ready"
  /\ begun < MaxCalls
  /\ begun' = begun + 1
  /\ UNCHANGED broken
  /\ call' = [call EXCEPT ![h] = [Idle EXCEPT !.at = place, !.op = op]]

Reset(h) ==
  /\ Room
  /\ Begin(h, "use", "ensure")
  /\ UNCHANGED <<state, slot, endedBy, lock, ids, join>>

(* step and render, which ensure_session_not_ended refuses.                *)
Step(h) ==
  /\ Room
  /\ slot[clientOf[h]] # None \/ endedBy[clientOf[h]] = None
  /\ Begin(h, "use", "ensure")
  /\ UNCHANGED <<state, slot, endedBy, lock, ids, join>>

(* close: a client without a stream has nothing to close remotely.         *)
Close(h) ==
  LET c == clientOf[h] IN
  /\ slot[c] # None
  /\ Begin(h, "close", "send")
  /\ join' = Retired(slot[c])
  /\ UNCHANGED <<state, slot, endedBy, lock, ids>>

(* close without a stream, detach, an accepted shutdown, and the drop of   *)
(* the last clone. A call holds its clone.                                 *)
Detach(h) ==
  /\ call[h].at = "idle"
  /\ state[clientOf[h]] # "Closed"
  /\ CloseLocal(clientOf[h])
  /\ UNCHANGED <<endedBy, lock, ids, begun, broken, call>>

---------------------------------------------------------------------------
(* ensure_join_stream.                                                     *)

EnsureJoinStream(h) ==
  /\ call[h].at = "ensure"
  /\ call' = At(h, IF slot[clientOf[h]] # None THEN "send" ELSE "lock")
  /\ UNCHANGED <<state, slot, endedBy, lock, ids, begun, broken, join>>

(* Retiring streams that have not finished: the others leave the list.     *)
RETIRING == {s \in Streams : join[s].retiring}

OpenLock(h) ==
  LET c == clientOf[h] IN
  /\ call[h].at = "lock"
  /\ lock[c] = None
  /\ IF slot[c] # None
       THEN call' = At(h, "send") /\ UNCHANGED lock
       ELSE /\ lock' = [lock EXCEPT ![c] = h]
            /\ call' = [call EXCEPT ![h].at = "barrier", ![h].behind = RETIRING]
  /\ UNCHANGED <<state, slot, endedBy, ids, begun, broken, join>>

(* wait_for_retiring_sessions within its grace.                            *)
Finished(streams) == \A s \in streams : join[s].pump = "done"

AskToJoin(h, patient) ==
  LET s == Cardinality(Opened) + 1 IN
  /\ call[h].at = "barrier"
  /\ call' = [call EXCEPT ![h].at = "joining", ![h].on = s, ![h].behind = {}]
  /\ join' = [join EXCEPT ![s].owner = clientOf[h], ![s].sess = "asked",
                          ![s].behind = call[h].behind, ![s].patient = patient]
  /\ UNCHANGED <<state, slot, endedBy, lock, ids, begun, broken>>

OpenJoinAtOnce(h) == AskToJoin(h, TRUE)    \* faulty

OpenJoin(h) == Finished(call[h].behind) /\ AskToJoin(h, TRUE)

(* The grace of five seconds is over: the server decides.                  *)
GraceOver(h) == ~Finished(call[h].behind) /\ AskToJoin(h, FALSE)

(* An open without a stream: the budget expired before the grace, or the   *)
(* server refused the Join.                                                *)
NotOpened(h) ==
  /\ \/ call[h].at = "barrier" /\ ~Finished(call[h].behind)
     \/ call[h].at = "joining" /\ join[call[h].on].sess = "refused"
  /\ call' = [call EXCEPT ![h] = Idle]
  /\ Unlock(h)
  /\ UNCHANGED <<state, slot, endedBy, ids, begun, broken, join>>

(* The pump starts and the stream is set before it is configured.          *)
Joined(h) ==
  LET c == clientOf[h]
      s == call[h].on
  IN
  /\ call[h].at = "joining"
  /\ join[s].sess \in {"active", "over"}
  /\ slot' = [slot EXCEPT ![c] = s]
  /\ join' = [Retired(slot[c]) EXCEPT ![s].pump = "reading"]
  /\ call' = [call EXCEPT ![h].at = "configure", ![h].on = None]
  /\ UNCHANGED <<state, endedBy, lock, ids, begun, broken>>

---------------------------------------------------------------------------
(* send_on_stream.                                                         *)

(* What an error of it does to the calls that use it.                      *)
FailCall(h) ==
  LET c == clientOf[h] IN
  /\ call' = [call EXCEPT ![h] = Idle]
  /\ Unlock(h)
  /\ CASE call[h].op = "close" -> CloseLocal(c)
       [] Opening(h)           -> DropStream(c) /\ UNCHANGED state
       [] OTHER                -> UNCHANGED <<state, slot, join>>
  /\ UNCHANGED <<endedBy, ids, begun, broken>>

NextRequestIdReused(c) == 1    \* faulty

NextRequestId(c) == ids[c] + 1

AdmitsLate(s) == TRUE    \* faulty

(* The pending map is still there.                                         *)
Admits(s) == join[s].pump # "done"

Kind(h) == IF call[h].at = "configure" THEN "configure" ELSE call[h].op

(* The request is registered and handed to the channel. If the transport   *)
(* is already gone it leads nowhere and the pump will fail the call.       *)
SendOnStream(h) ==
  LET c == clientOf[h]
      s == slot[c]
      n == NextRequestId(c)
  IN
  /\ call[h].at \in {"configure", "send"}
  /\ s # None
  /\ Admits(s)
  /\ ids' = [ids EXCEPT ![c] = @ + 1]
  /\ join' = [join EXCEPT ![s].pending = @ \cup {n},
                          ![s].up = IF join[s].over = "no"
                                      THEN @ \cup {[n |-> n, tag |-> ids'[c], kind |-> Kind(h)]}
                                      ELSE @]
  /\ call' = [call EXCEPT ![h].at = "waiting", ![h].kind = Kind(h), ![h].on = s,
                          ![h].n = n, ![h].tag = ids'[c]]
  /\ UNCHANGED <<state, slot, endedBy, lock, begun, broken>>

(* Faulty: an ended stream does not fail the request.                      *)
SendFailsUnopened(h) ==
  /\ call[h].at \in {"configure", "send"}
  /\ slot[clientOf[h]] = None
  /\ FailCall(h)

(* No stream, one that ended, or a channel without its receiver.           *)
SendFails(h) ==
  LET s == slot[clientOf[h]] IN
  /\ call[h].at \in {"configure", "send"}
  /\ s # None => join[s].over # "no"
  /\ FailCall(h)

(* The call goes on after its reply.                                       *)
Configured(h) ==
  /\ call[h].at = "answered"
  /\ call[h].kind = "configure"
  /\ call[h].ok
  /\ endedBy' = [endedBy EXCEPT ![clientOf[h]] = None]
  /\ Unlock(h)
  /\ call' = [call EXCEPT ![h] = [Idle EXCEPT !.at = "send", !.op = call[h].op]]
  /\ UNCHANGED <<state, slot, ids, begun, broken, join>>

(* The Close reply came: half-close, then wait for the end of the stream.  *)
CloseReplied(h) ==
  /\ call[h].at = "answered"
  /\ call[h].kind = "close"
  /\ CloseLocal(clientOf[h])
  /\ call' = At(h, "finish")
  /\ UNCHANGED <<endedBy, lock, ids, begun, broken>>

Replied(h) ==
  /\ call[h].at = "answered"
  /\ call[h].kind = "use"
  /\ call' = [call EXCEPT ![h] = Idle]
  /\ UNCHANGED <<state, slot, endedBy, lock, ids, begun, broken, join>>

(* The stream ended under the call, or the Configure was refused.          *)
CallFails(h) ==
  /\ \/ call[h].at = "failed"
     \/ call[h].at = "answered" /\ ~call[h].ok
  /\ FailCall(h)

(* close returns.                                                          *)
Closed(h) ==
  /\ call[h].at = "finish"
  /\ join[call[h].on].pump = "done"
  /\ call' = [call EXCEPT ![h] = Idle]
  /\ CloseLocal(clientOf[h])
  /\ UNCHANGED <<endedBy, lock, ids, begun, broken>>

Breaks == broken < MaxBroken /\ broken' = broken + 1

GiveUpLocked(h) ==    \* faulty
  /\ call[h].at \in {"lock", "barrier", "joining", "waiting", "finish"}
  /\ call' = [call EXCEPT ![h] = Idle]
  /\ IF call[h].op = "close" THEN CloseLocal(clientOf[h]) ELSE UNCHANGED <<state, slot, join>>
  /\ Breaks
  /\ UNCHANGED <<endedBy, ids, begun, lock>>

(* The caller drops the future at an await: its locals are dropped, the    *)
(* waiter of its request stays, and so does a stream not yet configured.   *)
GiveUp(h) ==
  /\ call[h].at \in {"lock", "barrier", "joining", "waiting", "finish"}
  /\ call' = [call EXCEPT ![h] = Idle]
  /\ IF call[h].op = "close" THEN CloseLocal(clientOf[h]) ELSE UNCHANGED <<state, slot, join>>
  /\ Unlock(h)
  /\ Breaks
  /\ UNCHANGED <<endedBy, ids, begun>>

---------------------------------------------------------------------------
(* The response pump of a stream.                                          *)

EndSessionAnyway(s) == join[s].owner    \* faulty

(* end_session, unless the stream is no longer that of its client.         *)
EndSession(s) == IF slot[join[s].owner] = s THEN join[s].owner ELSE None

Waiters(s, ns) ==
  {h \in Handles : call[h].at = "waiting" /\ call[h].on = s /\ call[h].n \in ns}

Deliver(s) == \E r \in join[s].down :
  LET c == IF r.reply = "fatal" THEN EndSession(s) ELSE None IN
  /\ join[s].pump = "reading"
  /\ slot' = IF c = None THEN slot ELSE [slot EXCEPT ![c] = None]
  /\ endedBy' = IF c = None THEN endedBy ELSE [endedBy EXCEPT ![c] = s]
  /\ join' = [(IF c = None THEN join ELSE Retired(slot[c]))
                EXCEPT ![s].down = @ \ {r}, ![s].pending = @ \ {r.n}]
  /\ call' = [h \in Waiters(s, {r.n} \cap join[s].pending) |->
                [call[h] EXCEPT !.at = "answered", !.got = r.tag, !.ok = r.reply # "error"]]
             @@ call
  /\ UNCHANGED <<state, lock, ids, begun, broken>>

(* The end of the stream takes the map: nobody waits or will wait on it.   *)
PumpEnds(s) ==
  /\ join[s].pump = "reading"
  /\ join[s].over = "lost" \/ (join[s].over = "ended" /\ join[s].down = {})
  /\ join' = [join EXCEPT ![s].pump = "done", ![s].pending = {}, ![s].down = {},
                          ![s].retiring = FALSE]
  /\ call' = [h \in Waiters(s, join[s].pending) |-> At(h, "failed")[h]] @@ call
  /\ UNCHANGED <<state, slot, endedBy, lock, ids, begun, broken>>

---------------------------------------------------------------------------
(* The server and the transport.                                           *)

Active == {s \in Streams : join[s].sess = "active"}

AdmitJoin(s) ==
  /\ join[s].sess = "asked"
  /\ join' = [join EXCEPT ![s] =
       IF Active = {} THEN [@ EXCEPT !.sess = "active", !.behind = {}]
       ELSE [@ EXCEPT !.sess = "refused", !.blocker = CHOOSE b \in Active : TRUE]]
  /\ UNCHANGED <<state, slot, endedBy, lock, ids, begun, broken, call>>

(* A Configure may be refused, an operation may fail for good. The session *)
(* ends after a Close and after a fatal error of a serial operation.       *)
Replies(kind) ==
  CASE kind = "configure" -> {[reply |-> "ok", last |-> FALSE], [reply |-> "error", last |-> FALSE]}
    [] kind = "close"     -> {[reply |-> "ok", last |-> TRUE]}
    [] OTHER -> {[reply |-> "ok", last |-> FALSE], [reply |-> "fatal", last |-> FALSE],
                 [reply |-> "fatal", last |-> TRUE]}

Answer(s) == \E r \in join[s].up : \E a \in Replies(r.kind) :
  /\ join[s].sess = "active"
  /\ join[s].over = "no"
  /\ ~join[s].ending
  /\ join' = [join EXCEPT ![s].up = @ \ {r},
                          ![s].down = @ \cup {[n |-> r.n, tag |-> r.tag, reply |-> a.reply]},
                          ![s].ending = a.last]
  /\ UNCHANGED <<state, slot, endedBy, lock, ids, begun, broken, call>>

(* The server gives the slot back before it ends the response stream.      *)
ServerEnds(s) ==
  /\ join[s].sess = "active"
  /\ \/ join[s].ending
     \/ join[s].over = "lost"
     \/ ~Held(s) /\ join[s].up = {}
  /\ join' = [join EXCEPT ![s].sess = "over", ![s].up = {}, ![s].ending = FALSE,
                          ![s].over = IF @ = "no" THEN "ended" ELSE @]
  /\ UNCHANGED <<state, slot, endedBy, lock, ids, begun, broken, call>>

Lose(s) ==
  /\ join[s].pump = "reading"
  /\ join[s].over = "no"
  /\ Breaks
  /\ join' = [join EXCEPT ![s].over = "lost"]
  /\ UNCHANGED <<state, slot, endedBy, lock, ids, begun, call>>

---------------------------------------------------------------------------
Goes(h) ==
  /\ UNCHANGED clientOf
  /\ \/ EnsureJoinStream(h)
     \/ OpenLock(h)
     \/ OpenJoin(h)
     \/ GraceOver(h)
     \/ NotOpened(h)
     \/ Joined(h)
     \/ SendOnStream(h)
     \/ SendFails(h)
     \/ Configured(h)
     \/ CloseReplied(h)
     \/ Replied(h)
     \/ CallFails(h)
     \/ Closed(h)

Calls(h) ==
  /\ UNCHANGED clientOf
  /\ \/ Reset(h)
     \/ Step(h)
     \/ Close(h)
     \/ Detach(h)
     \/ GiveUp(h)

Pumps(s) == UNCHANGED clientOf /\ (Deliver(s) \/ PumpEnds(s))

Serves(s) == UNCHANGED clientOf /\ (AdmitJoin(s) \/ Answer(s) \/ ServerEnds(s))

Next ==
  \/ \E h \in Handles : Calls(h) \/ Goes(h)
  \/ \E s \in Streams : Pumps(s) \/ Serves(s) \/ (Lose(s) /\ UNCHANGED clientOf)

Spec == Init /\ [][Next]_vars

(* Tasks are polled, the server answers and the grace of a wait is finite. *)
FairSpec ==
  /\ Spec
  /\ \A h \in Handles : WF_vars(Goes(h))
  /\ \A s \in Streams : WF_vars(Pumps(s)) /\ WF_vars(Serves(s))

---------------------------------------------------------------------------
(* The lock of a client is free or held by a call that opens its stream.   *)
TypeOK ==
  /\ state \in [Clients -> {"Ready", "Closed"}]
  /\ slot \in [Clients -> Streams \cup {None}]
  /\ endedBy \in [Clients -> Streams \cup {None}]
  /\ \A c \in Clients :
       lock[c] \in {None} \cup {h \in Handles : clientOf[h] = c /\ Opening(h)}

(* A call gets the reply to its own request, although calls of clones that *)
(* share the stream are answered in any order and some were given up       *)
(* (dispatch_response, next_request_id).                                   *)
AnswersOwnRequest ==
  \A h \in Handles : call[h].at = "answered" => call[h].got = call[h].tag

(* A call waits only on a stream whose pump still reads, and its waiter is *)
(* in the map: a registration after the end fails instead of hanging.      *)
NoWaiterLost ==
  \A h \in Handles :
    call[h].at = "waiting" =>
      join[call[h].on].pump = "reading" /\ call[h].n \in join[call[h].on].pending

(* Calls and replies belong together, and the locks to calls that open.    *)
RepliesMatch == TypeOK /\ AnswersOwnRequest /\ NoWaiterLost

(* A stream that is still read is its client's only one, or it is on the   *)
(* list that later Joins wait for: racing clones open one session, and no  *)
(* path drops a stream without listing it.                                 *)
OneSession ==
  \A s \in Streams :
    join[s].pump = "reading" /\ ~join[s].retiring => slot[join[s].owner] = s

(* A Join that waited to the end is not refused over a session that had    *)
(* been let go when the wait began, unless the transport broke before the  *)
(* server could end it (wait_for_retiring_sessions).                       *)
PatientJoin ==
  \A s \in Streams :
    join[s].sess = "refused" /\ join[s].patient =>
      \/ join[s].blocker \notin join[s].behind
      \/ join[join[s].blocker].over = "lost"

(* Joins follow each other: one session per client at a time, and none     *)
(* refused over a session that was let go.                                 *)
JoinsInTurn == OneSession /\ PatientJoin

(* A client loses its session to that session's own fatal error, to a      *)
(* close, or to the call that failed to configure it, and never to a late  *)
(* error on a stream it had before (end_session).                          *)
LosesOwnSession ==
  [][\A c \in Clients :
       slot[c] # None /\ slot'[c] # slot[c] =>
         \/ endedBy'[c] = slot[c]
         \/ state'[c] = "Closed"
         \/ \E h \in Handles : clientOf[h] = c /\ Opening(h) /\ call'[h].at = "idle"]_vars

AllReturned == \A h \in Handles : call[h].at = "idle"

NoneKept == \A s \in Streams : join[s].sess = "active" => slot[join[s].owner] = s

(* Nobody waits for ever. Every call returns from the lock, the list, the  *)
(* wait for a reply and the end of the stream; and the server's slot is    *)
(* freed once a client has let go of its session by whatever path,         *)
(* requests in flight or not (detach). As calls are bounded, both come     *)
(* about together, again and again.                                        *)
NobodyWaits == []<>(AllReturned /\ NoneKept)

=============================================================================
