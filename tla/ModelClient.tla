----------------------------- MODULE ModelClient -----------------------------
(* The client end of a model's Join stream                                  *)
(* (crates/rlmesh-grpc/src/model/client.rs and model/stream.rs).            *)
(*                                                                          *)
(* Calls register a waiter under their request id in a map that they share  *)
(* with the response pump, hand the request to a channel and wait. The pump *)
(* gives each response to the waiter of its id; at the end of the stream it *)
(* fails every waiter and stops. A caller may give up at any await, which   *)
(* leaves its waiter in the map. The server and the transport are external. *)
EXTENDS Naturals, Sequences, FiniteSets, TLC

CONSTANTS
  Callers,     \* tasks that use the client
  Ids,         \* request ids that tasks choose
  MaxCalls,    \* bound: calls made
  None

VARIABLES
  state,     \* ClientState
  pending,   \* the waiters: from a request id to the call registered under it
  call,      \* the call that each caller is in
  calls,     \* number of calls so far, which tells them apart
  up,        \* requests in the channel and on their way to the server
  receiver,  \* the channel still has its receiver
  down,      \* responses on their way back, in any order
  over,      \* the response stream has ended or failed
  pump       \* "none" before the handshake, "reading", "done"

clientVars == <<state, pending, call, calls, up, receiver, down, over, pump>>
netVars    == <<up, receiver, down, over>>

---------------------------------------------------------------------------
(* at is "idle", "sending" once registered, "waiting" once sent, and then  *)
(* "answered" by the response to call got, or "failed".                    *)
NoMessage == [kind |-> "none"]

Idle == [at |-> "idle", n |-> 0, id |-> None, message |-> NoMessage, got |-> 0,
         reply |-> NoMessage]

InCall(c) == call[c].at \in {"sending", "waiting"}

(* The &mut self methods exclude every other call.                         *)
Alone == \A c \in Callers : call[c].at = "idle"

Without(id) == [i \in DOMAIN pending \ {id} |-> pending[i]]

ClientInit ==
  /\ state = "Connected"
  /\ pending = [i \in {} |-> 0]
  /\ call = [c \in Callers |-> Idle]
  /\ calls = 0
  /\ up = <<>>
  /\ receiver = FALSE
  /\ down = {}
  /\ over = FALSE
  /\ pump = "none"

(* handshake, when every step of it succeeds: the Join stream is open and  *)
(* its pump runs. A failed handshake leaves the client as it was.          *)
Handshake ==
  /\ state = "Connected"
  /\ Alone
  /\ state' = "Ready"
  /\ pump' = "reading"
  /\ receiver' = TRUE
  /\ UNCHANGED <<pending, call, calls, up, down, over>>

FreeAlways(id) == TRUE    \* faulty

(* send_on_stream registers the call, unless the id is in flight.          *)
Free(id) == id \notin DOMAIN pending

Register(c, id, message) ==
  /\ state = "Ready"
  /\ call[c].at = "idle"
  /\ calls < MaxCalls
  /\ Free(id)
  /\ calls' = calls + 1
  /\ pending' = [i \in DOMAIN pending \cup {id} |-> IF i = id THEN calls' ELSE pending[i]]
  /\ call' = [call EXCEPT ![c] = [Idle EXCEPT !.at = "sending", !.n = calls', !.id = id,
                                              !.message = message]]
  /\ UNCHANGED <<state, up, receiver, down, over, pump>>

(* The channel takes the request. Its 32 places are more than the bounded  *)
(* number of calls, so a send never waits for room.                        *)
Hand(c) ==
  /\ call[c].at = "sending"
  /\ receiver
  /\ up' = Append(up, [n |-> call[c].n, id |-> call[c].id, by |-> c,
                       message |-> call[c].message])
  /\ call' = [call EXCEPT ![c].at = "waiting"]
  /\ UNCHANGED <<state, pending, calls, receiver, down, over, pump>>

(* The channel is gone: the call removes its waiter and fails.             *)
HandFails(c) ==
  /\ call[c].at = "sending"
  /\ ~receiver
  /\ pending' = Without(call[c].id)
  /\ call' = [call EXCEPT ![c].at = "failed"]
  /\ UNCHANGED <<state, calls, netVars, pump>>

(* Faulty: the waiter goes with its caller.                                *)
GiveUpForgets(c) ==
  /\ call[c].at = "waiting"
  /\ call' = [call EXCEPT ![c] = Idle]
  /\ pending' = Without(call[c].id)
  /\ UNCHANGED <<state, calls, netVars, pump>>

(* The caller drops the future: a timeout or a cancellation.               *)
GiveUp(c) ==
  /\ call[c].at = "waiting"
  /\ call' = [call EXCEPT ![c] = Idle]
  /\ UNCHANGED <<state, pending, calls, netVars, pump>>

(* The response, or the failure, reaches the code after the await.         *)
Return(c) ==
  /\ call[c].at \in {"answered", "failed"}
  /\ call' = [call EXCEPT ![c] = Idle]

---------------------------------------------------------------------------
(* The pump.                                                               *)

Waiters(ns) == {c \in Callers : InCall(c) /\ call[c].n \in ns}

(* A response without a waiter is dropped, and so is one whose caller gave *)
(* up.                                                                     *)
Deliver(r) ==
  /\ pump = "reading"
  /\ r \in down
  /\ down' = down \ {r}
  /\ IF r.id \in DOMAIN pending
       THEN /\ call' = [c \in Waiters({pending[r.id]}) |->
                          [call[c] EXCEPT !.at = "answered", !.got = r.n, !.reply = r.reply]]
                       @@ call
            /\ pending' = Without(r.id)
       ELSE UNCHANGED <<call, pending>>
  /\ UNCHANGED <<state, calls, up, receiver, over, pump>>

(* Faulty: the pump stops and forgets the waiters.                         *)
PumpStops ==
  /\ pump = "reading"
  /\ over
  /\ pump' = "done"
  /\ UNCHANGED <<state, pending, call, calls, netVars>>

(* fail_all_pending at the end of the stream or at its error, which may    *)
(* overtake responses.                                                     *)
PumpEnds ==
  /\ pump = "reading"
  /\ over
  /\ call' = [c \in Waiters({pending[i] : i \in DOMAIN pending}) |->
                [call[c] EXCEPT !.at = "failed"]] @@ call
  /\ pending' = [i \in {} |-> 0]
  /\ pump' = "done"
  /\ UNCHANGED <<state, calls, netVars>>

---------------------------------------------------------------------------
(* The calls of tasks that share the client. Predicts come with an id that *)
(* the caller chose, the others get a fresh one.                           *)

Shared == \A c \in Callers : call[c].message.kind # "close"

FreshId(kind) == <<kind, calls + 1>>

Predict(c) ==
  /\ Shared
  /\ \E k \in Ids : Register(c, <<"predict", k>>, [kind |-> "predict"])

GroupedPredict(c) ==
  /\ Shared
  /\ Register(c, FreshId("grouped"), [kind |-> "grouped"])

Close(c) ==
  /\ Alone
  /\ Register(c, FreshId("close"), [kind |-> "close"])

(* close_with_timeout closes the client only when it was answered.         *)
EndCall(c) ==
  /\ Return(c)
  /\ state' = IF call[c].message.kind = "close" /\ call[c].at = "answered"
                THEN "Closed" ELSE state
  /\ UNCHANGED <<pending, calls, netVars, pump>>

(* shutdown, accepted by the server: the sender and the waiters go.        *)
Shutdown ==
  /\ state \in {"Connected", "Ready"}
  /\ Alone
  /\ state' = "Closed"
  /\ pending' = [i \in {} |-> 0]
  /\ UNCHANGED <<call, calls, netVars, pump>>

---------------------------------------------------------------------------
(* The server and the transport.                                           *)

(* The server works on requests of different callers in any order, on      *)
(* those of one caller, which share a route, in theirs.                    *)
Servable(i) == ~over /\ \A j \in 1..(i - 1) : up[j].by # up[i].by

Remaining(i) == SubSeq(up, 1, i - 1) \o SubSeq(up, i + 1, Len(up))

Answer(i, reply) ==
  /\ Servable(i)
  /\ up' = Remaining(i)
  /\ down' = down \cup {[n |-> up[i].n, id |-> up[i].id, reply |-> reply]}
  /\ UNCHANGED <<state, pending, call, calls, receiver, over, pump>>

(* A task of the server that panics sends no response.                     *)
Swallow(i) ==
  /\ Servable(i)
  /\ up' = Remaining(i)
  /\ UNCHANGED <<state, pending, call, calls, receiver, down, over, pump>>

(* The stream ends, by the server or with the connection.                  *)
StreamEnds ==
  /\ pump = "reading"
  /\ ~over
  /\ over' = TRUE
  /\ UNCHANGED <<state, pending, call, calls, up, receiver, down, pump>>

(* The transport learns of it on the sending side too, by itself.          *)
ReceiverGoes ==
  /\ over
  /\ receiver
  /\ receiver' = FALSE
  /\ up' = <<>>
  /\ UNCHANGED <<state, pending, call, calls, down, over, pump>>

=============================================================================
