----------------------------- MODULE RemoteModel -----------------------------
(* The client of one route of a served model                                *)
(* (crates/rlmesh/src/model/remote.rs) on top of the gRPC client.           *)
(*                                                                          *)
(* It mints the episode ids, resolves the route with its first predict,     *)
(* tells the model which episodes ended before it predicts again, replays   *)
(* the chunks it gets and carries the observations of replayed steps as     *)
(* history rows. Every call may time out at any await; the request then     *)
(* stays behind, and its response arrives later or never.                   *)
EXTENDS ModelClient

CONSTANTS
  Me,           \* the task that drives the route
  Histories,    \* whether models want history rows: a set of Booleans
  MaxChunk,     \* frames that the model answers at most
  MaxEpisodes,  \* bound: episodes begun
  MaxTaskCalls  \* bound: calls of tasks that share the client

VARIABLES
  user,        \* who has the connection: "route", or "tasks" that share it
  doing,       \* where the call of the route's client is
  configured, historyOn,
  episode,     \* the current episode, 0 for none
  minted,      \* episodes minted
  pendingEnd,  \* episodes whose end was not sent yet
  buffer,      \* replay_buffer: for each frame, its episode and the step it is for
  history,     \* the steps of the rows that wait
  step,
  closed,      \* ghost: the last thing done was a close that succeeded
  served,      \* server: the route is resolved
  heard        \* server: the requests that reached the model, in order

routeVars  == <<doing, configured, historyOn, episode, minted, pendingEnd, buffer, history,
                step, closed>>
serverSide == <<served, heard>>
vars       == <<clientVars, user, routeVars, serverSide>>

Init ==
  /\ ClientInit
  /\ user \in {"route", "tasks"}
  /\ doing = "nothing"
  /\ configured = FALSE /\ historyOn = FALSE
  /\ episode = 0 /\ minted = 0 /\ pendingEnd = {}
  /\ buffer = <<>> /\ history = <<>> /\ step = 0
  /\ closed = FALSE
  /\ served = FALSE /\ heard = <<>>

---------------------------------------------------------------------------
(* Calls of the route's client.                                            *)

(* The episode that a reset or a close leaves behind.                      *)
LeftAlways == {episode}    \* faulty

Left == IF episode = 0 THEN {} ELSE {episode}


(* reset is not async: the end of the old episode waits for the next call. *)
Reset ==
  /\ doing = "nothing"
  /\ minted < MaxEpisodes
  /\ minted' = minted + 1 /\ episode' = minted'
  /\ pendingEnd' = pendingEnd \cup Left
  /\ buffer' = <<>> /\ history' = <<>>
  /\ closed' = FALSE
  /\ UNCHANGED <<doing, configured, historyOn, step>>

(* predict begins: resolve_adapter first unless the route is configured.   *)
BeginPredict ==
  /\ doing = "nothing"
  /\ episode # 0
  /\ doing' = IF configured THEN "ending" ELSE "resolving"
  /\ closed' = FALSE
  /\ UNCHANGED <<configured, historyOn, episode, minted, pendingEnd, buffer, history, step>>

(* Faulty: its end is not sent.                                            *)
BeginCloseOpen ==
  /\ doing = "nothing"
  /\ configured
  /\ configured' = FALSE
  /\ episode' = 0
  /\ doing' = "leaving"
  /\ closed' = FALSE
  /\ UNCHANGED <<historyOn, minted, pendingEnd, buffer, history, step>>

(* Faulty: the route still counts as configured.                           *)
BeginCloseConfigured ==
  /\ doing = "nothing"
  /\ configured
  /\ pendingEnd' = pendingEnd \cup Left
  /\ episode' = 0
  /\ doing' = "leaving"
  /\ closed' = FALSE
  /\ UNCHANGED <<configured, historyOn, minted, buffer, history, step>>

(* close_route begins; it does nothing on a route that is not configured.  *)
BeginClose ==
  /\ doing = "nothing"
  /\ configured
  /\ configured' = FALSE
  /\ pendingEnd' = pendingEnd \cup Left
  /\ episode' = 0
  /\ doing' = "leaving"
  /\ closed' = FALSE
  /\ UNCHANGED <<historyOn, minted, buffer, history, step>>

(* Ids are fixed for resolve and release, distinct for the others.         *)
SendResolve ==
  /\ doing = "resolving"
  /\ Register(Me, <<"resolve", 0>>, [kind |-> "resolve"])
  /\ UNCHANGED routeVars

SendRelease ==
  /\ doing = "releasing"
  /\ Register(Me, <<"release", 0>>, [kind |-> "release"])
  /\ UNCHANGED routeVars

(* An id still in flight, from a call that timed out, fails the call.      *)
Refused ==
  /\ call[Me].at = "idle"
  /\ \/ doing = "resolving" /\ ~Free(<<"resolve", 0>>)
     \/ doing = "releasing" /\ ~Free(<<"release", 0>>)
  /\ doing' = "nothing"
  /\ UNCHANGED <<configured, historyOn, episode, minted, pendingEnd, buffer, history, step,
                 closed>>

Flushes == doing \in {"ending", "leaving"} /\ call[Me].at = "idle"

After == IF doing = "ending" THEN "planning" ELSE "releasing"

(* Faulty: they stay until the request is answered.                        *)
SendEndsKept ==
  /\ Flushes
  /\ pendingEnd # {}
  /\ Register(Me, FreshId("reset"), [kind |-> "reset", episodes |-> pendingEnd])
  /\ UNCHANGED routeVars

(* flush_pending_end takes the episodes before it sends them.              *)
SendEnds ==
  /\ Flushes
  /\ pendingEnd # {}
  /\ Register(Me, FreshId("reset"), [kind |-> "reset", episodes |-> pendingEnd])
  /\ pendingEnd' = {}
  /\ UNCHANGED <<doing, configured, historyOn, episode, minted, buffer, history, step, closed>>

NoEnds ==
  /\ Flushes
  /\ pendingEnd = {}
  /\ doing' = After
  /\ UNCHANGED <<configured, historyOn, episode, minted, pendingEnd, buffer, history, step,
                 closed>>

(* Faulty: the observation is not kept.                                    *)
ReplayUnseen ==
  /\ doing = "planning" /\ call[Me].at = "idle"
  /\ buffer # <<>>
  /\ buffer' = Tail(buffer)
  /\ step' = step + 1
  /\ doing' = "nothing"
  /\ UNCHANGED <<configured, historyOn, episode, minted, pendingEnd, history, closed>>

(* A step with a frame left replays it; its observation becomes a row.     *)
Replay ==
  /\ doing = "planning" /\ call[Me].at = "idle"
  /\ buffer # <<>>
  /\ history' = IF historyOn THEN Append(history, step) ELSE history
  /\ buffer' = Tail(buffer)
  /\ step' = step + 1
  /\ doing' = "nothing"
  /\ UNCHANGED <<configured, historyOn, episode, minted, pendingEnd, closed>>

(* Faulty: the request names the episode that was reset.                   *)
SendPredictStale ==
  /\ doing = "planning"
  /\ buffer = <<>>
  /\ Register(Me, FreshId("predict"),
              [kind |-> "predict", episode |-> IF episode > 1 THEN episode - 1 ELSE episode,
               at |-> step, steps |-> IF historyOn THEN Append(history, step) ELSE <<>>])
  /\ step' = step + 1
  /\ history' = <<>>
  /\ UNCHANGED <<doing, configured, historyOn, episode, minted, pendingEnd, buffer, closed>>

(* A step without one asks the model and sends the rows along.             *)
SendPredict ==
  /\ doing = "planning"
  /\ buffer = <<>>
  /\ Register(Me, FreshId("predict"),
              [kind |-> "predict", episode |-> episode, at |-> step,
               steps |-> IF historyOn THEN Append(history, step) ELSE <<>>])
  /\ step' = step + 1
  /\ history' = <<>>
  /\ UNCHANGED <<doing, configured, historyOn, episode, minted, pendingEnd, buffer, closed>>

---------------------------------------------------------------------------
(* What the client does with the answers.                                  *)

Answered(stage, result) ==
  /\ doing = stage
  /\ call[Me].at = "answered" /\ call[Me].reply.kind = result

Resolved ==
  /\ Answered("resolving", "ok")
  /\ configured' = TRUE
  /\ historyOn' = call[Me].reply.history
  /\ doing' = "ending"
  /\ UNCHANGED <<episode, minted, pendingEnd, buffer, history, step, closed>>

EndsSent ==
  /\ Answered("ending", "ok") \/ Answered("leaving", "ok")
  /\ doing' = After
  /\ UNCHANGED <<configured, historyOn, episode, minted, pendingEnd, buffer, history, step,
                 closed>>

(* The frames of the chunk are for this step, which was counted already,   *)
(* and the next ones; the first is returned.                               *)
Predicted ==
  /\ Answered("planning", "ok")
  /\ LET frames == call[Me].reply.frames
     IN buffer' = [j \in 1..(Len(frames) - 1) |-> frames[j + 1]]
  /\ doing' = "nothing"
  /\ UNCHANGED <<configured, historyOn, episode, minted, pendingEnd, history, step, closed>>

Released ==
  /\ Answered("releasing", "ok")
  /\ doing' = "nothing"
  /\ closed' = TRUE
  /\ UNCHANGED <<configured, historyOn, episode, minted, pendingEnd, buffer, history, step>>

(* An error response, or the end of the stream.                            *)
CallFails ==
  /\ call[Me].at = "failed" \/ Answered(doing, "error")
  /\ doing' = "nothing"
  /\ UNCHANGED <<configured, historyOn, episode, minted, pendingEnd, buffer, history, step,
                 closed>>

(* request_timeout: the bounded future is dropped.                         *)
TimesOut ==
  /\ GiveUp(Me)
  /\ doing' = "nothing"
  /\ UNCHANGED <<configured, historyOn, episode, minted, pendingEnd, buffer, history, step,
                 closed>>

---------------------------------------------------------------------------
(* The server's end of the route: requests are served in their order       *)
(* (RouteOrder in ModelServer) and may fail.                               *)

Frames(m, n) == [j \in 1..n |-> [episode |-> m.episode, at |-> m.at + j - 1]]

ServeRoute(i) ==
  LET m == up[i].message
      fails == Answer(i, [kind |-> "error"])
      hears == heard' = Append(heard, m)
  IN \/ /\ m.kind = "resolve"
        /\ \/ fails /\ UNCHANGED served
           \/ /\ \E h \in Histories : Answer(i, [kind |-> "ok", history |-> h])
              /\ served' = TRUE
        /\ UNCHANGED heard
     \/ /\ m.kind = "reset"
        /\ \/ Swallow(i) /\ heard' = Append(heard, [m EXCEPT !.kind = "panicked"])
           \/ hears /\ (fails \/ Answer(i, [kind |-> "ok"]))
        /\ UNCHANGED served
     \/ /\ m.kind = "predict"
        /\ IF served
             THEN /\ hears
                  /\ \/ fails
                     \/ \E n \in 1..MaxChunk :
                          Answer(i, [kind |-> "ok", frames |-> Frames(m, n)])
             ELSE fails /\ UNCHANGED heard
        /\ UNCHANGED served
     \/ /\ m.kind = "release"
        /\ served' = FALSE
        /\ fails \/ Answer(i, [kind |-> "ok"])
        /\ UNCHANGED heard

ServeTask(i) ==
  /\ Answer(i, [kind |-> "ok"]) \/ (up[i].message.kind # "close" /\ Swallow(i))
  /\ UNCHANGED serverSide

Serve ==
  /\ \E i \in DOMAIN up : IF user = "route" THEN ServeRoute(i) ELSE ServeTask(i)
  /\ UNCHANGED <<user, routeVars>>

---------------------------------------------------------------------------
(* The connection is set up once; then it belongs to the route's client or *)
(* to tasks that share it.                                                 *)

(* Calls that the route's client is asked to make.                         *)
RouteCalls ==
  /\ user = "route" /\ state = "Ready"
  /\ Reset \/ BeginPredict \/ BeginClose
  /\ UNCHANGED <<clientVars, user, serverSide>>

(* The steps that carry them on.                                           *)
RouteGoesOn ==
  /\ user = "route"
  /\ \/ (Refused \/ NoEnds \/ Replay) /\ UNCHANGED clientVars
     \/ SendResolve \/ SendEnds \/ SendPredict \/ SendRelease
     \/ /\ Resolved \/ EndsSent \/ Predicted \/ Released \/ CallFails
        /\ Return(Me)
        /\ UNCHANGED <<state, pending, calls, netVars, pump>>
  /\ UNCHANGED <<user, serverSide>>

TaskCalls ==
  /\ user = "tasks"
  /\ \/ /\ calls < MaxTaskCalls
        /\ \E c \in Callers : Predict(c) \/ GroupedPredict(c) \/ Close(c)
     \/ \E c \in Callers : GiveUp(c)
     \/ Shutdown
  /\ UNCHANGED <<user, routeVars, serverSide>>

TasksGoOn ==
  /\ user = "tasks"
  /\ \E c \in Callers : EndCall(c)
  /\ UNCHANGED <<user, routeVars, serverSide>>

Sends ==
  /\ \E c \in Callers : Hand(c) \/ HandFails(c)
  /\ UNCHANGED <<user, routeVars, serverSide>>

Pumps ==
  /\ (\E r \in down : Deliver(r)) \/ PumpEnds
  /\ UNCHANGED <<user, routeVars, serverSide>>

Network ==
  /\ StreamEnds \/ ReceiverGoes
  /\ UNCHANGED <<user, routeVars, serverSide>>

Next ==
  \/ Handshake /\ UNCHANGED <<user, routeVars, serverSide>>
  \/ RouteCalls
  \/ RouteGoesOn
  \/ user = "route" /\ TimesOut /\ UNCHANGED <<user, serverSide>>
  \/ TaskCalls
  \/ TasksGoOn
  \/ Sends
  \/ Pumps
  \/ Serve
  \/ Network

Spec == Init /\ [][Next]_vars

(* The tasks and the pump are polled, the server gets to every request and *)
(* a dead connection is noticed on both sides. Nobody has to call, to give *)
(* up or to end the stream.                                                *)
FairSpec ==
  /\ Spec
  /\ WF_vars(RouteGoesOn) /\ WF_vars(TasksGoOn) /\ WF_vars(Sends)
  /\ WF_vars(Pumps) /\ WF_vars(Serve)
  /\ WF_vars(ReceiverGoes /\ UNCHANGED <<user, routeVars, serverSide>>)

---------------------------------------------------------------------------
(* Properties.                                                             *)

(* The shape of the client's state.                                        *)
TypeOK ==
  /\ state \in {"Connected", "Ready", "Closed"}
  /\ \A i \in DOMAIN pending : pending[i] \in 1..calls
  /\ calls \in 0..MaxCalls
  /\ \A c \in Callers : call[c].at \in {"idle", "sending", "waiting", "answered", "failed"}
  /\ pump \in {"none", "reading", "done"}
  /\ doing \in {"nothing", "resolving", "ending", "planning", "leaving", "releasing"}
  /\ episode \in 0..minted /\ pendingEnd \subseteq 1..minted

(* Every response goes to the call it answers: neither a late response of  *)
(* a call that was given up, nor a second use of its request id, answers   *)
(* another call.                                                           *)
AnswersOwnCall == \A c \in Callers : call[c].at = "answered" => call[c].got = call[c].n

(* While the pump reads, every call that waits has its waiter in the map:  *)
(* neither the other calls nor abandoned ones take it away.                *)
NoWaiterLost ==
  \A c \in Callers :
     InCall(c) /\ pump = "reading" =>
       call[c].id \in DOMAIN pending /\ pending[call[c].id] = call[c].n

(* Calls and responses belong together: no call gets another's response or *)
(* loses its own, in well-formed states.                                   *)
ResponsesMatch == TypeOK /\ AnswersOwnCall /\ NoWaiterLost

(* A call registered while the pump reads returns: by its response or by   *)
(* the end of the stream. Only a request that the server lost to a panic   *)
(* may wait for as long as the stream stays up.                            *)
LostByServer(c) ==
  /\ call[c].at = "waiting"
  /\ \A i \in DOMAIN up : up[i].n # call[c].n
  /\ \A r \in down : r.n # call[c].n

PumpedCallsReturn ==
  \A c \in Callers : (InCall(c) /\ pump = "reading") ~> (~InCall(c) \/ (LostByServer(c) /\ ~over))

(* What the comment on spawn_response_pump promises: once the stream has   *)
(* ended, no caller waits for ever.                                        *)
StreamEndFailsAll == \A c \in Callers : (over /\ InCall(c)) ~> ~InCall(c)

Predictions == {k \in DOMAIN heard : heard[k].kind = "predict"}

Ends == {k \in DOMAIN heard : heard[k].kind = "reset"}

EndedIds == UNION {heard[k].episodes : k \in Ends}

(* Predicted on, and no end heard since.                                   *)
OpenIds ==
  {heard[k].episode : k \in
     {l \in Predictions : \A m \in Ends : m > l => heard[l].episode \notin heard[m].episodes}}

(* The model is told of the end of an episode once, whatever times out.    *)
EndedOnce == \A k, l \in Ends : k # l => heard[k].episodes \cap heard[l].episodes = {}

(* The route's client keeps the episode lifecycle towards the model, as    *)
(* the driver does: no predict under an id whose end the model was told,   *)
(* and one end for each.                                                   *)
Lifecycle == INSTANCE EpisodeLifecycle WITH open <- OpenIds, ended <- EndedIds
KeepsLifecycle == Lifecycle!Spec /\ []EndedOnce

(* After a close that succeeded nothing of the route is left: the server   *)
(* has released it, no request of an earlier call can resolve it again,    *)
(* and the model was told the end of every episode it predicted for, but   *)
(* for those named in a request on which the server panicked.              *)
ClosedIsGone ==
  LET panicked == UNION {heard[k].episodes : k \in {l \in DOMAIN heard : heard[l].kind = "panicked"}}
  IN closed => /\ ~served
               /\ up = <<>>
               /\ {heard[k].episode : k \in Predictions} \subseteq EndedIds \cup panicked

(* A predict that comes to its turn at the server finds its route resolved *)
(* although resolves and releases that timed out are still served before   *)
(* it: the error for an unresolved route never answers this client.        *)
PredictFindsRoute ==
  \A i \in DOMAIN up :
     user = "route" /\ Servable(i) /\ up[i].message.kind = "predict" => served

(* The client and the server agree on whether the route is there: when the *)
(* client closed it, and when it predicts on it.                           *)
RouteAgreed == ClosedIsGone /\ PredictFindsRoute

(* The frames that wait for replay belong to the current episode and are   *)
(* for exactly the coming steps, although earlier calls timed out and      *)
(* their chunks arrive late.                                               *)
FramesInStep ==
  doing = "nothing" /\ episode # 0 =>
    \A j \in DOMAIN buffer : buffer[j] = [episode |-> episode, at |-> step + j - 1]

(* On a history route the model gets the observations of an episode one    *)
(* after the other and without a gap, replayed steps and timed-out calls   *)
(* included.                                                               *)
HistoryComplete ==
  \A k, l \in Predictions :
     /\ k < l
     /\ heard[k].episode = heard[l].episode
     /\ \A m \in Predictions : ~ (k < m /\ m < l)
     /\ heard[l].steps # <<>>
     => /\ Head(heard[l].steps) = heard[k].at + 1
        /\ \A j \in 1..(Len(heard[l].steps) - 1) :
             heard[l].steps[j + 1] = heard[l].steps[j] + 1


=============================================================================
