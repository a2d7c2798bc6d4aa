----------------------------- MODULE ServedModel -----------------------------
(* The model endpoint under its serve lifecycle: every request is activity  *)
(* for the idle watcher, and when the server has drained the model's close  *)
(* hook sweeps what the engine still holds (BoundModelServer::serve).       *)
EXTENDS ModelServer, ServerLifecycle, FiniteSetsExt

CONSTANT Deployments  \* bound: the scripts, each with the options it is served under

servedVars == <<serverVars, lifeVars>>

ServedInit == Init /\ LifeInit /\ <<script, options>> \in Deployments

(* The client sent all it had and ended the stream or closed the session,  *)
(* and every response was sent.                                            *)
StreamDone(s) ==
  /\ Len(log[s]) = Len(script[s])
  /\ \A i \in DOMAIN log[s] : stage[s][i] \in {"answered", "panicked"}

(* Faulty: a panic is not reported to the watcher.                         *)
UnguardedTask(s, i) == Task(s, i) /\ UNCHANGED lifeVars

(* A task's step; a panic drops its activity guard.                        *)
GuardedTask(s, i) ==
  /\ Task(s, i)
  /\ IF stage'[s][i] = "panicked" THEN Ended ELSE UNCHANGED lifeVars

(* on_close clears the mapped entries one by one, each under its own lock, *)
(* and stops with a panic at one that is poisoned.                         *)
MappedRecords == {routes[r] : r \in Records} \ {0}    \* faulty

Mapped == {routes[r] : r \in Routes} \ {0}

Poisoned == {e \in Mapped : entries[e].poisoned}

SweepEntries(cleared) ==
  /\ entries' = [e \in DOMAIN entries |->
                   IF e \in cleared THEN FreshEntry(entries[e].route) ELSE entries[e]]
  /\ total' =
       [episodes  |-> total.episodes - MapThenSumSet(LAMBDA e : entries[e].published, cleared),
        projected |-> total.projected
                        - MapThenSumSet(LAMBDA e : entries[e].published
                                                     * LaneBytes[entries[e].route], cleared)]

(* close_model: the hook waits for the handler lock and sweeps; it fails   *)
(* on a poisoned entry or in the model's own hook.                         *)
CloseModel ==
  /\ lock = None
  /\ \/ /\ Poisoned = {}
        /\ SweepEntries(Mapped)
        /\ Closed("swept")
     \/ /\ Poisoned # {}
        /\ \E cleared \in SUBSET (Mapped \ Poisoned) : SweepEntries(cleared)
        /\ Closed("failed")
  /\ UNCHANGED <<orderVars, stage, out, lock, at, left, configs, routes>>

(* The steps of the watcher and of serve, timers included.                 *)
ServeStep ==
  \/ Hear \/ IdleOut
  \/ StartDrain \/ CutDrain
  \/ options.close /\ lock # None /\ Closed("timeout")

(* A step of a dispatch loop that has a permit to give, or of a task.      *)
WorkStep ==
  \E s \in Streams : \E i \in DOMAIN log[s] :
     (Admit(s, i) /\ Began) \/ GuardedTask(s, i)

ReplyStep == \E s \in Streams : \E i \in DOMAIN log[s] : Reply(s, i) /\ Ended

ServedNext ==
  \/ WorkStep
  \/ ReplyStep
  \/ \E s \in Streams : Dispatch(s) /\ UNCHANGED lifeVars
  \/ ServeStep /\ UNCHANGED serverVars
  \/ RemoteShutdown /\ UNCHANGED serverVars
  \/ Drained(\A s \in Streams : StreamDone(s)) /\ UNCHANGED serverVars
  \/ CloseModel

ServedSpec == ServedInit /\ [][ServedNext]_servedVars

(* The runtime keeps polling the tasks, the watcher and serve, and timers  *)
(* fire. Clients owe nothing: neither a request, nor reading a response,   *)
(* nor ending a stream.                                                    *)
FairSpec ==
  /\ ServedSpec
  /\ WF_servedVars(WorkStep)
  /\ WF_servedVars(ServeStep /\ UNCHANGED serverVars)
  /\ WF_servedVars(CloseModel)

(* The clients read their responses, or their connections go.              *)
ClientsRead == WF_servedVars(ReplyStep)

---------------------------------------------------------------------------
(* Properties.                                                             *)

(* The endpoint's held-state total is the sum of what its entries hold, no *)
(* more and no less, through every order of publishing, eviction, release, *)
(* re-resolution, late drops and the final sweep; only an entry that a     *)
(* panic poisoned may hold episodes it did not publish.                    *)
HeldExact ==
  /\ total.episodes = MapThenSumSet(LAMBDA e : entries[e].published, DOMAIN entries)
  /\ total.projected =
       MapThenSumSet(LAMBDA e : entries[e].published * LaneBytes[entries[e].route],
                     DOMAIN entries)
  /\ \A e \in DOMAIN entries :
       entries[e].poisoned \/ entries[e].published = Cardinality(entries[e].held)

(* The accounting of held state: the total is exact, and an entry that     *)
(* nothing refers to any more was dropped once.                            *)
HeldAccounted == HeldExact /\ OrphansHoldNothing

(* The windows of all groups of a request but the largest.                 *)
Windows(g) == IF g.route = None THEN 0 ELSE Cardinality(g.episodes) * LaneBytes[g.route]

Overshoot(r) ==
  LET J == DOMAIN r.groups
  IN IF Cardinality(J) < 2 \/ ~Fuses THEN 0
     ELSE MapThenSumSet(LAMBDA j : Windows(r.groups[j]), J) - Max({Windows(r.groups[j]) : j \in J})

(* The frame-window budget: what the endpoint projects to hold stays       *)
(* within the limit, but for the groups of one fused request that are      *)
(* admitted at the same instant (the comment on admit_fresh_lanes); the    *)
(* excess of one request never adds to that of another.                    *)
BudgetKept ==
  LET asked == UNION {{Overshoot(log[s][i]) : i \in DOMAIN log[s]} : s \in Streams}
  IN total.projected <= Limit + Max(asked \cup {0})

(* The idle timer fires only when no request of any stream is in flight,   *)
(* though the watcher learns of requests late.                             *)
IdleOnlyWhenQuiet ==
  [][reason = "none" /\ reason' = "idle" => \A s \in Streams : InFlight(s) = {}]_servedVars

(* A server that drained and swept holds nothing: every entry still alive  *)
(* was in the map that on_close walks.                                     *)
SweptClean ==
  phase = "swept" /\ ~cut =>
     /\ total = [episodes |-> 0, projected |-> 0]
     /\ \A e \in DOMAIN entries : entries[e].held = {}


(* Once a request has its permit its handler completes, or panics, even if *)
(* no client ever reads a response: gates, permits and the handler mutex   *)
(* never wait for each other in a circle, so that again and again every    *)
(* admitted request has been served.                                       *)
AdmittedAreServed ==
  []<>(\A s \in Streams : \A i \in InFlight(s) : Released(s, i))

(* With a drain timeout serve ends once a shutdown is triggered, whatever  *)
(* the clients do: a stuck stream cannot hold it, and the close hook       *)
(* always gets the handler lock.                                           *)
ShutdownCompletes ==
  (reason # "none" /\ options.drain) ~> phase \in {"swept", "failed", "timeout"}

(* With an idle timeout the server stops once its clients are served: no   *)
(* request, failed or panicked, keeps the watcher's count up for ever.     *)
IdleShutsDown == ClientsRead => (options.idle ~> reason # "none")

(* Idleness is seen when it is there and only then.                        *)
IdleIsExact == IdleOnlyWhenQuiet /\ IdleShutsDown

=============================================================================
