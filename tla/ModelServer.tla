----------------------------- MODULE ModelServer -----------------------------
(* The served model endpoint (crates/rlmesh/src/model/server.rs) with the   *)
(* adapter engine behind it (model/engine.rs).                              *)
(*                                                                          *)
(* Every Join stream has a dispatch loop that takes the requests in arrival *)
(* order, computes the gate each must wait for from the tails of its routes *)
(* (RouteTails), takes a permit and spawns a task. Tasks run concurrently:  *)
(* the handler mutex serializes the model's forwards, but routes are        *)
(* resolved, evicted and released outside it. The route table, the engine's *)
(* entries and the held-state total are shared by all streams.              *)
(*                                                                          *)
(* Observations, actions, editions and timings are data and left out. An    *)
(* episode's windows are the fact that an entry holds the episode. The      *)
(* u64 cells are integers: HeldExact shows that none ever wraps.            *)
EXTENDS Integers, Sequences, FiniteSets

CONSTANTS
  Streams,      \* open Join streams
  Routes,       \* env ids
  Raw,          \* the routes for which the resolver returns no adapter
  Records,      \* the routes whose adapter reads its previous action
  Episodes,
  LaneBytes,    \* bytes that one episode's full windows take on each route
  Limit,        \* RLMESH_FRAME_HISTORY_LIMIT_BYTES
  Fuses,        \* the model allows fusion and has a batched corner
  Permits,      \* predict_concurrency
  Scripts,      \* bound: what the clients may send, each a sequence of requests
                \* for every stream
  None

VARIABLES
  script,   \* what the clients send, fixed initially
  log,      \* requests of each stream in the order they were dispatched
  gate,     \* for each of them, the requests it waits for (RequestGate)
  stage,    \* how far its task is
  out,      \* its outcome
  tails,    \* RouteTails: the last request of each route, 0 for none
  lock,     \* the task that holds the handler mutex
  at,       \* progress of each group of a predict: its state and its entry
  left,     \* the routes a stream's Close has still to release
  configs,  \* keys of route_configs
  routes,   \* the engine's route map: index of an entry, 0 for none
  entries,  \* every RouteEntry created
  total     \* HeldCells

orderVars  == <<script, log, gate, tails>>
engineVars == <<routes, entries, total>>
serverVars == <<script, log, gate, stage, out, tails, lock, at, left,
                configs, routes, entries, total>>

---------------------------------------------------------------------------
(* Requests and the order in which they are served.                        *)

Kinds == {"resolve", "predict", "grouped", "reset", "release", "close", "empty"}

(* A request also says how the code it runs may fail on its data.           *)
Faults == {"error", "panic"}

Group == [route : Routes \cup {None}, episodes : SUBSET Episodes]

Request == [kind : Kinds, groups : Seq(Group), faults : SUBSET Faults]

ASSUME ServerConstants ==
  /\ Raw \subseteq Routes
  /\ None \notin Routes
  /\ LaneBytes \in [Routes -> Nat]
  /\ Limit \in Nat
  /\ Permits \in Nat \ {0}
  /\ Raw \cap Records = {}
  /\ Scripts \subseteq [Streams -> Seq(Request)]

(* join_request_route_key and grouped_predict_route_keys: a group without  *)
(* an env id contributes no key.                                           *)
Keys(r) == {r.groups[j].route : j \in DOMAIN r.groups} \ {None}

(* The request's done signals fired, or a panic dropped them.              *)
Released(s, i) == stage[s][i] \in {"replying", "answered", "panicked"}

Started(s, i) == stage[s][i] \notin {"admitting", "waiting"}

HasPermit(s, i) == stage[s][i] \notin {"admitting", "answered", "panicked"}

InFlight(s) == {i \in DOMAIN stage[s] : HasPermit(s, i)}

(* Faulty: a request on several routes waits for the newest tail only.     *)
GateOfNewest(s, r) ==
  LET before == {tails[s][k] : k \in IF r.kind = "close" THEN Routes ELSE Keys(r)} \ {0}
  IN {m \in before : \A n \in before : n <= m}

(* next_keyed_gate, next_multi_keyed_gate and close_all_gate: the tails    *)
(* that the request waits for.                                             *)
GateOf(s, r) ==
  {tails[s][k] : k \in IF r.kind = "close" THEN Routes ELSE Keys(r)} \ {0}

(* The same operations on the map: the request becomes the tail of its     *)
(* routes, and reap_completed drops the tails that already fired. A Close  *)
(* drains the map.                                                         *)
TailsAfter(s, r, n) ==
  [k \in Routes |->
     CASE r.kind = "close" -> 0
       [] r.kind # "close" /\ k \in Keys(r) -> n
       [] OTHER -> IF tails[s][k] # 0 /\ Released(s, tails[s][k])
                     THEN 0 ELSE tails[s][k]]

(* The dispatch loop takes the next request off the stream. It reads       *)
(* nothing after a Close, and nothing while it waits for a permit.         *)
Dispatch(s) ==
  /\ Len(log[s]) < Len(script[s])
  /\ \A i \in DOMAIN log[s] : log[s][i].kind # "close" /\ stage[s][i] # "admitting"
  /\ LET r == script[s][Len(log[s]) + 1]
     IN /\ log' = [log EXCEPT ![s] = Append(@, r)]
        /\ gate' = [gate EXCEPT ![s] = Append(@, GateOf(s, r))]
        /\ tails' = [tails EXCEPT ![s] = TailsAfter(s, r, Len(log[s]) + 1)]
  /\ stage' = [stage EXCEPT ![s] = Append(@, "admitting")]
  /\ out' = [out EXCEPT ![s] = Append(@, "none")]
  /\ at' = [at EXCEPT ![s] = Append(@, <<>>)]
  /\ UNCHANGED <<script, lock, left, configs, engineVars>>

(* The loop gets a permit for the request it holds and spawns its task.    *)
Admit(s, i) ==
  /\ stage[s][i] = "admitting"
  /\ Cardinality(InFlight(s)) < Permits
  /\ stage' = [stage EXCEPT ![s][i] = "waiting"]
  /\ UNCHANGED <<orderVars, out, lock, at, left, configs, engineVars>>

(* Faulty: it waits until the predecessors' responses were sent.           *)
StartAfterReplies(s, i) ==
  /\ stage[s][i] = "waiting"
  /\ \A m \in gate[s][i] : stage[s][m] \in {"answered", "panicked"}
  /\ stage' = [stage EXCEPT ![s][i] = "serving"]
  /\ UNCHANGED <<orderVars, out, lock, at, left, configs, engineVars>>

(* RequestGate::wait: every predecessor finished or panicked.              *)
Start(s, i) ==
  /\ stage[s][i] = "waiting"
  /\ \A m \in gate[s][i] : Released(s, m)
  /\ stage' = [stage EXCEPT ![s][i] = "serving"]
  /\ UNCHANGED <<orderVars, out, lock, at, left, configs, engineVars>>

(* The handler returned: the done signals fire before the response is      *)
(* sent, so successors do not depend on the client reading.                *)
Finish(s, i, result) ==
  /\ stage' = [stage EXCEPT ![s][i] = "replying"]
  /\ out' = [out EXCEPT ![s][i] = result]

(* The task sends its response and ends: once the response channel has     *)
(* room, which is up to the client's reading, or is closed.                *)
Reply(s, i) ==
  /\ stage[s][i] = "replying"
  /\ stage' = [stage EXCEPT ![s][i] = "answered"]
  /\ UNCHANGED <<orderVars, out, lock, at, left, configs, engineVars>>

---------------------------------------------------------------------------
(* Route entries and the endpoint's held-state total.                      *)

Entry == [route : Routes, held : SUBSET Episodes, published : Nat, poisoned : BOOLEAN]

FreshEntry(r) == [route |-> r, held |-> {}, published |-> 0, poisoned |-> FALSE]

(* The Arc of entry e is held by a group of a predict in progress.         *)
Referenced(e, s, i, j) == e # 0 /\ at[s][i][j].entry = e

InUse(e) ==
  \E s \in Streams : \E i \in DOMAIN at[s] : \E j \in DOMAIN at[s][i] : Referenced(e, s, i, j)

(* The entry's own mutex, held from admission to the end of assembly.      *)
Locked(e) ==
  \E s \in Streams : \E i \in DOMAIN at[s] : \E j \in DOMAIN at[s][i] :
     at[s][i][j] = [st |-> "admitted", entry |-> e]

InUseElsewhere(e, s, i, j) ==
  \E t \in Streams : \E m \in DOMAIN at[t] : \E n \in DOMAIN at[t][m] :
     <<t, m, n>> # <<s, i, j>> /\ Referenced(e, t, m, n)

(* Faulty: against what the entry holds, which a panic left unpublished.   *)
TotalAfterHeld(e, published) ==
  LET more == published - Cardinality(entries[e].held)
  IN [episodes  |-> total.episodes + more,
      projected |-> total.projected + more * LaneBytes[entries[e].route]]

(* publish_held: the difference against the last publish.                  *)
TotalAfter(e, published) ==
  LET more == published - entries[e].published
  IN [episodes  |-> total.episodes + more,
      projected |-> total.projected + more * LaneBytes[entries[e].route]]

(* Faulty: the next publish counts the same episodes again.                *)
PublishAfresh(e, held) ==
  /\ entries' = [entries EXCEPT ![e].held = held]
  /\ total' = TotalAfter(e, Cardinality(held))

Publish(e, held) ==
  /\ entries' = [entries EXCEPT ![e].held = held, ![e].published = Cardinality(held)]
  /\ total' = TotalAfter(e, Cardinality(held))

(* Drop for RouteEntry: what it published leaves the total.                *)
Dropped(e) == [entries EXCEPT ![e] = FreshEntry(@.route)]

(* The map's reference to a route's entry goes; the entry is dropped with  *)
(* it unless a predict still holds it.                                     *)
DropsNow(e) == e # 0 /\ ~InUse(e)

EntriesWithout(e) == IF DropsNow(e) THEN Dropped(e) ELSE entries

TotalWithout(e) == IF DropsNow(e) THEN TotalAfter(e, 0) ELSE total

Unlink(r) ==
  /\ entries' = EntriesWithout(routes[r])
  /\ total' = TotalWithout(routes[r])
  /\ routes' = [routes EXCEPT ![r] = 0]

---------------------------------------------------------------------------
(* handle_model_request, kind by kind, for the groups of request i.        *)

Serving(s, i, kind) == stage[s][i] = "serving" /\ log[s][i].kind = kind

RouteOf(s, i) == log[s][i].groups[1].route

(* How a call into the model may end: a panic there is an error too.       *)
Results(s, i) == {"ok"} \cup IF log[s][i].faults = {} THEN {} ELSE {"error"}

(* A request whose kind this build does not know, or that names no env.    *)
Refuse(s, i) ==
  /\ stage[s][i] = "serving"
  /\ \/ log[s][i].kind = "empty"
     \/ log[s][i].kind \in {"resolve", "reset", "release"} /\ RouteOf(s, i) = None
  /\ Finish(s, i, "error")
  /\ UNCHANGED <<orderVars, lock, at, left, configs, engineVars>>

(* Faulty: the config of a refused route is stored.                        *)
RefusedStillStored(s, i) ==
  /\ Serving(s, i, "resolve")
  /\ RouteOf(s, i) # None
  /\ "error" \in log[s][i].faults \/ LaneBytes[RouteOf(s, i)] > Limit
  /\ stage' = [stage EXCEPT ![s][i] = "resolved"]
  /\ UNCHANGED <<orderVars, out, lock, at, left, configs, engineVars>>

(* ResolveAdapter fails: a refused contract, edition or horizon, or a      *)
(* window that alone exceeds the budget. The route keeps what it had.      *)
RefuseRoute(s, i) ==
  /\ Serving(s, i, "resolve")
  /\ RouteOf(s, i) # None
  /\ "error" \in log[s][i].faults \/ LaneBytes[RouteOf(s, i)] > Limit
  /\ Finish(s, i, "error")
  /\ UNCHANGED <<orderVars, lock, at, left, configs, engineVars>>

(* ResolveAdapter up to the engine's answer: a route without an adapter,   *)
(* or a fresh entry that replaces the one the route had.                   *)
Resolve(s, i) ==
  /\ Serving(s, i, "resolve")
  /\ LET r == RouteOf(s, i)
     IN /\ r # None
        /\ LaneBytes[r] <= Limit
        /\ IF r \in Raw
             THEN UNCHANGED engineVars
             ELSE /\ entries' = Append(EntriesWithout(routes[r]), FreshEntry(r))
                  /\ total' = TotalWithout(routes[r])
                  /\ routes' = [routes EXCEPT ![r] = Len(entries) + 1]
  /\ stage' = [stage EXCEPT ![s][i] = "resolved"]
  /\ UNCHANGED <<orderVars, out, lock, at, left, configs>>

(* The config is stored only after the engine resolved the route.          *)
StoreConfig(s, i) ==
  /\ stage[s][i] = "resolved"
  /\ configs' = configs \cup {RouteOf(s, i)}
  /\ Finish(s, i, "ok")
  /\ UNCHANGED <<orderVars, lock, at, left, engineVars>>

(* ResetAdapter: the named episodes, or all of them, are evicted off the   *)
(* handler lock. Locking an entry that a panic poisoned panics the task,   *)
(* which then sends no response.                                           *)
Evict(s, i) ==
  /\ Serving(s, i, "reset")
  /\ LET r == RouteOf(s, i)
         named == log[s][i].groups[1].episodes
     IN /\ r # None
        /\ LET e == routes[r]
           IN \/ /\ e # 0 /\ entries[e].poisoned
                 /\ stage' = [stage EXCEPT ![s][i] = "panicked"]
                 /\ UNCHANGED <<entries, total>>
              \/ /\ e # 0 /\ ~entries[e].poisoned /\ ~Locked(e)
                 /\ stage' = [stage EXCEPT ![s][i] = "evicted"]
                 /\ Publish(e, IF named = {} THEN {} ELSE entries[e].held \ named)
              \/ /\ e = 0
                 /\ stage' = [stage EXCEPT ![s][i] = "evicted"]
                 /\ UNCHANGED <<entries, total>>
  /\ UNCHANGED <<orderVars, out, lock, at, left, configs, routes>>

(* Then the model's own hook runs behind the forwards in flight.           *)
EpisodeHook(s, i) ==
  /\ stage[s][i] = "evicted"
  /\ lock = None
  /\ \E result \in Results(s, i) : Finish(s, i, result)
  /\ UNCHANGED <<orderVars, lock, at, left, configs, engineVars>>

(* ReleaseAdapter drops the config, then the engine's entry; the model's   *)
(* hook may still fail the request.                                        *)
DropConfig(s, i) ==
  /\ Serving(s, i, "release")
  /\ RouteOf(s, i) # None
  /\ configs' = configs \ {RouteOf(s, i)}
  /\ stage' = [stage EXCEPT ![s][i] = "releasing"]
  /\ UNCHANGED <<orderVars, out, lock, at, left, engineVars>>

Release(s, i) ==
  /\ stage[s][i] = "releasing"
  /\ Unlink(RouteOf(s, i))
  /\ \E result \in Results(s, i) : Finish(s, i, result)
  /\ UNCHANGED <<orderVars, lock, at, left, configs>>

(* Close releases the routes it finds configured, one at a time, and gives *)
(* up at the first failing hook; at the end it clears the whole table.     *)
Snapshot(s, i) ==
  /\ Serving(s, i, "close")
  /\ left' = [left EXCEPT ![s] = configs]
  /\ stage' = [stage EXCEPT ![s][i] = "closing"]
  /\ UNCHANGED <<orderVars, out, lock, at, configs, engineVars>>

CloseRoute(s, i, r) ==
  /\ stage[s][i] = "closing"
  /\ r \in left[s]
  /\ Unlink(r)
  /\ \/ left' = [left EXCEPT ![s] = @ \ {r}] /\ UNCHANGED <<stage, out>>
     \/ "error" \in Results(s, i) /\ left' = [left EXCEPT ![s] = {}] /\ Finish(s, i, "error")
  /\ UNCHANGED <<orderVars, lock, at, configs>>


ClearConfigs(s, i) ==
  /\ stage[s][i] = "closing"
  /\ left[s] = {}
  /\ configs' = {}
  /\ Finish(s, i, "ok")
  /\ UNCHANGED <<orderVars, lock, at, left, engineVars>>

---------------------------------------------------------------------------
(* Predict and GroupedPredict. A single predict is a group of one.         *)

(* prepare_predict for every group, off the handler lock: a route without  *)
(* a config fails its own group. The groups are looked up in one step, as  *)
(* only other streams change the table in between.                         *)
Prepare(s, i) ==
  /\ stage[s][i] = "serving"
  /\ log[s][i].kind \in {"predict", "grouped"}
  /\ at' = [at EXCEPT ![s][i] =
               [j \in DOMAIN log[s][i].groups |->
                  [st |-> IF log[s][i].groups[j].route \in configs THEN "ready" ELSE "failed",
                   entry |-> 0]]]
  /\ IF log[s][i].kind = "predict" /\ log[s][i].groups[1].route \notin configs
       THEN Finish(s, i, "error")
       ELSE stage' = [stage EXCEPT ![s][i] = "prepared"] /\ UNCHANGED out
  /\ UNCHANGED <<orderVars, lock, left, configs, engineVars>>

State(s, i, j) == at[s][i][j].st

Batch(s, i) == {j \in DOMAIN at[s][i] : State(s, i, j) # "failed"}

(* assembles_in_parallel locks the entries of the batch in turn, until two *)
(* groups turn out to share one; a poisoned entry panics the whole call.   *)
HitsPoison(s, i) ==
  LET entry(j) == routes[log[s][i].groups[j].route]
  IN \E j \in Batch(s, i) :
        /\ entry(j) # 0 /\ entries[entry(j)].poisoned
        /\ \A k, m \in Batch(s, i) : k < m /\ m <= j /\ entry(k) # 0 => entry(k) # entry(m)

(* The handler mutex. predict_grouped fuses more than one prepared group   *)
(* when the model can, and then finds all their entries at once; otherwise *)
(* it serves them one after the other.                                     *)
Lock(s, i) ==
  /\ stage[s][i] = "prepared"
  /\ lock = None
  /\ lock' = <<s, i>>
  /\ IF log[s][i].kind = "grouped" /\ Fuses /\ Cardinality(Batch(s, i)) > 1
       THEN /\ stage' = [stage EXCEPT ![s][i] = "fused"]
            /\ LET st == IF HitsPoison(s, i) THEN "erred" ELSE "entered"
               IN at' = [at EXCEPT ![s][i] =
                    [j \in DOMAIN @ |->
                       IF j \in Batch(s, i)
                         THEN [st |-> st, entry |-> routes[log[s][i].groups[j].route]]
                         ELSE @[j]]]
       ELSE stage' = [stage EXCEPT ![s][i] = "locked"] /\ UNCHANGED at
  /\ UNCHANGED <<orderVars, out, left, configs, engineVars>>

(* predict_chunked looks the route up when the group's turn comes.         *)
Enter(s, i, j) ==
  /\ stage[s][i] = "locked"
  /\ State(s, i, j) = "ready"
  /\ \A k \in 1..(j - 1) : State(s, i, k) \in {"served", "failed"}
  /\ at' = [at EXCEPT ![s][i][j] =
               [st |-> "entered", entry |-> routes[log[s][i].groups[j].route]]]
  /\ UNCHANGED <<orderVars, stage, out, lock, left, configs, engineVars>>

(* assembles_in_parallel: more than one adapted group, on distinct routes. *)
Parallel(s, i) ==
  LET routed == {j \in Batch(s, i) : at[s][i][j].entry # 0}
  IN /\ Cardinality(routed) > 1
     /\ \A j, k \in routed : at[s][i][j].entry = at[s][i][k].entry => j = k

(* The group may work under its entry's lock: the groups of a fused call   *)
(* assemble side by side, or in order if they share a route.               *)
Turn(s, i, j) ==
  \/ stage[s][i] = "locked"
  \/ /\ stage[s][i] = "fused"
     /\ \/ Parallel(s, i)
        \/ \A k \in 1..(j - 1) : State(s, i, k) \notin {"admitted", "panicked"}
                                /\ (State(s, i, k) = "entered" => at[s][i][k].entry = 0)

Moves(s, i, j, st) == at' = [at EXCEPT ![s][i][j].st = st]

(* The bytes the endpoint would project with these episodes in the entry.  *)
ProjectedAlone(e, held) == Cardinality(held) * LaneBytes[entries[e].route]    \* faulty

Projected(e, held) ==
  total.projected + (Cardinality(held) - entries[e].published) * LaneBytes[entries[e].route]

(* admit_fresh_lanes: the episodes the entry does not hold yet are charged *)
(* at their full size on top of what the endpoint projects. A refused      *)
(* request seeds nothing. A poisoned entry panics the blocking closure.    *)
AdmitLanes(s, i, j) ==
  /\ State(s, i, j) = "entered"
  /\ at[s][i][j].entry # 0
  /\ Turn(s, i, j)
  /\ LET e     == at[s][i][j].entry
         asked == log[s][i].groups[j].episodes
         exceeds == /\ LaneBytes[entries[e].route] > 0 /\ ~ (asked \subseteq entries[e].held)
                    /\ Projected(e, entries[e].held \cup asked) > Limit
     IN Moves(s, i, j,
              CASE entries[e].poisoned -> "panicked"
                [] ~entries[e].poisoned /\ exceeds -> "erred"
                [] OTHER -> "admitted")
  /\ UNCHANGED <<orderVars, stage, out, lock, left, configs, engineVars>>

(* The episodes a route keeps state for.                                   *)
Kept(r, episodes) == IF LaneBytes[r] > 0 \/ r \in Records THEN episodes ELSE {}

(* assemble_route_inputs: the windows are seeded lane by lane and          *)
(* published even when a lane fails. A panic skips the publish and poisons *)
(* the entry.                                                              *)
Assemble(s, i, j) ==
  /\ State(s, i, j) = "admitted"
  /\ LET e == at[s][i][j].entry
         seeds == Kept(entries[e].route, log[s][i].groups[j].episodes)
     IN \/ /\ Publish(e, entries[e].held \cup seeds)
           /\ Moves(s, i, j, "assembled")
        \/ /\ "error" \in log[s][i].faults
           /\ \E some \in SUBSET seeds : Publish(e, entries[e].held \cup some)
           /\ Moves(s, i, j, "erred")
        \/ /\ "panic" \in log[s][i].faults
           /\ \E some \in SUBSET seeds :
                entries' = [entries EXCEPT ![e].held = @ \cup some, ![e].poisoned = TRUE]
           /\ Moves(s, i, j, "panicked")
           /\ UNCHANGED total
  /\ UNCHANGED <<orderVars, stage, out, lock, left, configs, routes>>

(* Every adapted group of a fused call is assembled or failed, or a panic  *)
(* in one of a sequence kept the later ones from being tried.              *)
Staged(s, i) ==
  \A j \in DOMAIN at[s][i] :
     \/ State(s, i, j) \notin {"entered", "admitted"}
     \/ State(s, i, j) = "entered"
        /\ \/ at[s][i][j].entry = 0
           \/ \E k \in 1..(j - 1) : ~Parallel(s, i) /\ State(s, i, k) = "panicked"

(* A spec-less group is served by the model's raw path.                    *)
ServeRaw(s, i, j) ==
  /\ State(s, i, j) = "entered"
  /\ at[s][i][j].entry = 0
  /\ \/ stage[s][i] = "locked"
     \/ stage[s][i] = "fused" /\ Staged(s, i)
        /\ \A k \in DOMAIN at[s][i] : State(s, i, k) # "panicked"
  /\ \E result \in Results(s, i) : Moves(s, i, j, IF result = "ok" THEN "served" ELSE "failed")
  /\ UNCHANGED <<orderVars, stage, out, lock, left, configs, engineVars>>

(* The model's forward, one for all groups of a fused call: its failure,   *)
(* or a panic while assembling, fails every group it covers.               *)
Forward(s, i) ==
  /\ stage[s][i] \in {"locked", "fused"}
  /\ \E j \in DOMAIN at[s][i] : State(s, i, j) \in {"assembled", "panicked"}
  /\ stage[s][i] = "fused" => Staged(s, i)
  /\ LET panicked == \E j \in DOMAIN at[s][i] : State(s, i, j) = "panicked"
     IN /\ stage[s][i] = "fused" /\ ~panicked
             => \A j \in DOMAIN at[s][i] : State(s, i, j) # "entered"
        /\ \E result \in IF panicked THEN {"error"} ELSE Results(s, i) :
             at' = [at EXCEPT ![s][i] =
                 [j \in DOMAIN @ |->
                    CASE @[j].st = "assembled" ->
                           [@[j] EXCEPT !.st = IF result = "ok" THEN "predicted" ELSE "erred"]
                      [] @[j].st = "panicked" \/ (panicked /\ stage[s][i] = "fused"
                                                  /\ @[j].st = "entered") ->
                           [@[j] EXCEPT !.st = "erred"]
                      [] OTHER -> @[j]]]
  /\ UNCHANGED <<orderVars, stage, out, lock, left, configs, engineVars>>

(* The group gives its reference to the entry up; the entry is dropped     *)
(* here if its route was released or resolved again meanwhile.             *)
LetGo(s, i, j, st) == at' = [at EXCEPT ![s][i][j] = [st |-> st, entry |-> 0]]

LastReferenceUnseen(s, i, j) == FALSE    \* faulty

LastReference(s, i, j) ==
  LET e == at[s][i][j].entry
  IN e # 0 /\ routes[entries[e].route] # e /\ ~InUseElsewhere(e, s, i, j)

Drop(e) == entries' = Dropped(e) /\ total' = TotalAfter(e, 0)

(* finish_route_frames: the actions are recorded for an adapter that reads *)
(* them back, and the entry publishes again.                               *)
Apply(s, i, j) ==
  /\ State(s, i, j) = "predicted"
  /\ LET e == at[s][i][j].entry
         recorded == IF entries[e].route \in Records THEN log[s][i].groups[j].episodes ELSE {}
     IN \E result \in Results(s, i) :
        \E some \in IF result = "ok" THEN {recorded} ELSE SUBSET recorded :
          /\ IF LastReference(s, i, j) THEN Drop(e) ELSE Publish(e, entries[e].held \cup some)
          /\ LetGo(s, i, j, IF result = "ok" THEN "served" ELSE "failed")
  /\ UNCHANGED <<orderVars, stage, out, lock, left, configs, routes>>

(* A group that failed on the way.                                         *)
Fail(s, i, j) ==
  /\ State(s, i, j) = "erred"
  /\ \A k \in DOMAIN at[s][i] : State(s, i, k) # "panicked"
  /\ stage[s][i] = "fused" => Staged(s, i)
  /\ IF LastReference(s, i, j) THEN Drop(at[s][i][j].entry) ELSE UNCHANGED <<entries, total>>
  /\ LetGo(s, i, j, "failed")
  /\ UNCHANGED <<orderVars, stage, out, lock, left, configs, routes>>

(* Faulty: a single predict that failed keeps the handler locked.          *)
UnlockOnSuccess(s, i) ==
  /\ stage[s][i] \in {"locked", "fused"}
  /\ \A j \in DOMAIN at[s][i] : State(s, i, j) \in {"served", "failed"}
  /\ lock' = IF log[s][i].kind = "predict" /\ State(s, i, 1) = "failed" THEN lock ELSE None
  /\ Finish(s, i, "ok")
  /\ UNCHANGED <<orderVars, at, left, configs, engineVars>>

(* The handler is unlocked and the response encoded.                       *)
Unlock(s, i) ==
  /\ stage[s][i] \in {"locked", "fused"}
  /\ \A j \in DOMAIN at[s][i] : State(s, i, j) \in {"served", "failed"}
  /\ lock' = None
  /\ Finish(s, i, IF log[s][i].kind = "predict" /\ State(s, i, 1) = "failed"
                    THEN "error" ELSE "ok")
  /\ UNCHANGED <<orderVars, at, left, configs, engineVars>>

---------------------------------------------------------------------------
Init ==
  /\ script \in Scripts
  /\ log = [s \in Streams |-> <<>>]
  /\ gate = [s \in Streams |-> <<>>]
  /\ stage = [s \in Streams |-> <<>>]
  /\ out = [s \in Streams |-> <<>>]
  /\ tails = [s \in Streams |-> [k \in Routes |-> 0]]
  /\ lock = None
  /\ at = [s \in Streams |-> <<>>]
  /\ left = [s \in Streams |-> {}]
  /\ configs = {}
  /\ routes = [r \in Routes |-> 0]
  /\ entries = <<>>
  /\ total = [episodes |-> 0, projected |-> 0]

(* The steps of the predict groups.                                        *)
GroupStep(s, i) ==
  \E j \in DOMAIN at[s][i] :
     \/ Enter(s, i, j) \/ AdmitLanes(s, i, j) \/ Assemble(s, i, j)
     \/ ServeRaw(s, i, j) \/ Apply(s, i, j) \/ Fail(s, i, j)

(* A step of the task of request i inside the handler.                     *)
Handle(s, i) ==
  \/ Refuse(s, i)
  \/ RefuseRoute(s, i) \/ Resolve(s, i) \/ StoreConfig(s, i)
  \/ Evict(s, i) \/ EpisodeHook(s, i)
  \/ DropConfig(s, i) \/ Release(s, i)
  \/ Snapshot(s, i) \/ (\E r \in Routes : CloseRoute(s, i, r)) \/ ClearConfigs(s, i)
  \/ Prepare(s, i) \/ Lock(s, i) \/ GroupStep(s, i) \/ Forward(s, i) \/ Unlock(s, i)

Task(s, i) == Start(s, i) \/ Handle(s, i)

Next ==
  \E s \in Streams :
     \/ Dispatch(s)
     \/ \E i \in DOMAIN log[s] : Admit(s, i) \/ Task(s, i) \/ Reply(s, i)

Spec == Init /\ [][Next]_serverVars

---------------------------------------------------------------------------
(* Properties.                                                             *)

Stages == {"admitting", "waiting", "serving", "resolved", "evicted", "releasing", "closing",
           "prepared", "locked", "fused", "replying", "answered", "panicked"}

GroupStates == {"ready", "entered", "admitted", "assembled", "predicted", "panicked", "erred",
                "served", "failed"}

(* The handler mutex always belongs to a task that still forwards, and a   *)
(* task that forwards has it: no path, failing ones included, leaves it    *)
(* locked behind.                                                          *)
LockFollowsForward ==
  \A s \in Streams : \A i \in DOMAIN log[s] :
     lock = <<s, i>> <=> stage[s][i] \in {"locked", "fused"}

(* The shape of the endpoint's state; every index is within its sequence,  *)
(* the mutex is with the task that forwards, and the total never goes      *)
(* below zero, where the u64 cells would wrap.                             *)
TypeOK ==
  /\ \A s \in Streams :
       /\ log[s] \in Seq(Request)
       /\ Len(gate[s]) = Len(log[s]) /\ Len(stage[s]) = Len(log[s])
       /\ Len(out[s]) = Len(log[s]) /\ Len(at[s]) = Len(log[s])
       /\ \A i \in DOMAIN log[s] :
            /\ gate[s][i] \subseteq 1..(i - 1)
            /\ stage[s][i] \in Stages
            /\ out[s][i] \in {"none", "ok", "error"}
            /\ \A j \in DOMAIN at[s][i] :
                 at[s][i][j] \in [st : GroupStates, entry : 0..Len(entries)]
  /\ tails \in [Streams -> [Routes -> Nat]]
  /\ lock = None \/ (lock[1] \in Streams /\ lock[2] \in DOMAIN log[lock[1]])
  /\ LockFollowsForward
  /\ left \in [Streams -> SUBSET Routes]
  /\ configs \subseteq Routes
  /\ routes \in [Routes -> 0..Len(entries)]
  /\ entries \in Seq(Entry)
  /\ total.episodes \in Nat /\ total.projected \in Nat

(* Request j has to wait for request i: they share a route, or j closes    *)
(* the session and i was ordered by any route.                             *)
OrderedAfter(s, i, j) ==
  /\ i < j
  /\ \/ Keys(log[s][i]) \cap Keys(log[s][j]) # {}
     \/ log[s][j].kind = "close" /\ Keys(log[s][i]) # {}

(* Per-route order, as RouteTails keeps it: no request enters its handler  *)
(* before every earlier request of its stream on one of its routes left    *)
(* its own, grouped predicts on several routes included, and a Close       *)
(* enters after all of them. Reaping fired tails never loosens this.       *)
RouteOrder ==
  \A s \in Streams : \A i, j \in DOMAIN log[s] :
     OrderedAfter(s, i, j) /\ Started(s, j) => Released(s, i)

(* No other stream takes this route away from the client of s.             *)
Undisturbed(s, r) ==
  \A t \in Streams \ {s} : \A i \in DOMAIN log[t] :
     ~ (log[t][i].kind = "close" \/ (log[t][i].kind = "release" /\ r \in Keys(log[t][i])))

(* A predict that found its route configured is served through the adapter *)
(* the route was resolved with, never by the spec-less path that           *)
(* predict_chunked takes when the engine has no entry. It reads the two    *)
(* tables at different times, and they are written at different times.     *)
AdaptedAsResolved ==
  \A s \in Streams : \A i \in DOMAIN at[s] : \A j \in DOMAIN at[s][i] :
     LET r == log[s][i].groups[j].route
     IN State(s, i, j) = "entered" /\ Undisturbed(s, r) => (at[s][i][j].entry = 0 <=> r \in Raw)

(* An entry that is neither in the map nor used by a predict was dropped:  *)
(* whatever the order of resolve, release and a predict in flight, no      *)
(* route's windows stay behind and none is dropped twice.                  *)
OrphansHoldNothing ==
  \A e \in DOMAIN entries :
     ~InUse(e) /\ routes[entries[e].route] # e => entries[e] = FreshEntry(entries[e].route)

(* When Close answered ok no config and no entry is left at the endpoint,  *)
(* but for the routes that another stream's client resolves or releases.   *)
CloseLeavesNothing ==
  \A s \in Streams : \A i \in DOMAIN log[s] :
     log[s][i].kind = "close" /\ out[s][i] = "ok" =>
       \A r \in Routes :
          \/ r \notin configs /\ routes[r] = 0
          \/ \E t \in Streams \ {s} : \E m \in DOMAIN log[t] :
               log[t][m].kind \in {"resolve", "release"} /\ r \in Keys(log[t][m])

=============================================================================
