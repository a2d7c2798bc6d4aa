-------------------------- MODULE ModelServerProofs --------------------------
(* The per-route order of a model endpoint, for any number of streams,      *)
(* routes and requests. RouteOrder alone is not inductive: a request waits  *)
(* only for the tails that RouteTails held when it was dispatched, so the   *)
(* argument needs that a tail stands for every unfinished request of its    *)
(* route (Tailed), that a gate therefore reaches each of them (Gated), and  *)
(* that a started request's gate has fired (Waited).                        *)
EXTENDS ModelServer, TLAPS

(* The sequences of a stream grow together, and gates look back.            *)
OrderType ==
  /\ script \in [Streams -> Seq(Request)]
  /\ log \in [Streams -> Seq(Request)]
  /\ gate \in [Streams -> Seq(SUBSET Nat)]
  /\ stage \in [Streams -> Seq(Stages)]
  /\ tails \in [Streams -> [Routes -> Nat]]
  /\ \A s \in Streams : Len(gate[s]) = Len(log[s]) /\ Len(stage[s]) = Len(log[s])
  /\ \A s \in Streams : \A k \in Routes : tails[s][k] <= Len(log[s])
  /\ \A s \in Streams : \A i \in 1..Len(log[s]) : gate[s][i] \subseteq 1..(i - 1)

Closing(s) == \E i \in 1..Len(log[s]) : log[s][i].kind = "close"

CloseLast ==
  \A s \in Streams : \A i, j \in 1..Len(log[s]) : i < j => log[s][i].kind # "close"

Tailed ==
  \A s \in Streams : \A i \in 1..Len(log[s]) : \A k \in Keys(log[s][i]) :
     \/ Released(s, i)
     \/ Closing(s)
     \/ i <= tails[s][k] /\ k \in Keys(log[s][tails[s][k]])

Gated ==
  \A s \in Streams : \A i, j \in 1..Len(log[s]) :
     OrderedAfter(s, i, j) =>
       \/ Released(s, i)
       \/ \E m \in gate[s][j] : i = m \/ OrderedAfter(s, i, m)

Waited ==
  \A s \in Streams : \A j \in 1..Len(log[s]) :
     Started(s, j) => \A m \in gate[s][j] : Released(s, m)

OrderInv == OrderType /\ CloseLast /\ Tailed /\ Gated /\ Waited /\ RouteOrder

(* What any step but Dispatch does to the order: at most one request moves  *)
(* on, a request that left its handler stays out of it, and only one whose  *)
(* gate has fired enters it.                                                *)
StageStep ==
  /\ UNCHANGED <<script, log, gate, tails>>
  /\ \/ UNCHANGED stage
     \/ \E s \in Streams : \E i \in 1..Len(log[s]) : \E x \in Stages :
          /\ stage' = [stage EXCEPT ![s] = [stage[s] EXCEPT ![i] = x]]
          /\ Released(s, i) => x \in {"replying", "answered", "panicked"}
          /\ x \notin {"admitting", "waiting"} =>
               Started(s, i) \/ \A m \in gate[s][i] : Released(s, m)

LEMMA KeysAreRoutes == ASSUME NEW r \in Request PROVE Keys(r) \subseteq Routes
<1>1. r.groups \in Seq(Group)
  BY DEF Request
<1>2. \A j \in DOMAIN r.groups : r.groups[j] \in Group
  BY <1>1
<1>3. \A g \in Group : g.route \in Routes \cup {None}
  BY DEF Group
<1> QED
  BY <1>2, <1>3 DEF Keys

LEMMA Domains == OrderType => \A s \in Streams : DOMAIN log[s] = 1..Len(log[s])
  BY DEF OrderType

LEMMA StageStepKeepsOrder == OrderInv /\ StageStep => OrderInv'
<1> SUFFICES ASSUME OrderInv, StageStep PROVE OrderInv'
  OBVIOUS
<1>1. UNCHANGED <<script, log, gate, tails>>
  BY DEF StageStep
<1>2. /\ OrderType'
      /\ \A t \in Streams : \A j \in 1..Len(log[t]) :
           /\ Released(t, j) => Released(t, j)'
           /\ Started(t, j)' => Started(t, j) \/ \A m \in gate[t][j] : Released(t, m)
  <2>1. CASE UNCHANGED stage
    <3>1. OrderType'
      BY <1>1, <2>1 DEF OrderInv, OrderType
    <3>2. \A t, j : Released(t, j)' = Released(t, j) /\ Started(t, j)' = Started(t, j)
      BY <2>1 DEF Released, Started
    <3> QED
      BY <3>1, <3>2
  <2>2. ASSUME NEW s \in Streams, NEW i \in 1..Len(log[s]), NEW x \in Stages,
               stage' = [stage EXCEPT ![s] = [stage[s] EXCEPT ![i] = x]],
               Released(s, i) => x \in {"replying", "answered", "panicked"},
               x \notin {"admitting", "waiting"} =>
                 Started(s, i) \/ \A m \in gate[s][i] : Released(s, m)
        PROVE  <1>2!1 /\ <1>2!2
    <3>1. OrderType'
      BY <1>1, <2>2 DEF OrderInv, OrderType
    <3>2. \A t \in Streams : \A j \in 1..Len(log[t]) : Released(t, j) => Released(t, j)'
      BY <2>2 DEF OrderInv, OrderType, Released
    <3>3. \A t \in Streams : \A j \in 1..Len(log[t]) :
            Started(t, j)' => Started(t, j) \/ \A m \in gate[t][j] : Released(t, m)
      BY <2>2 DEF OrderInv, OrderType, Started
    <3> QED
      BY <3>1, <3>2, <3>3
  <2> QED
    BY <2>1, <2>2 DEF StageStep
<1>3. \A t, a, b : OrderedAfter(t, a, b)' = OrderedAfter(t, a, b)
  BY <1>1 DEF OrderedAfter
<1>4. \A t \in Streams : \A j \in 1..Len(log[t]) : \A m \in gate[t][j] : m \in 1..Len(log[t])
  BY DEF OrderInv, OrderType
<1>5. CloseLast'
  BY <1>1 DEF OrderInv, CloseLast
<1>6. Tailed'
  BY <1>1, <1>2 DEF OrderInv, Tailed, Closing
<1>7. Gated'
  <2> SUFFICES ASSUME NEW t \in Streams, NEW a \in 1..Len(log[t]), NEW b \in 1..Len(log[t]),
                      OrderedAfter(t, a, b)
               PROVE  Released(t, a)' \/ \E m \in gate[t][b] : a = m \/ OrderedAfter(t, a, m)
    BY <1>1, <1>3 DEF Gated
  <2> QED
    BY <1>2 DEF OrderInv, Gated
<1>8. Waited'
  BY <1>1, <1>2, <1>4 DEF OrderInv, Waited
<1>9. RouteOrder'
  <2>1. \A t \in Streams : DOMAIN log[t] = 1..Len(log[t])
    BY Domains DEF OrderInv
  <2> SUFFICES ASSUME NEW t \in Streams, NEW a \in 1..Len(log[t]), NEW b \in 1..Len(log[t]),
                      OrderedAfter(t, a, b), Started(t, b)'
               PROVE  Released(t, a)
    BY <1>1, <1>2, <1>3, <2>1 DEF RouteOrder
  <2>2. CASE Started(t, b)
    BY <2>1, <2>2 DEF OrderInv, RouteOrder
  <2>3. CASE \A m \in gate[t][b] : Released(t, m)
    <3>1. Released(t, a) \/ \E m \in gate[t][b] : a = m \/ OrderedAfter(t, a, m)
      BY DEF OrderInv, Gated
    <3>2. ASSUME NEW m \in gate[t][b], OrderedAfter(t, a, m)
          PROVE  Released(t, a)
      <4>1. Started(t, m)
        BY <2>3, <3>2 DEF Released, Started
      <4>2. m \in 1..Len(log[t])
        BY <1>4
      <4> QED
        BY <2>1, <3>2, <4>1, <4>2 DEF OrderInv, RouteOrder
    <3> QED
      BY <2>3, <3>1, <3>2
  <2> QED
    BY <1>2, <2>2, <2>3
<1> QED
  BY <1>2, <1>5, <1>6, <1>7, <1>8, <1>9 DEF OrderInv

LEMMA DispatchKeepsOrder ==
  ASSUME NEW s \in Streams, OrderInv, Dispatch(s) PROVE OrderInv'
<1>0. PICK n \in Nat, r \in Request : n = Len(log[s]) + 1 /\ r = script[s][n]
  BY DEF OrderInv, OrderType, Dispatch
<1>1. n = Len(log[s]) + 1 /\ n - 1 = Len(log[s]) /\ r = script[s][n] /\ Keys(r) \subseteq Routes
  BY <1>0, KeysAreRoutes DEF OrderInv, OrderType
<1>2. /\ script' = script
      /\ log' = [log EXCEPT ![s] = Append(log[s], r)]
      /\ gate' = [gate EXCEPT ![s] = Append(gate[s], GateOf(s, r))]
      /\ tails' = [tails EXCEPT ![s] = TailsAfter(s, r, n)]
      /\ stage' = [stage EXCEPT ![s] = Append(stage[s], "admitting")]
  BY <1>1 DEF Dispatch
<1>3. ~Closing(s)
  BY Domains DEF Dispatch, Closing, OrderInv
<1>4. GateOf(s, r) \subseteq 1..(n - 1)
  BY <1>1 DEF GateOf, OrderInv, OrderType
<1>5. TailsAfter(s, r, n) \in [Routes -> Nat] /\ \A k \in Routes : TailsAfter(s, r, n)[k] <= n
  BY <1>1 DEF TailsAfter, OrderInv, OrderType
<1>6. /\ Len(log'[s]) = n /\ Len(gate'[s]) = n /\ Len(stage'[s]) = n
      /\ log'[s][n] = r /\ gate'[s][n] = GateOf(s, r) /\ stage'[s][n] = "admitting"
      /\ \A i \in 1..(n - 1) : /\ log'[s][i] = log[s][i]
                               /\ gate'[s][i] = gate[s][i]
                               /\ stage'[s][i] = stage[s][i]
  BY <1>1, <1>2, <1>4 DEF OrderInv, OrderType
<1>7. \A t \in Streams \ {s} : /\ log'[t] = log[t] /\ gate'[t] = gate[t]
                               /\ stage'[t] = stage[t] /\ tails'[t] = tails[t]
  BY <1>2 DEF OrderInv, OrderType
<1>8. OrderType'
  <2>1. /\ script' \in [Streams -> Seq(Request)]
        /\ log' \in [Streams -> Seq(Request)]
        /\ gate' \in [Streams -> Seq(SUBSET Nat)]
        /\ stage' \in [Streams -> Seq(Stages)]
        /\ tails' \in [Streams -> [Routes -> Nat]]
    BY <1>1, <1>2, <1>4, <1>5 DEF OrderInv, OrderType, Stages
  <2>2. \A t \in Streams : Len(gate'[t]) = Len(log'[t]) /\ Len(stage'[t]) = Len(log'[t])
    BY <1>6, <1>7 DEF OrderInv, OrderType
  <2>3. \A t \in Streams : \A k \in Routes : tails'[t][k] <= Len(log'[t])
    BY <1>2, <1>5, <1>6, <1>7 DEF OrderInv, OrderType
  <2>4. \A t \in Streams : \A i \in 1..Len(log'[t]) : gate'[t][i] \subseteq 1..(i - 1)
    <3>1. \A i \in 1..(n - 1) : gate'[s][i] \subseteq 1..(i - 1)
      BY <1>1, <1>6 DEF OrderInv, OrderType
    <3>2. \A i \in 1..n : gate'[s][i] \subseteq 1..(i - 1)
      <4>1. \A i \in 1..n : i = n \/ i \in 1..(n - 1)
        OBVIOUS
      <4>2. gate'[s][n] \subseteq 1..(n - 1)
        BY <1>4, <1>6
      <4> QED
        BY <3>1, <4>1, <4>2
    <3>3. \A t \in Streams \ {s} : \A i \in 1..Len(log'[t]) : gate'[t][i] \subseteq 1..(i - 1)
      BY <1>7 DEF OrderInv, OrderType
    <3> QED
      BY <1>6, <3>2, <3>3
  <2> QED
    BY <2>1, <2>2, <2>3, <2>4 DEF OrderType
<1>9. /\ \A i \in 1..(n - 1) : Released(s, i)' = Released(s, i) /\ Started(s, i)' = Started(s, i)
      /\ ~Released(s, n)' /\ ~Started(s, n)'
      /\ \A t \in Streams \ {s} : \A i : /\ Released(t, i)' = Released(t, i)
                                         /\ Started(t, i)' = Started(t, i)
  <2>1. \A i \in 1..(n - 1) : Released(s, i)' = Released(s, i) /\ Started(s, i)' = Started(s, i)
    BY <1>6 DEF Released, Started
  <2>2. ~Released(s, n)' /\ ~Started(s, n)'
    BY <1>6 DEF Released, Started
  <2>3. ASSUME NEW t \in Streams \ {s}, NEW i
        PROVE  Released(t, i)' = Released(t, i) /\ Started(t, i)' = Started(t, i)
    BY <1>7 DEF Released, Started
  <2> QED
    BY <2>1, <2>2, <2>3
<1>10. /\ \A i, j \in 1..(n - 1) : OrderedAfter(s, i, j)' = OrderedAfter(s, i, j)
       /\ \A t \in Streams \ {s} : \A i, j : OrderedAfter(t, i, j)' = OrderedAfter(t, i, j)
  BY <1>6, <1>7 DEF OrderedAfter
<1>11. ASSUME NEW i \in 1..(n - 1), NEW k \in Keys(log[s][i]), ~Released(s, i)
       PROVE  /\ tails[s][k] \in 1..(n - 1)
              /\ i = tails[s][k] \/ OrderedAfter(s, i, tails[s][k])
              /\ k \in Keys(log[s][tails[s][k]])
  <2>1. log[s][i] \in Request
    BY <1>1 DEF OrderInv, OrderType
  <2>2. k \in Routes
    BY <2>1, KeysAreRoutes
  <2>3. i <= tails[s][k] /\ k \in Keys(log[s][tails[s][k]])
    BY <1>1, <1>3, <1>11 DEF OrderInv, Tailed
  <2>4. tails[s][k] \in 1..(n - 1)
    BY <1>1, <2>2, <2>3 DEF OrderInv, OrderType
  <2> QED
    BY <2>3, <2>4 DEF OrderedAfter
<1>12. CloseLast'
  <2>1. \A i \in 1..(n - 1) : log[s][i].kind # "close"
    BY <1>1, <1>3 DEF Closing
  <2> QED
    BY <1>1, <1>6, <1>7, <2>1 DEF OrderInv, CloseLast
<1>13. Tailed'
  <2>1. SUFFICES ASSUME ~Closing(s)', NEW i \in 1..n, NEW k \in Keys(log'[s][i]), ~Released(s, i)'
                 PROVE  i <= tails'[s][k] /\ k \in Keys(log'[s][tails'[s][k]])
    <3>1. \A t \in Streams \ {s} : Closing(t)' = Closing(t)
      BY <1>7 DEF Closing
    <3>2. \A t \in Streams \ {s} : \A i \in 1..Len(log'[t]) : \A k \in Keys(log'[t][i]) :
            \/ Released(t, i)'
            \/ Closing(t)'
            \/ i <= tails'[t][k] /\ k \in Keys(log'[t][tails'[t][k]])
      BY <1>7, <1>9, <3>1 DEF Tailed, OrderInv
    <3> QED
      BY <1>6, <3>2 DEF Tailed
  <2>2. r.kind # "close"
    BY <2>1, <1>1, <1>6 DEF Closing
  <2>3. CASE k \in Keys(r)
    <3>1. tails'[s][k] = n
      BY <1>1, <1>2, <2>2, <2>3 DEF TailsAfter, OrderInv, OrderType
    <3> QED
      BY <1>1, <1>6, <2>3, <3>1
  <2>4. CASE k \notin Keys(r)
    <3>1. i \in 1..(n - 1) /\ k \in Keys(log[s][i]) /\ ~Released(s, i)
      BY <1>1, <1>6, <1>9, <2>1, <2>4
    <3>2. /\ tails[s][k] \in 1..(n - 1)
          /\ i = tails[s][k] \/ OrderedAfter(s, i, tails[s][k])
          /\ k \in Keys(log[s][tails[s][k]])
      BY <1>11, <3>1
    <3>3. i <= tails[s][k]
      BY <3>1, <3>2 DEF OrderedAfter
    <3>4. ~Released(s, tails[s][k])
      <4>1. CASE i = tails[s][k]
        BY <4>1, <3>1
      <4>2. CASE OrderedAfter(s, i, tails[s][k])
        BY <1>1, Domains, <4>2, <3>1, <3>2 DEF OrderInv, RouteOrder, Released, Started
      <4> QED
        BY <4>1, <4>2, <3>2
    <3>5. log[s][i] \in Request
      BY <1>1, <3>1 DEF OrderInv, OrderType
    <3>6. k \in Routes
      BY <3>1, <3>5, KeysAreRoutes
    <3>7. tails'[s][k] = tails[s][k]
      BY <1>1, <1>2, <2>2, <2>4, <3>2, <3>4, <3>6 DEF TailsAfter, OrderInv, OrderType
    <3> QED
      BY <1>1, <1>6, <3>2, <3>3, <3>7
  <2> QED
    BY <2>3, <2>4
<1>14. Gated'
  <2>1. SUFFICES ASSUME NEW i \in 1..(n - 1), OrderedAfter(s, i, n)', ~Released(s, i)
                 PROVE  \E m \in gate'[s][n] : i = m \/ OrderedAfter(s, i, m)'
    <3>1. \A t \in Streams \ {s} : \A i, j \in 1..Len(log'[t]) :
            OrderedAfter(t, i, j)' =>
              \/ Released(t, i)'
              \/ \E m \in gate'[t][j] : i = m \/ OrderedAfter(t, i, m)'
      BY <1>7, <1>9, <1>10 DEF OrderInv, Gated
    <3>2. \A j \in 1..(n - 1) : gate[s][j] \subseteq 1..(n - 1)
      BY <1>1 DEF OrderInv, OrderType
    <3>3. \A i, j \in 1..(n - 1) :
            OrderedAfter(s, i, j)' =>
              \/ Released(s, i)'
              \/ \E m \in gate'[s][j] : i = m \/ OrderedAfter(s, i, m)'
      <4>1. SUFFICES ASSUME NEW i \in 1..(n - 1), NEW j \in 1..(n - 1),
                            OrderedAfter(s, i, j), ~Released(s, i)
                     PROVE  \E m \in gate[s][j] : i = m \/ OrderedAfter(s, i, m)'
        BY <1>6, <1>9, <1>10
      <4>2. \E m \in gate[s][j] : i = m \/ OrderedAfter(s, i, m)
        BY <1>1, <4>1 DEF OrderInv, Gated
      <4> QED
        BY <1>10, <3>2, <4>2
    <3>4. \A i \in 1..n : OrderedAfter(s, i, n)' => i \in 1..(n - 1)
      BY <1>1 DEF OrderedAfter
    <3>5. \A i \in 1..n, j \in 1..(n - 1) : OrderedAfter(s, i, j)' => i \in 1..(n - 1)
      BY <1>1 DEF OrderedAfter
    <3>6. \A i, j \in 1..n :
            OrderedAfter(s, i, j)' =>
              \/ Released(s, i)'
              \/ \E m \in gate'[s][j] : i = m \/ OrderedAfter(s, i, m)'
      BY <1>1, <1>9, <2>1, <3>3, <3>4, <3>5
    <3> QED
      BY <1>6, <3>1, <3>6 DEF Gated
  <2>2. Keys(log[s][i]) \subseteq Routes
    BY <1>1, KeysAreRoutes DEF OrderInv, OrderType
  <2>3. PICK k \in Keys(log[s][i]) : r.kind = "close" \/ k \in Keys(r)
    BY <1>6, <2>1 DEF OrderedAfter
  <2>4. /\ tails[s][k] \in 1..(n - 1)
        /\ i = tails[s][k] \/ OrderedAfter(s, i, tails[s][k])
    BY <1>11, <2>1
  <2>5. tails[s][k] \in GateOf(s, r)
    BY <2>2, <2>3, <2>4 DEF GateOf
  <2> QED
    BY <1>6, <1>10, <2>4, <2>5
<1>15. Waited'
  <2>1. \A j \in 1..(n - 1) : gate[s][j] \subseteq 1..(n - 1)
    BY <1>1 DEF OrderInv, OrderType
  <2>2. \A j \in 1..n : Started(s, j)' => \A m \in gate'[s][j] : Released(s, m)'
    BY <1>1, <1>6, <1>9, <2>1 DEF OrderInv, Waited
  <2>3. \A t \in Streams \ {s} : \A j \in 1..Len(log'[t]) :
          Started(t, j)' => \A m \in gate'[t][j] : Released(t, m)'
    BY <1>7, <1>9 DEF OrderInv, Waited
  <2> QED
    BY <1>6, <2>2, <2>3 DEF Waited
<1>16. RouteOrder'
  <2>1. \A t \in Streams : DOMAIN log'[t] = 1..Len(log'[t]) /\ DOMAIN log[t] = 1..Len(log[t])
    BY <1>8 DEF OrderInv, OrderType
  <2>2. \A i, j \in 1..n : OrderedAfter(s, i, j)' /\ Started(s, j)' => i \in 1..(n - 1) /\ j \in 1..(n - 1)
    BY <1>1, <1>9 DEF OrderedAfter
  <2>3. \A i, j \in 1..n : OrderedAfter(s, i, j)' /\ Started(s, j)' => Released(s, i)'
    BY <1>1, <1>9, <1>10, <2>1, <2>2 DEF OrderInv, RouteOrder
  <2>4. \A t \in Streams \ {s} : \A i, j \in 1..Len(log'[t]) :
          OrderedAfter(t, i, j)' /\ Started(t, j)' => Released(t, i)'
    BY <1>7, <1>9, <1>10, <2>1 DEF OrderInv, RouteOrder
  <2> QED
    BY <1>6, <2>1, <2>3, <2>4 DEF RouteOrder
<1> QED
  BY <1>8, <1>12, <1>13, <1>14, <1>15, <1>16 DEF OrderInv

(* The request is inside its handler.                                       *)
Inside(s, i) ==
  stage[s][i] \in {"serving", "resolved", "evicted", "releasing", "closing",
                   "prepared", "locked", "fused"}

(* What the steps inside a handler do to the order.                         *)
Within(s, i) ==
  /\ UNCHANGED orderVars
  /\ \/ UNCHANGED stage
     \/ Inside(s, i) /\ \E x \in Stages : stage' = [stage EXCEPT ![s][i] = x]

LEMMA WithinIsStageStep ==
  ASSUME OrderType, NEW s \in Streams, NEW i \in 1..Len(log[s]), Within(s, i)
  PROVE  StageStep
<1>1. UNCHANGED <<script, log, gate, tails>>
  BY DEF Within, orderVars
<1>2. ASSUME Inside(s, i), NEW x \in Stages, stage' = [stage EXCEPT ![s][i] = x]
      PROVE  StageStep
  <2>1. ~Released(s, i) /\ Started(s, i)
    BY <1>2 DEF Inside, Released, Started
  <2>2. stage' = [stage EXCEPT ![s] = [stage[s] EXCEPT ![i] = x]]
    BY <1>2
  <2> QED
    BY <1>1, <2>1, <2>2 DEF StageStep
<1> QED
  BY <1>1, <1>2 DEF Within, StageStep

LEMMA GroupStepIsWithin ==
  ASSUME NEW s, NEW i, GroupStep(s, i) PROVE Within(s, i)
<1>1. ASSUME NEW j, Enter(s, i, j) PROVE UNCHANGED <<orderVars, stage>>
  BY <1>1, Zenon DEF Enter
<1>2. ASSUME NEW j, AdmitLanes(s, i, j) PROVE UNCHANGED <<orderVars, stage>>
  BY <1>2, Zenon DEF AdmitLanes
<1>3. ASSUME NEW j, Assemble(s, i, j) PROVE UNCHANGED <<orderVars, stage>>
  BY <1>3, Zenon DEF Assemble
<1>4. ASSUME NEW j, ServeRaw(s, i, j) PROVE UNCHANGED <<orderVars, stage>>
  BY <1>4, Zenon DEF ServeRaw
<1>5. ASSUME NEW j, Apply(s, i, j) PROVE UNCHANGED <<orderVars, stage>>
  BY <1>5, Zenon DEF Apply
<1>6. ASSUME NEW j, Fail(s, i, j) PROVE UNCHANGED <<orderVars, stage>>
  BY <1>6, Zenon DEF Fail
<1> QED
  BY <1>1, <1>2, <1>3, <1>4, <1>5, <1>6 DEF GroupStep, Within

LEMMA HandleIsWithin ==
  ASSUME NEW s, NEW i, Handle(s, i) PROVE Within(s, i)
<1> USE DEF Finish, Serving
<1>1. CASE Refuse(s, i)
  BY <1>1, Zenon DEF Refuse, Within, Inside, Stages
<1>2. CASE Resolve(s, i)
  BY <1>2, Zenon DEF Resolve, Within, Inside, Stages
<1>3. CASE RefuseRoute(s, i)
  BY <1>3, Zenon DEF RefuseRoute, Within, Inside, Stages
<1>4. CASE StoreConfig(s, i)
  BY <1>4, Zenon DEF StoreConfig, Within, Inside, Stages
<1>5. CASE Evict(s, i)
  BY <1>5, Zenon DEF Evict, Within, Inside, Stages
<1>6. CASE EpisodeHook(s, i)
  BY <1>6, Zenon DEF EpisodeHook, Within, Inside, Stages
<1>7. CASE DropConfig(s, i)
  BY <1>7, Zenon DEF DropConfig, Within, Inside, Stages
<1>8. CASE Release(s, i)
  BY <1>8, Zenon DEF Release, Within, Inside, Stages
<1>9. CASE Snapshot(s, i)
  BY <1>9, Zenon DEF Snapshot, Within, Inside, Stages
<1>10. ASSUME NEW r \in Routes, CloseRoute(s, i, r) PROVE Within(s, i)
  BY <1>10, Zenon DEF CloseRoute, Within, Inside, Stages
<1>11. CASE ClearConfigs(s, i)
  BY <1>11, Zenon DEF ClearConfigs, Within, Inside, Stages
<1>12. CASE Prepare(s, i)
  BY <1>12, Zenon DEF Prepare, Within, Inside, Stages
<1>13. CASE Lock(s, i)
  BY <1>13, Zenon DEF Lock, Within, Inside, Stages
<1>14. CASE GroupStep(s, i)
  BY <1>14, GroupStepIsWithin
<1>15. CASE Forward(s, i)
  BY <1>15, Zenon DEF Forward, Within
<1>16. CASE Unlock(s, i)
  BY <1>16, Zenon DEF Unlock, Within, Inside, Stages
<1> QED
  BY <1>1, <1>2, <1>3, <1>4, <1>5, <1>6, <1>7, <1>8, <1>9, <1>10, <1>11, <1>12,
     <1>13, <1>14, <1>15, <1>16, Zenon DEF Handle

LEMMA NextKeepsOrder == OrderInv /\ [Next]_serverVars => OrderInv'
<1> SUFFICES ASSUME OrderInv, [Next]_serverVars PROVE OrderInv'
  OBVIOUS
<1>1. CASE UNCHANGED serverVars
  <2>1. StageStep
    BY <1>1 DEF serverVars, StageStep
  <2> QED
    BY <2>1, StageStepKeepsOrder
<1>2. ASSUME NEW s \in Streams, Dispatch(s) PROVE OrderInv'
  BY <1>2, DispatchKeepsOrder
<1>3. ASSUME NEW s \in Streams, NEW i \in DOMAIN log[s], Admit(s, i) \/ Task(s, i) \/ Reply(s, i)
      PROVE  OrderInv'
  <2>0. OrderType /\ i \in 1..Len(log[s])
    BY <1>3, Domains DEF OrderInv
  <2>1. CASE Admit(s, i)
    <3>1. UNCHANGED orderVars /\ stage' = [stage EXCEPT ![s][i] = "waiting"] /\ ~Released(s, i)
      BY <2>1 DEF Admit, Released
    <3>2. StageStep
      BY <2>0, <3>1 DEF orderVars, StageStep, Stages
    <3> QED
      BY <3>2, StageStepKeepsOrder
  <2>2. CASE Start(s, i)
    <3>1. /\ UNCHANGED orderVars /\ stage' = [stage EXCEPT ![s][i] = "serving"]
          /\ ~Released(s, i) /\ \A m \in gate[s][i] : Released(s, m)
      BY <2>2 DEF Start, Released
    <3>2. StageStep
      BY <2>0, <3>1 DEF orderVars, StageStep, Stages
    <3> QED
      BY <3>2, StageStepKeepsOrder
  <2>3. CASE Handle(s, i)
    BY <2>0, <2>3, HandleIsWithin, WithinIsStageStep, StageStepKeepsOrder
  <2>4. CASE Reply(s, i)
    <3>1. UNCHANGED orderVars /\ stage' = [stage EXCEPT ![s][i] = "answered"] /\ Started(s, i)
      BY <2>4 DEF Reply, Started
    <3>2. StageStep
      BY <2>0, <3>1 DEF orderVars, StageStep, Stages
    <3> QED
      BY <3>2, StageStepKeepsOrder
  <2> QED
    BY <1>3, <2>1, <2>2, <2>3, <2>4 DEF Task
<1> QED
  BY <1>1, <1>2, <1>3 DEF Next

LEMMA InitHasOrder == Init => OrderInv
<1> SUFFICES ASSUME Init PROVE OrderInv
  OBVIOUS
<1>1. /\ \A s \in Streams : log[s] = <<>> /\ gate[s] = <<>> /\ stage[s] = <<>>
      /\ \A s \in Streams : \A k \in Routes : tails[s][k] = 0
  BY DEF Init
<1>2. OrderType
  BY <1>1, ServerConstants DEF Init, OrderType
<1> QED
  BY <1>1, <1>2 DEF OrderInv, CloseLast, Tailed, Gated, Waited, RouteOrder

(* A model endpoint serves the requests of every route of a stream in the   *)
(* order they arrived, and a Close after all of them: for any number of     *)
(* streams, routes, permits and requests, whatever fails or panics on the   *)
(* way (RouteTails and RequestGate in model/server.rs).                     *)
THEOREM RouteOrderHolds == Spec => []RouteOrder
<1>1. Init => OrderInv
  BY InitHasOrder
<1>2. OrderInv /\ [Next]_serverVars => OrderInv'
  BY NextKeepsOrder
<1>3. OrderInv => RouteOrder
  BY DEF OrderInv
<1> QED
  BY <1>1, <1>2, <1>3, PTL DEF Spec

=============================================================================
