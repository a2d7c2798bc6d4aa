---------------------------- MODULE MCServedModel ----------------------------
(* Instances of ServedModel for TLC.                                        *)
EXTENDS ServedModel, TLC

CONSTANTS s1, s2, a, b, c, e1, e2

MCLaneBytes == (a :> 2) @@ (b :> 1) @@ (c :> 0)

On(r, eps) == [route |-> r, episodes |-> eps]

Ask(kind, r, eps) == [kind |-> kind, groups |-> <<On(r, eps)>>, faults |-> {}]

Fused(x, y) == [kind |-> "grouped", groups |-> <<x, y>>, faults |-> {}]

Bare(kind) == [kind |-> kind, groups |-> <<>>, faults |-> {}]

Failing(r, f) == [r EXCEPT !.faults = f]

ResolveA == Ask("resolve", a, {})
ResolveB == Ask("resolve", b, {})
ResolveC == Ask("resolve", c, {})
BadPredict == Failing(Ask("predict", a, {e1}), {"error", "panic"})
BadClose == Failing(Bare("close"), {"error"})
Both == Fused(On(a, {e1}), On(b, {e2}))

Script(x, y) == (s1 :> x) @@ (s2 :> y)

Forever == [idle |-> FALSE, remote |-> FALSE, drain |-> FALSE, close |-> FALSE]
Watched == [Forever EXCEPT !.idle = TRUE]
Stopped == [Forever EXCEPT !.remote = TRUE]
Hasty   == [idle |-> FALSE, remote |-> TRUE, drain |-> TRUE, close |-> TRUE]

(* One client: fused calls on one route and on several, the budget, errors  *)
(* and panics, whole sessions.                                              *)
Alone ==
  { Script(<<ResolveA, ResolveB, Both, Ask("predict", b, {e1, e2}), BadClose>>, <<>>),
    Script(<<ResolveA, Both, BadPredict, Ask("reset", a, {e1}), Bare("close")>>, <<>>),
    Script(<<ResolveA, ResolveC, Fused(On(a, {e1}), On(c, {e1})), Ask("release", a, {}),
             ResolveA>>, <<>>),
    Script(<<ResolveA, BadPredict, Fused(On(a, {e1}), On(a, {e2})), Ask("reset", a, {e1}),
             ResolveA>>, <<>>),
    Script(<<ResolveA, ResolveB, Failing(Both, {"error", "panic"}), Both, ResolveA>>, <<>>),
    Script(<<Failing(ResolveB, {"error"}), Failing(Ask("predict", b, {e1}), {"error"}),
             Ask("reset", b, {}), Failing(Ask("release", b, {}), {"error"}), ResolveB>>, <<>>) }

(* Two clients of one route.                                                *)
Together ==
  { Script(<<ResolveA, BadPredict, Ask("reset", a, {e1}), Bare("close")>>,
           <<Ask("release", a, {})>>),
    Script(<<ResolveA, ResolveB, Both>>, <<ResolveA, Ask("reset", a, {})>>),
    Script(<<ResolveB, Ask("predict", b, {e1, e2})>>, <<Ask("reset", b, {e1}), ResolveB>>),
    Script(<<ResolveA, Fused(On(a, {e1}), On(a, {e2}))>>, <<Ask("release", a, {}), ResolveA>>),
    Script(<<ResolveA, Ask("predict", a, {e1}), Ask("reset", None, {e1})>>, <<ResolveB, BadClose>>) }

(* Short sessions of a server that stops.                                   *)
Short ==
  { Script(<<ResolveA, Ask("predict", a, {e1}), Bare("empty")>>, <<ResolveB>>),
    Script(<<ResolveA, BadPredict, Ask("reset", a, {e1})>>, <<>>) }

MCDeployments == ((Alone \cup Together) \X {Forever}) \cup (Short \X {Watched, Stopped, Hasty})
MCScripts == Alone \cup Together \cup Short

=============================================================================
