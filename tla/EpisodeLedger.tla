---------------------------- MODULE EpisodeLedger ----------------------------
(***************************************************************************)
(* What a bounded route promises its caller about the episode budget: the  *)
(* slots 1..MaxEpisodes are claimed in order, each claimed slot is scored  *)
(* at most once, and a route that ends cleanly has scored every slot.      *)
(***************************************************************************)
EXTENDS Naturals

CONSTANT MaxEpisodes

VARIABLES
  claimed,   \* how many slots were claimed: slots 1..claimed
  scored,    \* the slots with a counted episode
  ended      \* "no" while the route runs, then "ok" or "err"

vars == <<claimed, scored, ended>>

Init ==
  /\ claimed = 0
  /\ scored = {}
  /\ ended = "no"

(* Completed episodes D are scored while n more slots are claimed. *)
Advance(D, n) ==
  /\ ended = "no"
  /\ claimed + n <= MaxEpisodes
  /\ claimed' = claimed + n
  /\ D \subseteq (1 .. claimed) \ scored
  /\ scored' = scored \cup D
  /\ UNCHANGED ended

End(how) ==
  /\ ended = "no"
  /\ how = "ok" => scored = 1 .. MaxEpisodes
  /\ ended' = how
  /\ UNCHANGED <<claimed, scored>>

Next ==
  \/ \E D \in SUBSET (1 .. MaxEpisodes), n \in 0 .. MaxEpisodes : Advance(D, n)
  \/ \E how \in {"ok", "err"} : End(how)

Spec == Init /\ [][Next]_vars
=============================================================================
