-------------------------- MODULE EpisodeLifecycle --------------------------
(***************************************************************************)
(* What a route promises the model endpoint about episode ids: the model   *)
(* may be asked to predict under an id any number of times until it is     *)
(* told that the id ended, and never hears of the id again.  The abstract  *)
(* specification that RouteDriver implements when the driver owns resets.  *)
(***************************************************************************)

VARIABLES
  open,    \* ids the model holds state for: predicted on, end not yet sent
  ended    \* ids whose end was sent to the model (or given up on)

vars == <<open, ended>>

Init ==
  /\ open = {}
  /\ ended = {}

(* One exchange with the model: ends go out, then predicts.  An end is     *)
(* final, only an end closes an id, and no predict reopens an ended one.   *)
Exchange ==
  /\ ended \subseteq ended'
  /\ open \ open' \subseteq ended'
  /\ open' \cap ended' = {}

Spec == Init /\ [][Exchange]_vars
=============================================================================
