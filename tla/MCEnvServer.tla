----------------------------- MODULE MCEnvServer -----------------------------
(* Model-checking entry point for EnvServer: the lane lists of requests.   *)
EXTENDS EnvServer

(* Each lane alone. *)
SingleLanes == {<<l>> : l \in Lanes}

(* One lane, all lanes, a repeated lane and one out of range. *)
MixedLanes == {<<0>>, <<1>>, WholeVector, <<0, 0>>, <<NumEnvs>>}

(* For an environment that takes no lane lists. *)
OneLane == {<<0>>}
=============================================================================
