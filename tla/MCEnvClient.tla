----------------------------- MODULE MCEnvClient -----------------------------
(* Two clones of one client, or one of each of two clients.                 *)
EXTENDS EnvClient, TLC

CONSTANTS A, B, h1, h2

MCLayouts == {h1 :> A @@ h2 :> A, h1 :> A @@ h2 :> B}

=============================================================================
