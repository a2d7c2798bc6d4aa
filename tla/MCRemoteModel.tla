---------------------------- MODULE MCRemoteModel ----------------------------
(* Instances of RemoteModel for TLC.                                        *)
EXTENDS RemoteModel

CONSTANTS c1, c2

=============================================================================
