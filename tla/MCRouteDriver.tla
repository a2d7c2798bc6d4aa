---------------------------- MODULE MCRouteDriver ----------------------------
(* Model-checking entry point for RouteDriver: the instances are in the    *)
(* .cfg files, one per env and model configuration of a route.             *)
EXTENDS RouteDriver
=============================================================================
