------------------------------ MODULE MCStartup ------------------------------
(***************************************************************************)
(* Constants for TLC: run Startup.                                          *)
(***************************************************************************)
EXTENDS Startup, TLC

MCManagedKinds == {"Project", "Environment", "Feature"}
MCConfigKinds == {"ProviderConfig", "ClusterProviderConfig"}
=============================================================================
