------------------------------ MODULE MCRelay ------------------------------
(* Relay on small instances. *)
EXTENDS Relay, TLC

CONSTANTS a, b
TwoClients == {a, b}
OneReconnects == (a :> 2 @@ b :> 1)
DoneOrFailed == {"idle", "failed"}
=============================================================================
