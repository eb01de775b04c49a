------------------------------- MODULE MC_Prefs -------------------------------
(* Two gateways, one of them registered and one discovered.                *)
EXTENDS GatewayPrefs, TLC

CONSTANTS g1, g2

TwoGateways == {g1, g2}
OneGateway  == {g1}
Discovering == g1 :> [rate |-> 1, affinity |-> 0]
=============================================================================
