---------------------------- MODULE MCWifiSelect ----------------------------
(* Small instances of WifiSelect for TLC: two listed networks.               *)
EXTENDS WifiSelect
=============================================================================
