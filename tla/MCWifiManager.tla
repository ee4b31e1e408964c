--------------------------- MODULE MCWifiManager ---------------------------
(* Two callers and two networks. *)
EXTENDS WifiManager
=============================================================================
