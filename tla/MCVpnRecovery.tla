--------------------------- MODULE MCVpnRecovery ---------------------------
(* A session with a Wi-Fi and a cellular network.                          *)
EXTENDS VpnRecovery
=============================================================================
