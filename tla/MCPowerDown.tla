---------------------------- MODULE MCPowerDown -----------------------------
(* PowerDown for TLC.                                                      *)
EXTENDS PowerDown
=============================================================================
