-------------------------- MODULE MCRemoteCommand ---------------------------
(* RemoteCommand for TLC.                                                  *)
EXTENDS RemoteCommand
=============================================================================
