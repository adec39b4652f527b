------------------------------- MODULE MCDaemon -------------------------------
(* Both servers, a shutdown timeout of one and a grace of two units of time.   *)
EXTENDS Daemon

MCServers == {"metrics", "admin"}
=============================================================================
