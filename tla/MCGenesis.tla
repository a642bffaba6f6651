------------------------------- MODULE MCGenesis -------------------------------
(* Genesis with one server and one CLI process, or a server and two CLIs.  *)
EXTENDS Genesis, TLC

CONSTANTS server, cli

MCProcesses == {server, cli}
MCCli       == {cli}
================================================================================
