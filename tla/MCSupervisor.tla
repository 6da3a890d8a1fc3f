---------------------------- MODULE MCSupervisor ----------------------------
(* Two services, as in the default configuration.                          *)
EXTENDS Supervisor

CONSTANTS ollama, chromadb

MCServices == {ollama, chromadb}
MCOrder == <<ollama, chromadb>>
=============================================================================
