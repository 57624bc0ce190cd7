---------------------------- MODULE MCAgentChat ----------------------------
(* A small instance of AgentChat for TLC. *)
EXTENDS AgentChat

CONSTANTS a, b

MCTransports == {{}, {a}}
=============================================================================
