------------------------------- MODULE MCAgentTools -------------------------------
(* Model-checking instance of AgentTools: two calls one after the other or at
   once, two registrations, two creatures. *)
EXTENDS AgentTools
===============================================================================
