---------------------------- MODULE MCWorldRunner ----------------------------
(* Model-checking instances of WorldRunner. *)
EXTENDS WorldRunner

\* Flows whose operations may fail; the reload after a failed reset may not.
AllButReload == Flow \ {"reload"}
\* Flows whose answers may be lost; a keeper action's may not.
AllButAdmin  == Flow \ {"admin"}
===============================================================================
