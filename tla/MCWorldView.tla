-------------------------------- MODULE MCWorldView --------------------------------
(* Model-checking instance of WorldView: the page's monster and another, with two
   fields, one thing. *)
EXTENDS WorldView
===============================================================================
