------------------------------ MODULE MCRecovery ------------------------------
(* An instance of Recovery for TLC: commands inside one input file.         *)
EXTENDS Recovery

MCOneInput == {[enclosing |-> FALSE, units |-> 3, frames |-> 1]}
==============================================================================
