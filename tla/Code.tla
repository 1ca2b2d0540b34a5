--------------------------------- MODULE Code ---------------------------------
(***************************************************************************)
(* The function at hand.  The sweeps of an analysis read its instructions  *)
(* and a run executes them; a pass may erase or change calls in between.   *)
(***************************************************************************)
EXTENDS MCFG

VARIABLES
    prog,   \* the function as it was when the checks had been inserted
    code    \* what the pass has made of its instructions since
=============================================================================
