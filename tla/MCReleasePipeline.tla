-------------------------- MODULE MCReleasePipeline --------------------------
(* Instance of ReleasePipeline for TLC: the superseded crate, then one     *)
(* release of each component, over four commits, with two failed steps,    *)
(* two jobs or runs started again, and a crate published by hand.          *)
EXTENDS ReleasePipeline
=============================================================================
