-------------------------- MODULE MCProductPublish --------------------------
(* Instance of ProductPublish for TLC: the SDK and the CLI tree.           *)
EXTENDS ProductPublish
=============================================================================
