---------------------------- MODULE MCGuideAcquire ----------------------------
(* Instance of GuideAcquire for TLC: two groups and at most four endpoints *)
(* for two workers; six requests are one too many.                         *)
EXTENDS GuideAcquire
=============================================================================
