--------------------------- MODULE MCGuidePublish ---------------------------
(* Instance of GuidePublish for TLC: two directories and a file.           *)
EXTENDS GuidePublish
=============================================================================
