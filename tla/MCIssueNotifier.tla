-------------------------- MODULE MCIssueNotifier --------------------------
(* Instance of IssueNotifier for TLC: three runs, a notifier that is run   *)
(* again, and an edit, so that a failure, a recovery and a failure follow  *)
(* each other around a lost answer and a late request.                     *)
EXTENDS IssueNotifier
=============================================================================
