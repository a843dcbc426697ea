-------------------------- MODULE AtomicPublication --------------------------
(***************************************************************************)
(* What the binary artifact contract promises of a destination name        *)
(* (docs/rust-cli/public-contract.md, "Binary replies"): the body is       *)
(* published whole or not at all, at most once, never over another entry,  *)
(* and never after the authority to publish was revoked.                   *)
(***************************************************************************)
EXTENDS Integers

CONSTANTS ChunkSizes, Limit

VARIABLES
  body,        (* bytes of the body accepted so far                        *)
  authority,   (* to publish: "held", "revoked" or "exercised"             *)
  destination  (* the entry under the destination name                     *)

vars == <<body, authority, destination>>

Absent         == [kind |-> "absent", bytes |-> 0]
Foreign        == [kind |-> "foreign", bytes |-> 0]
Artifact(size) == [kind |-> "artifact", bytes |-> size]

Init ==
  /\ body = 0
  /\ authority = "held"
  /\ destination \in {Absent, Foreign}

Accept(size) ==
  /\ authority = "held"
  /\ body' = body + size
  /\ UNCHANGED <<authority, destination>>

Revoke ==
  /\ authority = "held"
  /\ authority' = "revoked"
  /\ UNCHANGED <<body, destination>>

Exercise ==
  /\ authority = "held"
  /\ authority' = "exercised"
  /\ UNCHANGED <<body, destination>>

Publish ==
  /\ authority = "exercised"
  /\ destination = Absent
  /\ body <= Limit
  /\ destination' = Artifact(body)
  /\ UNCHANGED <<body, authority>>

Interfere ==
  /\ \/ destination = Absent /\ destination' = Foreign
     \/ destination = Foreign /\ destination' = Absent
  /\ UNCHANGED <<body, authority>>

Next ==
  \/ \E size \in ChunkSizes : Accept(size)
  \/ Revoke \/ Exercise \/ Publish \/ Interfere

Spec == Init /\ [][Next]_vars
=============================================================================
