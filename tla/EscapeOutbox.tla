---------------------------- MODULE EscapeOutbox ----------------------------
(***************************************************************************)
(* What the durable projection of a Forward escape promises: a command is  *)
(* certified with one payload, its intent is queued before anything is     *)
(* posted, and it is projected once, onto an issue that exists.            *)
(***************************************************************************)
CONSTANTS Command, Payload, Revision, None

VARIABLES
  certified,  \* the payload each command is certified with, or None
  stage,      \* how far the projection of each command is on record
  issue       \* the revision of the command's remote issue, or None

vars == <<certified, stage, issue>>

Init ==
  /\ certified = [c \in Command |-> None]
  /\ stage = [c \in Command |-> "new"]
  /\ issue = [c \in Command |-> None]

Certify(c) ==
  /\ certified[c] = None
  /\ \E p \in Payload : certified' = [certified EXCEPT ![c] = p]
  /\ UNCHANGED <<stage, issue>>

Queue(c) ==
  /\ certified[c] # None /\ stage[c] = "new"
  /\ stage' = [stage EXCEPT ![c] = "queued"]
  /\ UNCHANGED <<certified, issue>>

\* The remote service creates the issue, or somebody edits it.
Touch(c) ==
  /\ stage[c] # "new"
  /\ \E r \in Revision : issue' = [issue EXCEPT ![c] = r]
  /\ UNCHANGED <<certified, stage>>

Project(c) ==
  /\ stage[c] = "queued" /\ issue[c] # None
  /\ stage' = [stage EXCEPT ![c] = "projected"]
  /\ UNCHANGED <<certified, issue>>

Next == \E c \in Command : Certify(c) \/ Queue(c) \/ Touch(c) \/ Project(c)

Spec == Init /\ [][Next]_vars

\* An intent that was queued is projected in the end.
Converges == \A c \in Command : stage[c] = "queued" ~> stage[c] = "projected"
=============================================================================
