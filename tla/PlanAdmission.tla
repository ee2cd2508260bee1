--------------------------- MODULE PlanAdmission ---------------------------
(***************************************************************************)
(* What `plan draft` promises: a command is decided once, a plan is        *)
(* admitted under one command, and what a call answers was so when it      *)
(* answered.  There are no files and no transactions here: a command has   *)
(* one decision, although the code keeps it in two stores.                 *)
(***************************************************************************)
CONSTANTS Call, Command, CommandOf, DigestOf, PlanOf, None

VARIABLES
  status,    \* what is decided of each command
  digest,    \* the payload it is decided for, or None
  admitted,  \* the call that its plan is admitted by, or None
  answer     \* what each call has answered, or "none"

decision == <<status, digest, admitted>>
vars == <<decision, answer>>

Init ==
  /\ status = [c \in Command |-> "none"]
  /\ digest = [c \in Command |-> None]
  /\ admitted = [c \in Command |-> None]
  /\ answer = [k \in Call |-> "none"]

Same(k) == digest[CommandOf[k]] = DigestOf[k]

\* An answer and when it may be given.
Fits(k, a) ==
  LET c == CommandOf[k]
  IN  \/ a = "created" /\ status[c] = "committed" /\ admitted[c] = k
      \/ a = "replayed" /\ status[c] = "committed" /\ Same(k)
      \/ a = "conflict" /\ status[c] # "none" /\ ~Same(k)
      \/ a = "refused" /\ status[c] \in {"intent", "recovery"} /\ Same(k)

Say(k) ==
  /\ answer[k] = "none"
  /\ \E a \in {"created", "replayed", "conflict", "refused"} :
       Fits(k, a) /\ answer' = [answer EXCEPT ![k] = a]

Answer(k) == Say(k) /\ UNCHANGED decision

Intend(k) ==
  LET c == CommandOf[k]
  IN  /\ status[c] = "none"
      /\ status' = [status EXCEPT ![c] = "intent"]
      /\ digest' = [digest EXCEPT ![c] = DigestOf[k]]
      /\ UNCHANGED <<admitted, answer>>

Admit(k) ==
  LET c == CommandOf[k]
  IN  /\ status[c] = "intent" /\ Same(k)
      /\ \A d \in Command : admitted[d] # None => PlanOf[d] # PlanOf[c]
      /\ admitted' = [admitted EXCEPT ![c] = k]
      /\ UNCHANGED <<status, digest, answer>>

Commit(k) ==
  LET c == CommandOf[k]
  IN  /\ status[c] = "intent" /\ admitted[c] = k
      /\ status' = [status EXCEPT ![c] = "committed"]
      /\ UNCHANGED <<digest, admitted, answer>>

\* An intent is put under recovery, for good, whether it was admitted or not.
GiveUp(k) ==
  LET c == CommandOf[k]
  IN  /\ status[c] = "intent"
      /\ status' = [status EXCEPT ![c] = "recovery"]
      /\ UNCHANGED <<digest, admitted>>
      /\ Say(k) \/ UNCHANGED answer

Next == \E k \in Call : Answer(k) \/ Intend(k) \/ Admit(k) \/ Commit(k) \/ GiveUp(k)

Spec == Init /\ [][Next]_vars
=============================================================================
