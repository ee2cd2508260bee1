------------------------------ MODULE WakeInbox ------------------------------
(***************************************************************************)
(* What the inbox of the wake watchers promises: an entry that was         *)
(* accepted is claimed by one watcher of its session at a time, a claim    *)
(* delivers it once at the most, and nobody claims an entry that has been  *)
(* delivered unless it was sent again.                                     *)
(***************************************************************************)
EXTENDS Naturals

CONSTANTS Watcher, Entry, For

VARIABLES
  sent,       \* entries that were accepted
  again,      \* entries that were sent again after their delivery was forgotten
  claimants,  \* the watchers that have claimed each entry
  delivered   \* how often each entry was delivered

vars == <<sent, again, claimants, delivered>>

Init ==
  /\ sent = {} /\ again = {}
  /\ claimants = [e \in Entry |-> {}]
  /\ delivered = [e \in Entry |-> 0]

Accept(e) ==
  /\ sent' = sent \cup {e}
  /\ again' = again \/ (delivered[e] > 0 /\ again' = again \cup {e})
  /\ UNCHANGED <<claimants, delivered>>

Claim(w, e) ==
  /\ e \in sent /\ w \in For[e]
  /\ claimants[e] = {}
  /\ delivered[e] = 0 \/ e \in again
  /\ claimants' = [claimants EXCEPT ![e] = {w}]
  /\ UNCHANGED <<sent, again, delivered>>

\* The watcher withdraws its claim, or dies.
Withdraw(w, e) ==
  /\ w \in claimants[e]
  /\ claimants' = [claimants EXCEPT ![e] = {}]
  /\ UNCHANGED <<sent, again, delivered>>

Deliver(w, e) ==
  /\ w \in claimants[e]
  /\ claimants' = [claimants EXCEPT ![e] = {}]
  /\ delivered' = [delivered EXCEPT ![e] = @ + 1]
  /\ UNCHANGED <<sent, again>>

Next == \E e \in Entry :
  Accept(e) \/ \E w \in Watcher : Claim(w, e) \/ Withdraw(w, e) \/ Deliver(w, e)

Spec == Init /\ [][Next]_vars
=============================================================================
