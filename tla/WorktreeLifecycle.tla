------------------------- MODULE WorktreeLifecycle -------------------------
(***************************************************************************)
(* The life of a worktree handed to an agent                               *)
(* (src/runtime/worktree-lifecycle): the event-sourced record kept by      *)
(* WorktreeLifecycleStore, and the create and finish sagas of              *)
(* WorktreeLifecycleApplication around it, which reserve the worktree's    *)
(* path from a lease service shared with other processes.                  *)
(*                                                                         *)
(* Every lifecycle belongs to a process of its own: a saga runs            *)
(* synchronously in its process, so it interleaves with the sagas of other *)
(* lifecycles, through the lease service, and not with operations on its   *)
(* own record.  Calls that a guard of the code rejects change nothing.     *)
(***************************************************************************)
EXTENDS Naturals, FiniteSets

CONSTANTS
  Lifecycle,   \* lifecycle identities
  Path,        \* worktree paths
  PathOf,      \* the path of each lifecycle
  Receipt,     \* digests of terminal receipts
  Deny,        \* typed reasons to deny retirement
  None,        \* no record, no receipt, no lease
  MaxFaults    \* bound on failing calls and crashes

States == {"planned", "active", "terminal_pending", "retained", "retired"}

ASSUME WorktreeLifecycleAssumption ==
  /\ PathOf \in [Lifecycle -> Path]
  /\ {"activation_unresolved", "terminal_missing"} \subseteq Deny
  /\ None \notin Lifecycle \cup Receipt \cup States
  /\ MaxFaults \in Nat

\* What the store keeps of a lifecycle, as far as its transitions look at it;
\* every reason in effect is on the history of reasons.
Record ==
  {r \in [state : States, receipt : Receipt \cup {None},
          deny : SUBSET Deny, history : SUBSET Deny] : r.deny \subseteq r.history}

VARIABLES
  record,    \* the store's record of each lifecycle, or None
  lease,     \* the lifecycle each path is leased to, or None
  pc,        \* next step of the saga running for a lifecycle
  handoffs,  \* lifecycles with a cleanup handoff on record
  faults     \* faults so far

vars == <<record, lease, pc, handoffs, faults>>

Creating == {"create", "observe", "spawn", "activate"}
Ending == {"abortRelease", "abort", "finishRelease", "handoff"}
PC == {"rest", "plan", "undo"} \cup Creating \cup Ending

\* No record at all is a record of its own kind.
Unplanned == [state |-> None, receipt |-> None, deny |-> {}, history |-> {}]

TypeOK ==
  /\ record \in [Lifecycle -> Record \cup {Unplanned}]
  /\ lease \in [Path -> Lifecycle \cup {None}]
  /\ pc \in [Lifecycle -> PC]
  /\ handoffs \in SUBSET Lifecycle
  /\ faults \in 0..MaxFaults

Init ==
  /\ record = [l \in Lifecycle |-> Unplanned]
  /\ lease = [p \in Path |-> None]
  /\ pc = [l \in Lifecycle |-> "rest"]
  /\ handoffs = {} /\ faults = 0

-----------------------------------------------------------------------------
(* The store: one operator per transition of reduceLifecycle, with the     *)
(* conditions the store puts before it.                                    *)

State(l) == record[l].state

Planned == [state |-> "planned", receipt |-> None, deny |-> {}, history |-> {}]

Activated(r) == [r EXCEPT !.state = "active", !.deny = {}]

ActivationAborted(r) ==
  [r EXCEPT !.state = "terminal_pending",
            !.deny = {"activation_unresolved"},
            !.history = @ \cup {"activation_unresolved"}]

\* A terminal without a receipt is accepted from an authenticated owner loss,
\* and denied retirement for it.
Terminal(r, receipt, denied) ==
  LET deny == denied \cup IF receipt = None THEN {"terminal_missing"} ELSE {}
  IN  [r EXCEPT !.state = "terminal_pending", !.receipt = receipt,
                !.deny = deny, !.history = @ \cup deny]

\* Mutant: the caller's reasons replace the ones on record.
RetainedAnew(r, denied) ==
  [r EXCEPT !.state = "retained", !.deny = denied, !.history = @ \cup denied]

\* Retention adds to the reasons on record and erases none of them.
Retained(r, denied) ==
  [r EXCEPT !.state = "retained",
            !.deny = @ \cup denied,
            !.history = @ \cup r.deny \cup denied]

\* A late receipt discharges only the reason derived from its absence.
Reevaluated(r, receipt) ==
  [r EXCEPT !.state = "terminal_pending", !.receipt = receipt,
            !.deny = @ \ {"terminal_missing"}]

Retired(r, receipt) ==
  [r EXCEPT !.state = "retired", !.receipt = receipt, !.deny = {}]

Put(l, r) == record' = [record EXCEPT ![l] = r]

-----------------------------------------------------------------------------

Goto(l, s) == pc' = [pc EXCEPT ![l] = s]

Fault == /\ faults < MaxFaults
         /\ faults' = faults + 1

Lease(l, holder) == lease' = [lease EXCEPT ![PathOf[l]] = holder]

\* create: the path is reserved before the store is asked whether it knows the
\* lifecycle.  A receipt that does not bind fails the call with the path kept.
ReservePath(l) ==
  /\ pc[l] = "rest"
  /\ lease[PathOf[l]] = None
  /\ Lease(l, l)
  /\ \/ Goto(l, "plan") /\ UNCHANGED faults
     \/ Fault /\ UNCHANGED pc
  /\ UNCHANGED <<record, handoffs>>

Plan(l) ==
  /\ pc[l] = "plan"
  /\ \/ /\ record[l] = Unplanned
        /\ Put(l, Planned)
        /\ Goto(l, "create")
     \/ /\ record[l] # Unplanned
        /\ Goto(l, "undo")
        /\ UNCHANGED record
  /\ UNCHANGED <<lease, handoffs, faults>>

\* Compensation of a create that has no record of its own.
UndoReservation(l) ==
  /\ pc[l] = "undo"
  /\ \/ Lease(l, None) /\ UNCHANGED faults
     \/ Fault /\ UNCHANGED lease
  /\ Goto(l, "rest")
  /\ UNCHANGED <<record, handoffs>>

\* The worktree is created, observed and given its worker, in this order.
AfterPort(s) == CASE s = "create" -> "observe"
                  [] s = "observe" -> "spawn"
                  [] s = "spawn" -> "activate"

PortCall(l) ==
  /\ pc[l] \in {"create", "observe", "spawn"}
  /\ \/ Goto(l, AfterPort(pc[l])) /\ UNCHANGED faults
     \/ Fault /\ Goto(l, "abortRelease")
  /\ UNCHANGED <<record, lease, handoffs>>

\* By now the worker's receipt and the inventory have been checked.
Activate(l) ==
  /\ pc[l] = "activate"
  /\ State(l) = "planned"
  /\ Put(l, Activated(record[l]))
  /\ Goto(l, "rest")
  /\ UNCHANGED <<lease, handoffs, faults>>

\* compensate: only a released path lets the activation be aborted.
AbortRelease(l) ==
  /\ pc[l] = "abortRelease"
  /\ \/ Lease(l, None) /\ Goto(l, "abort") /\ UNCHANGED faults
     \/ Fault /\ Goto(l, "handoff") /\ UNCHANGED lease
  /\ UNCHANGED <<record, handoffs>>

AbortActivation(l) ==
  /\ pc[l] = "abort"
  /\ State(l) = "planned"
  /\ Put(l, ActivationAborted(record[l]))
  /\ Goto(l, "handoff")
  /\ UNCHANGED <<lease, handoffs, faults>>

\* Mutant: finish gives the path back first, and its terminal event is refused.
FinishReleasesFirst(l, receipt, denied) ==
  /\ pc[l] = "rest"
  /\ State(l) = "active"
  /\ Lease(l, None)
  /\ Goto(l, "handoff")
  /\ UNCHANGED <<record, handoffs, faults>>

\* finish: the terminal event is appended before the path is released.
Finish(l, receipt, denied) ==
  /\ pc[l] = "rest"
  /\ State(l) = "active"
  /\ Put(l, Terminal(record[l], receipt, denied))
  /\ Goto(l, "finishRelease")
  /\ UNCHANGED <<lease, handoffs, faults>>

FinishRelease(l) ==
  /\ pc[l] = "finishRelease"
  /\ \/ Lease(l, None) /\ UNCHANGED faults
     \/ Fault /\ UNCHANGED lease
  /\ Goto(l, "handoff")
  /\ UNCHANGED <<record, handoffs>>

\* The end of an abort or of a finish; nobody retries a handoff that fails.
RecordHandoff(l) ==
  /\ pc[l] = "handoff"
  /\ \/ handoffs' = handoffs \cup {l} /\ UNCHANGED faults
     \/ Fault /\ UNCHANGED handoffs
  /\ Goto(l, "rest")
  /\ UNCHANGED <<record, lease>>

-----------------------------------------------------------------------------
(* Operations on a record at rest.                                         *)

Retain(l, denied) ==
  /\ pc[l] = "rest"
  /\ State(l) = "terminal_pending"
  /\ denied # {}
  /\ Put(l, Retained(record[l], denied))
  /\ UNCHANGED <<lease, pc, handoffs, faults>>

\* Mutant: any receipt reopens a retained record.
ReevaluateAny(l, receipt) ==
  /\ pc[l] = "rest"
  /\ State(l) = "retained"
  /\ Put(l, Reevaluated(record[l], receipt))
  /\ UNCHANGED <<lease, pc, handoffs, faults>>

\* A receipt that is already on record cannot be replaced by another one.
Reevaluate(l, receipt) ==
  /\ pc[l] = "rest"
  /\ State(l) = "retained"
  /\ record[l].receipt \in {None, receipt}
  /\ Put(l, Reevaluated(record[l], receipt))
  /\ UNCHANGED <<lease, pc, handoffs, faults>>

\* Retirement takes the receipt of the call or else the one on record.
Retire(l, offered) ==
  LET digest == IF offered = None THEN record[l].receipt ELSE offered
  IN  /\ pc[l] = "rest"
      /\ State(l) = "terminal_pending"
      /\ offered # None => record[l].receipt \in {None, offered}
      /\ digest # None /\ record[l].deny = {}
      /\ Put(l, Retired(record[l], digest))
      /\ UNCHANGED <<lease, pc, handoffs, faults>>

\* The store lives in memory: a process that dies forgets its lifecycle, not
\* the lease.
Crash(l) ==
  /\ Fault
  /\ record' = [record EXCEPT ![l] = Unplanned]
  /\ Goto(l, "rest")
  /\ UNCHANGED <<lease, handoffs>>

Saga(l) ==
  \/ ReservePath(l) \/ Plan(l) \/ UndoReservation(l) \/ PortCall(l)
  \/ Activate(l) \/ AbortRelease(l) \/ AbortActivation(l)
  \/ FinishRelease(l) \/ RecordHandoff(l)

StoreCall(l) ==
  \/ \E receipt \in Receipt \cup {None}, denied \in SUBSET Deny :
       Finish(l, receipt, denied)
  \/ \E denied \in SUBSET Deny : Retain(l, denied)
  \/ \E receipt \in Receipt : Reevaluate(l, receipt)
  \/ \E receipt \in Receipt \cup {None} : Retire(l, receipt)

Next == \E l \in Lifecycle : Saga(l) \/ StoreCall(l) \/ Crash(l)

Spec == Init /\ [][Next]_vars

-----------------------------------------------------------------------------
(* Properties.                                                             *)

\* Two lifecycles are never active in the same worktree, whatever fails:
\* finish appends its terminal event before it releases the path.
OneActivePerPath ==
  \A l, m \in Lifecycle :
    State(l) = "active" /\ State(m) = "active" /\ PathOf[l] = PathOf[m] => l = m

\* A worktree is retired only with a terminal receipt and when the one reason
\* that was ever held against it is that this receipt was late: no order of
\* retention and reevaluation launders another reason, and an aborted
\* activation never retires.
RetiredIsClean ==
  \A l \in Lifecycle : State(l) = "retired" =>
    record[l].receipt # None /\ record[l].history \subseteq {"terminal_missing"}

\* The terminal receipt on record is never replaced by a different one.
ReceiptFixed ==
  [][\A l \in Lifecycle :
       record[l].receipt # None /\ record'[l] # Unplanned
         => record'[l].receipt = record[l].receipt]_vars

\* What the exclusion rests on: an active lifecycle holds the lease of its
\* path, and so does every saga up to the release it makes itself.
SagaInv ==
  \A l \in Lifecycle :
    /\ State(l) = "active" => lease[PathOf[l]] = l /\ pc[l] = "rest"
    /\ pc[l] \in Creating \cup {"plan", "undo", "abortRelease", "finishRelease"} => lease[PathOf[l]] = l
    /\ pc[l] \in Creating \cup {"abortRelease", "abort"} => State(l) = "planned"
    /\ State(l) = "planned" => record[l] = Planned

\* Why no order of calls launders a reason: until retirement, every reason in
\* the history that a receipt does not discharge is still in effect.
DenialInv ==
  \A l \in Lifecycle :
    /\ State(l) \in {"terminal_pending", "retained"}
         => record[l].history \ {"terminal_missing"} \subseteq record[l].deny
    /\ State(l) \in {None, "planned", "active"}
         => record[l].history = {} /\ record[l].receipt = None
    /\ State(l) = "retired"
         => record[l].receipt # None /\ record[l].history \subseteq {"terminal_missing"}
=============================================================================
