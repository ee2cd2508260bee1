----------------------- MODULE WorktreeLifecycleProofs -----------------------
(***************************************************************************)
(* Proofs about WorktreeLifecycle: the exclusion of active lifecycles and  *)
(* the rules of retirement, for any number of lifecycles, paths, receipts, *)
(* reasons and faults.                                                     *)
(***************************************************************************)
EXTENDS WorktreeLifecycle, TLAPS

USE WorktreeLifecycleAssumption DEF WorktreeLifecycleAssumption, States

\* Every transition of the reducer maps records to records.
LEMMA TransitionTypes ==
  ASSUME NEW r \in Record
  PROVE  /\ Activated(r) \in Record
         /\ ActivationAborted(r) \in Record
         /\ \A rc \in Receipt \cup {None}, d \in SUBSET Deny : Terminal(r, rc, d) \in Record
         /\ \A d \in SUBSET Deny : Retained(r, d) \in Record
         /\ \A rc \in Receipt : Reevaluated(r, rc) \in Record /\ Retired(r, rc) \in Record
<1>1. Activated(r) \in Record
  BY DEF Record, Activated
<1>2. ActivationAborted(r) \in Record
  <2>1. {"activation_unresolved"} \subseteq r.history \cup {"activation_unresolved"}
    OBVIOUS
  <2> QED
    BY <2>1 DEF Record, ActivationAborted
<1>3. ASSUME NEW rc \in Receipt \cup {None}, NEW d \in SUBSET Deny
      PROVE  Terminal(r, rc, d) \in Record
  <2> DEFINE deny == d \cup IF rc = None THEN {"terminal_missing"} ELSE {}
  <2>1. deny \in SUBSET Deny
    OBVIOUS
  <2>2. [r EXCEPT !.state = "terminal_pending", !.receipt = rc,
                  !.deny = deny, !.history = @ \cup deny] \in Record
    <3> HIDE DEF deny
    <3> QED
      BY <2>1 DEF Record
  <2> QED
    BY <2>2 DEF Terminal
<1>4. ASSUME NEW d \in SUBSET Deny PROVE Retained(r, d) \in Record
  BY DEF Record, Retained
<1>5. ASSUME NEW rc \in Receipt
      PROVE  Reevaluated(r, rc) \in Record /\ Retired(r, rc) \in Record
  BY DEF Record, Reevaluated, Retired
<1> QED
  BY <1>1, <1>2, <1>3, <1>4, <1>5

\* A record in one of the five states is a record.
LEMMA InState ==
  ASSUME TypeOK, NEW l \in Lifecycle, State(l) \in States
  PROVE  record[l] \in Record
BY DEF TypeOK, State, Unplanned

\* The initial state is well typed.
LEMMA TypeInit == Init => TypeOK
BY DEF Init, TypeOK, PC, Unplanned, Record

\* Every step keeps the types: no transition invents a reason off the history.
LEMMA TypeStep ==
  ASSUME TypeOK, [Next]_vars
  PROVE  TypeOK'
<1> USE DEF TypeOK, PC, Creating, Ending, Unplanned, State, Goto
<1>1. ASSUME NEW l \in Lifecycle, ReservePath(l) PROVE TypeOK'
  BY <1>1 DEF ReservePath, Lease, Fault
<1>2. ASSUME NEW l \in Lifecycle, Plan(l) PROVE TypeOK'
  BY <1>2 DEF Plan, Put, Planned, Record
<1>3. ASSUME NEW l \in Lifecycle, UndoReservation(l) PROVE TypeOK'
  BY <1>3 DEF UndoReservation, Lease, Fault
<1>4. ASSUME NEW l \in Lifecycle, PortCall(l) PROVE TypeOK'
  BY <1>4 DEF PortCall, AfterPort, Fault
<1>5. ASSUME NEW l \in Lifecycle, Activate(l) PROVE TypeOK'
  BY <1>5, TransitionTypes, InState DEF Activate, Put
<1>6. ASSUME NEW l \in Lifecycle, AbortRelease(l) PROVE TypeOK'
  BY <1>6 DEF AbortRelease, Lease, Fault
<1>7. ASSUME NEW l \in Lifecycle, AbortActivation(l) PROVE TypeOK'
  BY <1>7, TransitionTypes, InState DEF AbortActivation, Put
<1>8. ASSUME NEW l \in Lifecycle, FinishRelease(l) PROVE TypeOK'
  BY <1>8 DEF FinishRelease, Lease, Fault
<1>9. ASSUME NEW l \in Lifecycle, RecordHandoff(l) PROVE TypeOK'
  BY <1>9 DEF RecordHandoff, Fault
<1>10. ASSUME NEW l \in Lifecycle, Crash(l) PROVE TypeOK'
  BY <1>10 DEF Crash, Fault
<1>11. ASSUME NEW l \in Lifecycle, NEW rc \in Receipt \cup {None}, NEW d \in SUBSET Deny, Finish(l, rc, d)
      PROVE  TypeOK'
  BY <1>11, TransitionTypes, InState DEF Finish, Put
<1>12. ASSUME NEW l \in Lifecycle, NEW d \in SUBSET Deny, Retain(l, d)
      PROVE  TypeOK'
  BY <1>12, TransitionTypes, InState DEF Retain, Put
<1>13. ASSUME NEW l \in Lifecycle, NEW rc \in Receipt, Reevaluate(l, rc)
      PROVE  TypeOK'
  BY <1>13, TransitionTypes, InState DEF Reevaluate, Put
<1>14. ASSUME NEW l \in Lifecycle, NEW rc \in Receipt \cup {None}, Retire(l, rc)
      PROVE  TypeOK'
  <2> DEFINE digest == IF rc = None THEN record[l].receipt ELSE rc
  <2>1. record[l] \in Record /\ record' = [record EXCEPT ![l] = Retired(record[l], digest)]
    BY <1>14, InState DEF Retire, Put
  <2>2. digest \in Receipt
    BY <1>14, <2>1 DEF Retire, Record
  <2>3. Retired(record[l], digest) \in Record
    BY <2>1, <2>2, TransitionTypes
  <2> QED
    BY <1>14, <2>1, <2>3 DEF Retire
<1>15. CASE UNCHANGED vars
  BY <1>15 DEF vars
<1> HIDE DEF TypeOK, PC, Creating, Ending, Unplanned, State, Goto
<1> QED
  BY <1>1, <1>2, <1>3, <1>4, <1>5, <1>6, <1>7, <1>8,
     <1>9, <1>10, <1>11, <1>12, <1>13, <1>14, <1>15
  DEF Next, Saga, StoreCall

\* The initial state satisfies both invariants.
LEMMA InvInit == Init => SagaInv /\ DenialInv
BY DEF Init, SagaInv, DenialInv, State, Unplanned, Creating

\* A path is released only by the saga that holds it, and never under an active
\* lifecycle.
LEMMA SagaStep ==
  ASSUME TypeOK, SagaInv, [Next]_vars
  PROVE  SagaInv'
<1> USE DEF TypeOK, SagaInv, PC, Creating, Ending, Unplanned, Planned, State, Goto
<1>1. ASSUME NEW l \in Lifecycle, ReservePath(l) PROVE SagaInv'
  BY <1>1 DEF ReservePath, Lease, Fault
<1>2. ASSUME NEW l \in Lifecycle, Plan(l) PROVE SagaInv'
  <2>1. CASE record[l] = Unplanned /\ Put(l, Planned) /\ Goto(l, "create")
    BY <1>2, <2>1 DEF Plan, Put
  <2>2. CASE Goto(l, "undo") /\ record' = record
    BY <1>2, <2>2 DEF Plan
  <2> QED
    BY <1>2, <2>1, <2>2 DEF Plan
<1>3. ASSUME NEW l \in Lifecycle, UndoReservation(l) PROVE SagaInv'
  BY <1>3 DEF UndoReservation, Lease, Fault
<1>4. ASSUME NEW l \in Lifecycle, PortCall(l) PROVE SagaInv'
  BY <1>4 DEF PortCall, AfterPort, Fault
<1>5. ASSUME NEW l \in Lifecycle, Activate(l) PROVE SagaInv'
  BY <1>5 DEF Activate, Put, Activated
<1>6. ASSUME NEW l \in Lifecycle, AbortRelease(l) PROVE SagaInv'
  BY <1>6 DEF AbortRelease, Lease, Fault
<1>7. ASSUME NEW l \in Lifecycle, AbortActivation(l) PROVE SagaInv'
  BY <1>7 DEF AbortActivation, Put, ActivationAborted
<1>8. ASSUME NEW l \in Lifecycle, FinishRelease(l) PROVE SagaInv'
  BY <1>8 DEF FinishRelease, Lease, Fault
<1>9. ASSUME NEW l \in Lifecycle, RecordHandoff(l) PROVE SagaInv'
  BY <1>9 DEF RecordHandoff, Fault
<1>10. ASSUME NEW l \in Lifecycle, Crash(l) PROVE SagaInv'
  <2>1. ASSUME NEW k \in Lifecycle, k # l
        PROVE  record'[k] = record[k] /\ pc'[k] = pc[k]
    BY <1>10, <2>1 DEF Crash
  <2>2. record'[l].state = None /\ pc'[l] = "rest" /\ lease' = lease
    BY <1>10 DEF Crash
  <2> DEFINE Keeps(k) ==
        /\ State(k) = "active" => lease[PathOf[k]] = k /\ pc[k] = "rest"
        /\ pc[k] \in Creating \cup {"plan", "undo", "abortRelease", "finishRelease"}
             => lease[PathOf[k]] = k
        /\ pc[k] \in Creating \cup {"abortRelease", "abort"} => State(k) = "planned"
        /\ State(k) = "planned" => record[k] = Planned
  <2>3. ASSUME NEW k \in Lifecycle, k # l PROVE Keeps(k)'
    <3>1. Keeps(k)
      OBVIOUS
    <3>2. record'[k] = record[k] /\ pc'[k] = pc[k] /\ lease' = lease
      BY <2>1, <2>2, <2>3
    <3> HIDE DEF TypeOK, SagaInv, Planned
    <3> QED
      BY <3>1, <3>2 DEF Planned
  <2>4. Keeps(l)'
    <3>1. record'[l].state \notin States
      BY <2>2
    <3> QED
      BY <2>2, <3>1
  <2> QED
    BY <2>3, <2>4
<1>11. ASSUME NEW l \in Lifecycle, NEW rc \in Receipt \cup {None}, NEW d \in SUBSET Deny, Finish(l, rc, d)
      PROVE  SagaInv'
  BY <1>11 DEF Finish, Put, Terminal
<1>12. ASSUME NEW l \in Lifecycle, NEW d \in SUBSET Deny, Retain(l, d)
      PROVE  SagaInv'
  BY <1>12 DEF Retain, Put, Retained
<1>13. ASSUME NEW l \in Lifecycle, NEW rc \in Receipt, Reevaluate(l, rc)
      PROVE  SagaInv'
  BY <1>13 DEF Reevaluate, Put, Reevaluated
<1>14. ASSUME NEW l \in Lifecycle, NEW rc \in Receipt \cup {None}, Retire(l, rc)
      PROVE  SagaInv'
  BY <1>14 DEF Retire, Put, Retired
<1>15. CASE UNCHANGED vars
  BY <1>15 DEF vars
<1> HIDE DEF TypeOK, SagaInv, PC, Creating, Ending, Unplanned, Planned, State, Goto
<1> QED
  BY <1>1, <1>2, <1>3, <1>4, <1>5, <1>6, <1>7, <1>8,
     <1>9, <1>10, <1>11, <1>12, <1>13, <1>14, <1>15
  DEF Next, Saga, StoreCall

\* No transition drops a reason that a receipt does not discharge.
LEMMA DenialStep ==
  ASSUME TypeOK, SagaInv, DenialInv, [Next]_vars
  PROVE  DenialInv'
<1> USE DEF TypeOK, DenialInv, SagaInv, Creating, Record, Unplanned, Planned, State, Goto
<1>1. ASSUME NEW l \in Lifecycle, ReservePath(l) PROVE DenialInv'
  BY <1>1 DEF ReservePath, Lease, Fault
<1>2. ASSUME NEW l \in Lifecycle, Plan(l) PROVE DenialInv'
  BY <1>2 DEF Plan, Put, Planned
<1>3. ASSUME NEW l \in Lifecycle, UndoReservation(l) PROVE DenialInv'
  BY <1>3 DEF UndoReservation, Lease, Fault
<1>4. ASSUME NEW l \in Lifecycle, PortCall(l) PROVE DenialInv'
  BY <1>4 DEF PortCall, AfterPort, Fault
<1>5. ASSUME NEW l \in Lifecycle, Activate(l) PROVE DenialInv'
  BY <1>5 DEF Activate, Put, Activated
<1>6. ASSUME NEW l \in Lifecycle, AbortRelease(l) PROVE DenialInv'
  BY <1>6 DEF AbortRelease, Lease, Fault
<1>7. ASSUME NEW l \in Lifecycle, AbortActivation(l) PROVE DenialInv'
  BY <1>7 DEF AbortActivation, Put, ActivationAborted
<1>8. ASSUME NEW l \in Lifecycle, FinishRelease(l) PROVE DenialInv'
  BY <1>8 DEF FinishRelease, Lease, Fault
<1>9. ASSUME NEW l \in Lifecycle, RecordHandoff(l) PROVE DenialInv'
  BY <1>9 DEF RecordHandoff, Fault
<1>10. ASSUME NEW l \in Lifecycle, Crash(l) PROVE DenialInv'
  BY <1>10 DEF Crash, Fault
<1>11. ASSUME NEW l \in Lifecycle, NEW rc \in Receipt \cup {None}, NEW d \in SUBSET Deny, Finish(l, rc, d)
      PROVE  DenialInv'
  BY <1>11 DEF Finish, Put, Terminal
<1>12. ASSUME NEW l \in Lifecycle, NEW d \in SUBSET Deny, Retain(l, d)
      PROVE  DenialInv'
  BY <1>12 DEF Retain, Put, Retained
<1>13. ASSUME NEW l \in Lifecycle, NEW rc \in Receipt, Reevaluate(l, rc)
      PROVE  DenialInv'
  BY <1>13 DEF Reevaluate, Put, Reevaluated
<1>14. ASSUME NEW l \in Lifecycle, NEW rc \in Receipt \cup {None}, Retire(l, rc)
      PROVE  DenialInv'
  BY <1>14 DEF Retire, Put, Retired
<1>15. CASE UNCHANGED vars
  BY <1>15 DEF vars
<1> HIDE DEF TypeOK, DenialInv, SagaInv, Creating, Record, Unplanned, Planned, State, Goto
<1> QED
  BY <1>1, <1>2, <1>3, <1>4, <1>5, <1>6, <1>7, <1>8,
     <1>9, <1>10, <1>11, <1>12, <1>13, <1>14, <1>15
  DEF Next, Saga, StoreCall

\* No step replaces a receipt on record by a different one.
LEMMA ReceiptStep ==
  ASSUME TypeOK, DenialInv, [Next]_vars
  PROVE  \A l \in Lifecycle :
           record[l].receipt # None /\ record'[l] # Unplanned
             => record'[l].receipt = record[l].receipt
<1> DEFINE G(l) == record[l].receipt # None /\ record'[l] # Unplanned
                  => record'[l].receipt = record[l].receipt
<1> SUFFICES ASSUME NEW k \in Lifecycle PROVE G(k)
  OBVIOUS
<1> USE DEF TypeOK, DenialInv, Record, Unplanned, State
<1>1. ASSUME NEW l \in Lifecycle, ReservePath(l) PROVE G(k)
  BY <1>1 DEF ReservePath, Lease, Fault
<1>2. ASSUME NEW l \in Lifecycle, Plan(l) PROVE G(k)
  BY <1>2 DEF Plan, Put, Planned
<1>3. ASSUME NEW l \in Lifecycle, UndoReservation(l) PROVE G(k)
  BY <1>3 DEF UndoReservation, Lease, Fault
<1>4. ASSUME NEW l \in Lifecycle, PortCall(l) PROVE G(k)
  BY <1>4 DEF PortCall, AfterPort, Fault
<1>5. ASSUME NEW l \in Lifecycle, Activate(l) PROVE G(k)
  BY <1>5 DEF Activate, Put, Activated
<1>6. ASSUME NEW l \in Lifecycle, AbortRelease(l) PROVE G(k)
  BY <1>6 DEF AbortRelease, Lease, Fault
<1>7. ASSUME NEW l \in Lifecycle, AbortActivation(l) PROVE G(k)
  BY <1>7 DEF AbortActivation, Put, ActivationAborted
<1>8. ASSUME NEW l \in Lifecycle, FinishRelease(l) PROVE G(k)
  BY <1>8 DEF FinishRelease, Lease, Fault
<1>9. ASSUME NEW l \in Lifecycle, RecordHandoff(l) PROVE G(k)
  BY <1>9 DEF RecordHandoff, Fault
<1>10. ASSUME NEW l \in Lifecycle, Crash(l) PROVE G(k)
  BY <1>10 DEF Crash, Fault
<1>11. ASSUME NEW l \in Lifecycle, NEW rc \in Receipt \cup {None}, NEW d \in SUBSET Deny, Finish(l, rc, d)
      PROVE  G(k)
  BY <1>11 DEF Finish, Put, Terminal
<1>12. ASSUME NEW l \in Lifecycle, NEW d \in SUBSET Deny, Retain(l, d)
      PROVE  G(k)
  BY <1>12 DEF Retain, Put, Retained
<1>13. ASSUME NEW l \in Lifecycle, NEW rc \in Receipt, Reevaluate(l, rc)
      PROVE  G(k)
  BY <1>13 DEF Reevaluate, Put, Reevaluated
<1>14. ASSUME NEW l \in Lifecycle, NEW rc \in Receipt \cup {None}, Retire(l, rc)
      PROVE  G(k)
  BY <1>14 DEF Retire, Put, Retired
<1>15. CASE UNCHANGED vars
  BY <1>15 DEF vars
<1> HIDE DEF TypeOK, DenialInv, Record, Unplanned, State
<1> QED
  BY <1>1, <1>2, <1>3, <1>4, <1>5, <1>6, <1>7, <1>8,
     <1>9, <1>10, <1>11, <1>12, <1>13, <1>14, <1>15
  DEF Next, Saga, StoreCall

\* Every reachable state is well typed.
THEOREM TypeCorrect == Spec => []TypeOK
<1>1. TypeOK /\ [Next]_vars => TypeOK'
  BY TypeStep
<1> QED
  BY TypeInit, <1>1, PTL DEF Spec

\* The invariants of the path and of the record hold in every reachable state.
THEOREM LifecycleInvariant == Spec => [](SagaInv /\ DenialInv)
<1>1. TypeOK /\ (SagaInv /\ DenialInv) /\ [Next]_vars => (SagaInv /\ DenialInv)'
  BY SagaStep, DenialStep
<1> QED
  BY InvInit, TypeCorrect, <1>1, PTL DEF Spec

\* Two lifecycles are never active in the same worktree, whatever fails.
THEOREM Exclusion == Spec => []OneActivePerPath
<1>1. TypeOK /\ SagaInv => OneActivePerPath
  BY DEF TypeOK, SagaInv, OneActivePerPath
<1> QED
  BY TypeCorrect, LifecycleInvariant, <1>1, PTL

\* No order of calls retires a worktree without its receipt or with a reason
\* other than the receipt's absence on its history.
THEOREM RetirementClean == Spec => []RetiredIsClean
<1>1. DenialInv => RetiredIsClean
  BY DEF DenialInv, RetiredIsClean
<1> QED
  BY LifecycleInvariant, <1>1, PTL

\* A terminal receipt on record is never replaced by a different one.
THEOREM ReceiptNeverReplaced == Spec => ReceiptFixed
<1>1. TypeOK /\ DenialInv /\ [Next]_vars
        => [\A l \in Lifecycle :
              record[l].receipt # None /\ record'[l] # Unplanned
                => record'[l].receipt = record[l].receipt]_vars
  BY ReceiptStep
<1> QED
  BY TypeCorrect, LifecycleInvariant, <1>1, PTL DEF Spec, ReceiptFixed
=============================================================================
