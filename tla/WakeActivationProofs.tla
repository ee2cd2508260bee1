------------------------ MODULE WakeActivationProofs ------------------------
(***************************************************************************)
(* Proofs about WakeActivation, for any number of watchers and sessions.   *)
(*                                                                         *)
(* 1. Whatever overlaps and dies anywhere: the types, which need that the  *)
(*    epochs in use always have a greatest one (IInv).                     *)
(* 2. As long as activations do not overlap, and wherever they die: the    *)
(*    recovery is never refused, rolls back completely, and no revoked     *)
(*    grant is accepted again.  Orderly says why: at most one entry is     *)
(*    planned, and the files tell what it has changed (Undoable); the      *)
(*    watcher at work knows how far it has come (Stage).                   *)
(***************************************************************************)
EXTENDS WakeActivation, FiniteSetTheorems, TLAPS

USE WakeActivationAssumption DEF WakeActivationAssumption

\* A step with an entry in hand has one, and one with a predecessor where it
\* touches the predecessor's files.
InHand ==
  \A w \in Watcher :
    /\ pc[w] \in (Reconciling \cup Activating) \ {"reconcile", "scan"} => mine[w] \in Entry
    /\ pc[w] \in {"restoreMarker", "restoreProfile", "supersede", "supersedeProfile"}
         => mine[w].previous \in Session

Used == {0} \cup {e.epoch : e \in journal}

\* The epochs that grants and entries name are in the journal, and the journal
\* has a greatest one: the next epoch exists.
Planned == {"supersede", "supersedeProfile", "mark", "profile", "authorize"}
EpochsKnown ==
  /\ authority.epoch \in Used
  /\ \A e \in journal : e.restore.epoch \in Used
  /\ \A w \in Watcher : /\ mine[w].restore.epoch \in Used
                        /\ pc[w] \in Planned => mine[w].epoch \in Used
Greatest == \E m \in Used : \A u \in Used : u <= m

IInv == TypeOK /\ InHand /\ EpochsKnown /\ Greatest

\* Writing an entry keeps the journal a set of files, and every epoch in it.
LEMMA WriteKeeps ==
  ASSUME TypeOK, NEW e \in Entry, Write(e)
  PROVE  /\ journal' \in SUBSET Entry
         /\ \A c, d \in journal' : Key(c) = Key(d) => c = d
         /\ Used' = Used \cup {e.epoch}
<1>1. \A d \in journal : Key(d) = Key(e) => d.epoch = e.epoch
  BY DEF Key
<1>2. \A d \in journal : Key(d) = <<d.epoch, Of[d.generation]>>
  BY DEF Key
<1>3. e \in journal' /\ \A d \in journal' : d = e \/ (d \in journal /\ Key(d) # Key(e))
  BY DEF Write
<1>4. \A d \in journal : d \in journal' \/ Key(d) = Key(e)
  BY DEF Write
<1>5. Used' \subseteq Used \cup {e.epoch}
  BY <1>3 DEF Used
<1>6. Used \cup {e.epoch} \subseteq Used'
  BY <1>1, <1>3, <1>4 DEF Used
<1> QED
  BY <1>3, <1>5, <1>6 DEF TypeOK

\* A greatest epoch remains when one is added.
LEMMA GreatestKept ==
  ASSUME Used \in SUBSET Nat, Greatest, NEW n \in Nat, Used' = Used \cup {n}
  PROVE  Greatest'
<1>1. PICK m \in Used : \A u \in Used : u <= m
  BY DEF Greatest
<1>2. CASE n <= m
  BY <1>1, <1>2 DEF Greatest
<1>3. CASE ~(n <= m)
  BY <1>1, <1>3 DEF Greatest
<1> QED
  BY <1>2, <1>3

\* The next epoch is a positive number beyond those of the journal.
LEMMA NextEpochType ==
  ASSUME TypeOK, EpochsKnown, Greatest
  PROVE  NextEpoch \in Nat \ {0} /\ \A e \in journal : e.epoch < NextEpoch
<1> DEFINE used == {authority.epoch} \cup {e.epoch : e \in journal}
<1>1. PICK m \in Used : \A u \in Used : u <= m
  BY DEF Greatest
<1>2. \A e \in journal : e.epoch \in Nat \ {0}
  BY DEF TypeOK, Entry
<1>3. authority.epoch \in Nat /\ m \in Nat
  BY <1>1, <1>2 DEF TypeOK, Grant, NoGrant, Used
<1>4. used \in SUBSET Nat /\ \A u \in used : u <= m
  BY <1>1, <1>2, <1>3 DEF EpochsKnown, Used
<1>5. m \in used
  <2>1. CASE m = 0
    BY <2>1, <1>3, <1>4
  <2>2. CASE m # 0
    BY <2>2, <1>1 DEF Used
  <2> QED
    BY <2>1, <2>2
<1>6. m + 1 \in {u + 1 : u \in used} /\ \A u \in used : u < m + 1
  <2> HIDE DEF used
  <2>1. \A u \in used : u < m + 1
    BY <1>3, <1>4
  <2>2. \A u \in used : u + 1 \in {v + 1 : v \in used}
    OBVIOUS
  <2> QED
    BY <1>5, <2>1, <2>2
<1>7. NextEpoch \in {u + 1 : u \in used} /\ \A u \in used : u < NextEpoch
  BY <1>6 DEF NextEpoch
<1>8. \A e \in journal : e.epoch \in used
  OBVIOUS
<1> HIDE DEF used
<1>9. NextEpoch \in Nat \ {0}
  BY <1>4, <1>7
<1> QED
  BY <1>7, <1>8, <1>9

\* The initial state is well typed and uses no epoch.
LEMMA InitOK == Init => IInv
  BY DEF Init, IInv, TypeOK, InHand, EpochsKnown, Greatest, Used, Planned, PC, Reconciling,
         Activating, Ended, NoGrant, NoEntry

\* What the entry in hand consists of.
LEMMA HandTypes ==
  ASSUME IInv, NEW w \in Watcher,
         pc[w] \in (Reconciling \cup Activating) \ {"reconcile", "scan"}
  PROVE  LET e == mine[w]
         IN  /\ e \in Entry /\ e.epoch \in Nat \ {0} /\ Granted(w) \in Grant
             /\ e.previous \in Session \cup {None} /\ e.restore \in Grant \cup {NoGrant}
             /\ \A s \in {"active", "rolled_back"} :
                  /\ [e EXCEPT !.state = s] \in Entry
                  /\ [e EXCEPT !.state = s].epoch = e.epoch
                  /\ [e EXCEPT !.state = s].restore = e.restore
             /\ Key(e) \in (Nat \ {0}) \X Session
<1>1. mine[w] \in Entry
  BY DEF IInv, InHand
<1> QED
  BY <1>1 DEF Entry, Granted, Grant, Key

\* No step leaves the types.
LEMMA TypesStep ==
  ASSUME IInv, NEW w \in Watcher, Step(w) \/ Crash(w)
  PROVE  TypeOK'
<1> USE DEF IInv, TypeOK, InHand, files, Goto, Keep, Busy, PC, Reconciling, Activating, Ended
<1>1. CASE Start(w)
  <2>1. \A e \in journal : Key(e) \in (Nat \ {0}) \X Session
    BY DEF Key, Entry
  <2>2. listed'[w] \in SUBSET ((Nat \ {0}) \X Session)
    BY <1>1, <2>1 DEF Start
  <2> QED
    BY <1>1, <2>2 DEF Start
<1>2. CASE ReadEntry(w)
  BY <1>2 DEF ReadEntry
<1>3. CASE Close(w)
  <2>1. PICK s \in {"active", "rolled_back"} : Write([mine[w] EXCEPT !.state = s])
    BY <1>3 DEF Close
  <2>2. [mine[w] EXCEPT !.state = s] \in Entry
    BY <1>3, HandTypes DEF Close
  <2>3. journal' \in SUBSET Entry /\ \A c, d \in journal' : Key(c) = Key(d) => c = d
    BY <2>1, <2>2, WriteKeeps
  <2> QED
    BY <1>3, <2>3 DEF Close
<1>4. CASE RemoveMarker(w)
  BY <1>4 DEF RemoveMarker
<1>5. CASE RemoveProfile(w)
  BY <1>5 DEF RemoveProfile
<1>6. CASE RestoreAuthority(w)
  <2>1. mine[w].restore \in Grant \cup {NoGrant}
    BY <1>6, HandTypes DEF RestoreAuthority
  <2> QED
    BY <1>6, <2>1 DEF RestoreAuthority
<1>7. CASE RestoreMarker(w)
  BY <1>7 DEF RestoreMarker
<1>8. CASE RestoreProfile(w)
  BY <1>8 DEF RestoreProfile
<1>9. CASE Reconciled(w)
  BY <1>9 DEF Reconciled
<1>10. CASE Scan(w)
  <2>1. CASE mine' = mine /\ Goto(w, "denied")
    BY <1>10, <2>1 DEF Scan
  <2>2. ASSUME NEW s \in Session \cup {None}, Goto(w, "plan"),
               Keep(w, [state |-> "planned", generation |-> w, epoch |-> NextEpoch,
                        previous |-> s, restore |-> authority])
        PROVE  TypeOK'
    <3>1. NextEpoch \in Nat \ {0}
      BY NextEpochType
    <3>2. mine'[w] \in Entry
      BY <2>2, <3>1 DEF Entry
    <3> QED
      BY <1>10, <2>2, <3>2 DEF Scan
  <2> QED
    BY <1>10, <2>1, <2>2 DEF Scan, Marked
<1>11. CASE Plan(w)
  <2>1. mine[w] \in Entry /\ Write(mine[w])
    BY <1>11, HandTypes DEF Plan
  <2>2. journal' \in SUBSET Entry /\ \A c, d \in journal' : Key(c) = Key(d) => c = d
    BY <2>1, WriteKeeps
  <2> QED
    BY <1>11, <2>2 DEF Plan
<1>12. CASE Supersede(w)
  <2>1. /\ mine[w].previous \in Session
        /\ <<mine[w].epoch, mine[w].previous>> \in (Nat \ {0}) \X Session
    BY <1>12, HandTypes DEF Supersede
  <2> QED
    BY <1>12, <2>1 DEF Supersede
<1>13. CASE SupersedeProfile(w)
  <2>1. /\ mine[w].previous \in Session
        /\ <<mine[w].epoch, mine[w].previous>> \in (Nat \ {0}) \X Session
    BY <1>13, HandTypes DEF SupersedeProfile
  <2> QED
    BY <1>13, <2>1 DEF SupersedeProfile
<1>14. CASE WriteMarker(w)
  BY <1>14 DEF WriteMarker
<1>15. CASE WriteProfile(w)
  <2>1. Granted(w) \in Grant
    BY <1>15, HandTypes DEF WriteProfile
  <2> QED
    BY <1>15, <2>1 DEF WriteProfile
<1>16. CASE WriteAuthority(w)
  <2>1. Granted(w) \in Grant
    BY <1>16, HandTypes DEF WriteAuthority
  <2> QED
    BY <1>16, <2>1 DEF WriteAuthority
<1>17. CASE Commit(w)
  <2>1. PICK s \in {"active", "rolled_back"} : Write([mine[w] EXCEPT !.state = s])
    BY <1>17 DEF Commit
  <2>2. [mine[w] EXCEPT !.state = s] \in Entry
    BY <1>17, HandTypes DEF Commit
  <2>3. journal' \in SUBSET Entry /\ \A c, d \in journal' : Key(c) = Key(d) => c = d
    BY <2>1, <2>2, WriteKeeps
  <2> QED
    BY <1>17, <2>3 DEF Commit
<1>18. CASE Crash(w)
  BY <1>18 DEF Crash
<1> QED
  BY <1>1, <1>2, <1>3, <1>4, <1>5, <1>6, <1>7, <1>8, <1>9, <1>10, <1>11, <1>12, <1>13, <1>14, <1>15, <1>16, <1>17, <1>18 DEF Step

\* Every step that leads to one with an entry in hand takes one along.
LEMMA HandStep ==
  ASSUME IInv, NEW w \in Watcher, Step(w) \/ Crash(w)
  PROVE  InHand'
<1> USE DEF IInv, TypeOK, InHand, files, Goto, Keep, Busy, Reconciling, Activating
<1>1. CASE Start(w)
  BY <1>1 DEF Start
<1>2. CASE ReadEntry(w)
  BY <1>2 DEF ReadEntry
<1>3. CASE Close(w)
  BY <1>3 DEF Close
<1>4. CASE RemoveMarker(w)
  BY <1>4 DEF RemoveMarker
<1>5. CASE RemoveProfile(w)
  BY <1>5 DEF RemoveProfile
<1>6. CASE RestoreAuthority(w)
  <2>1. mine[w] \in Entry /\ mine[w].previous \in Session \cup {None}
    BY <1>6, HandTypes DEF RestoreAuthority
  <2> QED
    BY <1>6, <2>1 DEF RestoreAuthority
<1>7. CASE RestoreMarker(w)
  BY <1>7 DEF RestoreMarker
<1>8. CASE RestoreProfile(w)
  BY <1>8 DEF RestoreProfile
<1>9. CASE Reconciled(w)
  BY <1>9 DEF Reconciled
<1>10. CASE Scan(w)
  <2>1. pc'[w] = "plan" => mine'[w] \in Entry
    BY <1>10, TypesStep DEF Scan, Step, NoEntry
  <2> QED
    BY <1>10, <2>1 DEF Scan
<1>11. CASE Plan(w)
  <2>1. mine[w] \in Entry /\ mine[w].previous \in Session \cup {None}
    BY <1>11, HandTypes DEF Plan
  <2> QED
    BY <1>11, <2>1 DEF Plan
<1>12. CASE Supersede(w)
  BY <1>12 DEF Supersede
<1>13. CASE SupersedeProfile(w)
  BY <1>13 DEF SupersedeProfile
<1>14. CASE WriteMarker(w)
  BY <1>14 DEF WriteMarker
<1>15. CASE WriteProfile(w)
  BY <1>15 DEF WriteProfile
<1>16. CASE WriteAuthority(w)
  BY <1>16 DEF WriteAuthority
<1>17. CASE Commit(w)
  BY <1>17 DEF Commit
<1>18. CASE Crash(w)
  BY <1>18 DEF Crash
<1> QED
  BY <1>1, <1>2, <1>3, <1>4, <1>5, <1>6, <1>7, <1>8, <1>9, <1>10, <1>11, <1>12, <1>13, <1>14, <1>15, <1>16, <1>17, <1>18 DEF Step

\* Writing an entry whose restored grant is known keeps the epochs known.
LEMMA EpochsWritten ==
  ASSUME IInv, NEW e \in Entry, Write(e), e.epoch \in Nat, e.restore.epoch \in Used
  PROVE  /\ Greatest' /\ e.epoch \in Used' /\ Used \subseteq Used'
         /\ \A d \in journal' : d.restore.epoch \in Used'
<1>1. Used' = Used \cup {e.epoch}
  BY WriteKeeps DEF IInv
<1>2. Used \in SUBSET Nat
  BY DEF IInv, TypeOK, Entry, Used
<1>3. Greatest'
  BY <1>1, <1>2, GreatestKept DEF IInv
<1>4. \A d \in journal' : d = e \/ d \in journal
  BY DEF Write
<1>5. \A d \in journal' : d.restore.epoch \in Used'
  BY <1>1, <1>4 DEF IInv, EpochsKnown
<1> QED
  BY <1>1, <1>3, <1>5

\* No step names an epoch that is not in the journal, and the journal keeps a greatest one.
LEMMA EpochStep ==
  ASSUME IInv, NEW w \in Watcher, Step(w) \/ Crash(w)
  PROVE  (EpochsKnown /\ Greatest)'
<1> USE DEF IInv, TypeOK, InHand, EpochsKnown, Greatest, Planned, Used, files, Goto, Keep, Busy, Reconciling, Activating
<1>1. CASE Start(w)
  BY <1>1 DEF Start
<1>2. CASE ReadEntry(w)
  BY SMTT(30), <1>2 DEF ReadEntry
<1>3. CASE Close(w)
  <2>1. PICK s \in {"active", "rolled_back"} : Write([mine[w] EXCEPT !.state = s])
    BY <1>3 DEF Close
  <2> DEFINE e == [mine[w] EXCEPT !.state = s]
  <2>2. e \in Entry /\ e.epoch \in Nat /\ e.restore.epoch \in Used
    BY ZenonT(40), <1>3, HandTypes DEF Close
  <2>3. \A v \in Watcher : /\ mine'[v].restore.epoch \in Used
                           /\ pc'[v] \in Planned => pc[v] \in Planned /\ mine'[v] = mine[v]
    BY <1>3 DEF Close, NoEntry, NoGrant
  <2>4. authority' = authority
    BY <1>3 DEF Close
  <2>5. Greatest' /\ Used \subseteq Used' /\ \A d \in journal' : d.restore.epoch \in Used'
    BY <2>1, <2>2, EpochsWritten
  <2>6. /\ authority.epoch \in Used
        /\ \A v \in Watcher : pc[v] \in Planned => mine[v].epoch \in Used
    OBVIOUS
  <2> HIDE DEF Used, Greatest, Planned, TypeOK, InHand, IInv
  <2>7. authority'.epoch \in Used'
    BY <2>4, <2>5, <2>6
  <2>8. \A v \in Watcher : /\ mine'[v].restore.epoch \in Used'
                           /\ pc'[v] \in Planned => mine'[v].epoch \in Used'
    BY <2>3, <2>5, <2>6
  <2> QED
    BY <2>5, <2>7, <2>8 DEF EpochsKnown
<1>4. CASE RemoveMarker(w)
  BY <1>4 DEF RemoveMarker
<1>5. CASE RemoveProfile(w)
  BY <1>5 DEF RemoveProfile
<1>6. CASE RestoreAuthority(w)
  BY <1>6 DEF RestoreAuthority
<1>7. CASE RestoreMarker(w)
  BY <1>7 DEF RestoreMarker
<1>8. CASE RestoreProfile(w)
  BY ZenonT(40), <1>8 DEF RestoreProfile
<1>9. CASE Reconciled(w)
  BY <1>9 DEF Reconciled
<1>10. CASE Scan(w)
  BY SMTT(30), <1>10 DEF Scan
<1>11. CASE Plan(w)
  <2>1. /\ mine[w] \in Entry /\ mine[w].restore.epoch \in Used
        /\ mine[w].epoch \in Nat /\ Write(mine[w])
    BY <1>11, HandTypes DEF Plan
  <2>2. \A v \in Watcher : pc'[v] \in Planned => v = w \/ pc[v] \in Planned
    BY <1>11 DEF Plan
  <2> QED
    BY <1>11, <2>1, <2>2, EpochsWritten DEF Plan
<1>12. CASE Supersede(w)
  BY <1>12 DEF Supersede
<1>13. CASE SupersedeProfile(w)
  BY <1>13 DEF SupersedeProfile
<1>14. CASE WriteMarker(w)
  BY <1>14 DEF WriteMarker
<1>15. CASE WriteProfile(w)
  BY <1>15 DEF WriteProfile
<1>16. CASE WriteAuthority(w)
  BY <1>16 DEF WriteAuthority, Granted
<1>17. CASE Commit(w)
  <2>1. PICK s \in {"active", "rolled_back"} : Write([mine[w] EXCEPT !.state = s])
    BY <1>17 DEF Commit
  <2> DEFINE e == [mine[w] EXCEPT !.state = s]
  <2>2. e \in Entry /\ e.epoch \in Nat /\ e.restore.epoch \in Used
    BY ZenonT(40), <1>17, HandTypes DEF Commit
  <2>3. \A v \in Watcher : /\ mine'[v].restore.epoch \in Used
                           /\ pc'[v] \in Planned => pc[v] \in Planned /\ mine'[v] = mine[v]
    BY <1>17 DEF Commit, NoEntry, NoGrant
  <2> QED
    BY <1>17, <2>1, <2>2, <2>3, EpochsWritten DEF Commit
<1>18. CASE Crash(w)
  BY <1>18 DEF Crash, NoEntry, NoGrant
<1> QED
  BY <1>1, <1>2, <1>3, <1>4, <1>5, <1>6, <1>7, <1>8, <1>9, <1>10, <1>11, <1>12, <1>13, <1>14, <1>15, <1>16, <1>17, <1>18 DEF Step

\* For any number of watchers and sessions, whatever overlaps and dies: the
\* files keep their types, in particular a journal of one entry per epoch and
\* session, and the next epoch always exists.
THEOREM TypeCorrect == Spec => []TypeOK
<1>1. IInv /\ [Next]_vars => IInv'
  <2> SUFFICES ASSUME IInv, [Next]_vars PROVE IInv'
    OBVIOUS
  <2>1. ASSUME NEW w \in Watcher, Step(w) \/ Crash(w) PROVE IInv'
    BY <2>1, TypesStep, HandStep, EpochStep DEF IInv
  <2>2. CASE UNCHANGED vars
    BY <2>2 DEF vars, files, IInv, TypeOK, InHand, EpochsKnown, Greatest, Used, Key
  <2> QED
    BY <2>1, <2>2 DEF Next
<1>2. IInv => TypeOK
  BY DEF IInv
<1> QED
  BY InitOK, <1>1, <1>2, PTL DEF Spec
-----------------------------------------------------------------------------
(* As long as activations do not overlap.                                  *)

Pending == {e \in journal : e.state = "planned"}

GrantOf(e) == [generation |-> e.generation, epoch |-> e.epoch]

\* a is what the latest activation in effect grants, and s its session.
InForce(a, s) ==
  \/ a = NoGrant /\ s = None /\ \A e \in journal : e.state # "active"
  \/ \E e \in journal : Latest(e) /\ a = GrantOf(e) /\ s = Of[e.generation]

\* The markers are those of grant a in session s.
Marks(a, s) ==
  \/ s = None /\ Marked = {}
  \/ s # None /\ Marked = {s} /\ marker[s] = a.generation

AtRest == \E s \in Session \cup {None} : InForce(authority, s) /\ Marks(authority, s)

\* Nothing of a predecessor is in the way of entry e.
Cleared(e) == e.previous = None \/ Superseded(e)

\* What a planned entry has changed can be told from the files, and undone: it is in effect,
\* or the authority record is still that of its predecessor; the marker of the predecessor
\* is where it was, or put aside for this entry.
Undoable(e) ==
  /\ InForce(e.restore, e.previous)
  /\ \A d \in journal : d = e \/ d.epoch < e.epoch
  /\ authority = e.restore \/ Accepts(GrantOf(e))
  /\ ~Cleared(e) => Marks(e.restore, e.previous)
  /\ Cleared(e) => \A s \in Marked : s = Of[e.generation] /\ marker[s] = e.generation
  /\ \A m \in setAside : m.key = <<e.epoch, e.previous>> => m.generation = e.restore.generation

\* How far the watcher at work has come with the entry in its hand.
Undoing == {"removeMarker", "removeProfile", "restoreAuthority", "restoreMarker", "restoreProfile",
            "close"}
Stage(w) ==
  LET e == mine[w]
  IN  /\ pc[w] \in {"scan", "plan"} => Pending = {}
      /\ pc[w] = "plan" =>
           /\ e.state = "planned" /\ e.restore = authority
           /\ InForce(authority, e.previous) /\ Marks(authority, e.previous)
           /\ \A d \in journal : d.epoch < e.epoch
      /\ pc[w] \in Activating \ {"scan"} => e.generation = w
      /\ pc[w] \in Undoing \cup Planned \cup {"adopt", "commit"} => e \in Pending
      /\ pc[w] \in {"adopt", "commit"} => Accepts(GrantOf(e))
      /\ pc[w] \in Undoing \cup Planned => authority = e.restore
      /\ pc[w] = "removeMarker" => OwnFilesToGo(e)
      /\ pc[w] \in {"removeProfile", "restoreAuthority", "restoreMarker"} /\ Cleared(e) => Marked = {}
      /\ pc[w] \in {"restoreProfile", "supersede"} => ~Cleared(e)
      /\ pc[w] = "close" => Marks(e.restore, e.previous)
      /\ pc[w] \in {"supersedeProfile", "mark"} => Cleared(e) /\ Marked = {}
      /\ pc[w] \in {"profile", "authorize"} => Cleared(e) /\ marker[Of[w]] = w
      /\ pc[w] = "authorize" => profile[Of[w]] = Granted(w)

AsideKnown == \A m \in setAside : m.key[1] \in Used
Solo == \A v, w \in Watcher : Busy(v) /\ Busy(w) => v = w
Distinct == \A d, e \in journal : d.epoch = e.epoch => d = e
Listed == \A w \in Watcher : pc[w] \in Reconciling => \A e \in Pending : Key(e) \in listed[w]

Orderly ==
  /\ Solo /\ Distinct /\ Listed
  /\ Pending = {} => AtRest
  /\ \A e \in Pending : Undoable(e)
  /\ \A w \in Watcher : Stage(w) /\ pc[w] \notin {"denied", "failed"}

RecoveryInv == IInv /\ AsideKnown /\ (apart => Orderly)

\* No activation is planned and another one not yet settled.
LEMMA OnePending ==
  ASSUME IInv, Orderly, NEW d \in Pending, NEW e \in Pending
  PROVE  d = e
<1>1. d.epoch \in Nat /\ e.epoch \in Nat
  BY DEF IInv, TypeOK, Pending, Entry
<1>2. (d = e \/ d.epoch < e.epoch) /\ (e = d \/ e.epoch < d.epoch)
  BY DEF Orderly, Undoable, Pending
<1> QED
  BY <1>1, <1>2

\* What an entry consists of.
LEMMA PendingTypes ==
  ASSUME IInv, NEW e \in Pending
  PROVE  /\ e \in Entry /\ e \in journal /\ e.state = "planned"
         /\ e.epoch \in Nat \ {0} /\ e.generation \in Watcher /\ Of[e.generation] \in Session
         /\ e.previous \in Session \cup {None} /\ e.restore \in Grant \cup {NoGrant}
         /\ GrantOf(e) \in Grant
  BY DEF IInv, TypeOK, Pending, Entry, GrantOf, Grant

\* The others are not at work, whatever the one at work does.
LEMMA OthersRest ==
  ASSUME IInv, Orderly, NEW w \in Watcher, Busy(w), pc' = [pc EXCEPT ![w] = pc'[w]],
         Stage(w)', pc'[w] \notin {"denied", "failed"}
  PROVE  Solo' /\ \A v \in Watcher : Stage(v)' /\ pc'[v] \notin {"denied", "failed"}
<1>1. \A v \in Watcher : v # w => pc'[v] = pc[v] /\ ~Busy(v)
  BY DEF Orderly, Solo, IInv, TypeOK
<1>3. \A v \in Watcher : v # w => ~Busy(v)'
  BY <1>1 DEF Busy
<1>4. \A v \in Watcher : v # w => Stage(v)'
  BY <1>3 DEF Stage, Busy, Reconciling, Activating, Undoing, Planned
<1>5. Solo'
  BY <1>3 DEF Solo
<1>6. \A v \in Watcher : pc'[v] \notin {"denied", "failed"}
  BY <1>1 DEF Orderly
<1> QED
  BY <1>4, <1>5, <1>6

\* A step that writes no journal, with the planned entry in hand, keeps order if that entry
\* can still be undone and the watcher knows how far it has come.
LEMMA FilesStep ==
  ASSUME IInv, Orderly, NEW w \in Watcher, Busy(w), NEW e \in Pending, mine[w] = e,
         UNCHANGED <<journal, listed, mine>>, pc' = [pc EXCEPT ![w] = pc'[w]],
         pc'[w] \in Reconciling => pc[w] \in Reconciling,
         Undoable(e)', Stage(w)', pc'[w] \notin {"denied", "failed"}
  PROVE  Orderly'
<1>1. Pending' = Pending /\ \A d \in Pending : d = e
  BY OnePending DEF Pending
<1>2. Distinct'
  BY DEF Orderly, Distinct
<1>3. Listed'
  <2>1. \A v \in Watcher : pc'[v] \in Reconciling => pc[v] \in Reconciling
    BY DEF IInv, TypeOK
  <2>2. \A d : Key(d)' = Key(d)
    BY DEF Key
  <2> QED
    BY <1>1, <2>1, <2>2 DEF Orderly, Listed
<1>4. \A d \in Pending' : Undoable(d)'
  BY <1>1
<1> QED
  BY <1>1, <1>2, <1>3, <1>4, OthersRest DEF Orderly

\* What orderly recovery says of the entry in hand.
LEMMA InHandOrderly ==
  ASSUME IInv, Orderly, NEW w \in Watcher, pc[w] \in Undoing \cup Planned \cup {"adopt", "commit"}
  PROVE  Busy(w) /\ mine[w] \in Pending /\ Undoable(mine[w]) /\ Stage(w)
  BY DEF Orderly, Stage, Busy, Undoing, Planned, Reconciling, Activating

\* The dead watcher's marker and profile go; those of a predecessor that were not put aside
\* are of another session.
LEMMA RemoveMarkerOrderly ==
  ASSUME IInv, Orderly, NEW w \in Watcher, RemoveMarker(w)
  PROVE  Orderly'
<1>1. pc[w] = "removeMarker"
  BY DEF RemoveMarker
<1>2. PICK e \in Pending : mine[w] = e /\ Undoable(e)
  BY <1>1, InHandOrderly DEF Undoing
<1>3. Busy(w) /\ Stage(w)
  BY <1>1, InHandOrderly DEF Undoing
<1>4. OwnFilesToGo(e) /\ authority = e.restore
  BY <1>1, <1>2, <1>3 DEF Stage, Undoing
<1>5. /\ marker' = [marker EXCEPT ![Of[e.generation]] = None]
      /\ UNCHANGED <<profile, authority, journal, setAside, setAsideProfile, listed, mine>>
      /\ pc' = [pc EXCEPT ![w] = pc'[w]] /\ pc'[w] = "removeProfile"
  BY <1>2 DEF RemoveMarker, Goto, IInv, TypeOK
<1>6. e.generation \in Watcher /\ Of[e.generation] \in Session /\ e.previous \in Session \cup {None}
  BY PendingTypes
<1>7. Marked' = Marked \ {Of[e.generation]}
  BY <1>5, <1>6 DEF Marked, IInv, TypeOK
<1>8. Cleared(e)' = Cleared(e)
  BY <1>5 DEF Cleared, Superseded
<1>9. ~Cleared(e) => Marks(e.restore, e.previous)'
  BY <1>2, <1>4, <1>5, <1>6, <1>7 DEF Cleared, OwnFilesToGo, Undoable, Marks, IInv, TypeOK
<1>10. Cleared(e) => Marked' = {}
  BY <1>2, <1>7 DEF Undoable
<1>11. Undoable(e)'
  BY <1>2, <1>4, <1>5, <1>8, <1>9, <1>10 DEF Undoable, InForce, Latest, GrantOf
<1>12. Stage(w)'
  BY <1>2, <1>4, <1>5, <1>8, <1>10 DEF Stage, IInv, TypeOK, Pending, Undoing, Planned, Activating
<1> QED
  BY <1>1, <1>2, <1>3, <1>5, <1>11, <1>12, FilesStep DEF Reconciling

\* Nothing is said of the profile that goes with it.
LEMMA RemoveProfileOrderly ==
  ASSUME IInv, Orderly, NEW w \in Watcher, RemoveProfile(w)
  PROVE  Orderly'
<1>1. pc[w] = "removeProfile"
  BY DEF RemoveProfile
<1>2. PICK e \in Pending : mine[w] = e /\ Undoable(e)
  BY <1>1, InHandOrderly DEF Undoing
<1>3. Busy(w) /\ Stage(w)
  BY <1>1, InHandOrderly DEF Undoing
<1>4. authority = e.restore /\ (Cleared(e) => Marked = {})
  BY <1>1, <1>2, <1>3 DEF Stage, Undoing
<1>5. /\ UNCHANGED <<marker, authority, journal, setAside, setAsideProfile, listed, mine>>
      /\ pc' = [pc EXCEPT ![w] = pc'[w]] /\ pc'[w] = "restoreAuthority"
  BY DEF RemoveProfile, Goto, IInv, TypeOK
<1>6. Undoable(e)'
  BY <1>2, <1>4, <1>5 DEF Undoable, InForce, Latest, GrantOf, Cleared, Superseded, Marks, Marked
<1>7. Stage(w)'
  BY <1>2, <1>4, <1>5 DEF Stage, IInv, TypeOK, Pending, Undoing, Planned, Activating, Cleared, Superseded, Marked
<1> QED
  BY <1>1, <1>2, <1>3, <1>5, <1>6, <1>7, FilesStep DEF Reconciling

\* The authority record of the predecessor is written back.
LEMMA RestoreAuthorityOrderly ==
  ASSUME IInv, Orderly, NEW w \in Watcher, RestoreAuthority(w)
  PROVE  Orderly'
<1>1. pc[w] = "restoreAuthority"
  BY DEF RestoreAuthority
<1>2. PICK e \in Pending : mine[w] = e /\ Undoable(e)
  BY <1>1, InHandOrderly DEF Undoing
<1>3. Busy(w) /\ Stage(w)
  BY <1>1, InHandOrderly DEF Undoing
<1>4. authority = e.restore /\ (Cleared(e) => Marked = {})
  BY <1>1, <1>2, <1>3 DEF Stage, Undoing
<1>5. /\ UNCHANGED <<marker, profile, journal, setAside, setAsideProfile, listed, mine>>
      /\ authority' = authority
  BY <1>2, <1>4 DEF RestoreAuthority
<1>6. /\ pc' = [pc EXCEPT ![w] = pc'[w]]
      /\ pc'[w] = IF e.previous = None THEN "close" ELSE "restoreMarker"
  BY <1>2 DEF RestoreAuthority, Goto, IInv, TypeOK
<1>7. Undoable(e)'
  BY <1>2, <1>5 DEF Undoable, InForce, Latest, GrantOf, Cleared, Superseded, Marks, Marked, Accepts
<1>8. e.previous = None => Marks(e.restore, e.previous)
  BY <1>4 DEF Cleared, Marks
<1>9. Stage(w)'
  BY <1>2, <1>4, <1>5, <1>6, <1>8 DEF Stage, IInv, TypeOK, Pending, Undoing, Planned, Activating, Cleared, Superseded, Marks, Marked
<1> QED
  BY <1>1, <1>2, <1>3, <1>5, <1>6, <1>7, <1>9, FilesStep DEF Reconciling

\* The predecessor's marker comes back from where it was put aside, or was never moved.
LEMMA RestoreMarkerOrderly ==
  ASSUME IInv, Orderly, NEW w \in Watcher, RestoreMarker(w)
  PROVE  Orderly'
<1>1. pc[w] = "restoreMarker"
  BY DEF RestoreMarker
<1>2. PICK e \in Pending : mine[w] = e /\ Undoable(e)
  BY <1>1, InHandOrderly DEF Undoing
<1>3. Busy(w) /\ Stage(w)
  BY <1>1, InHandOrderly DEF Undoing
<1>4. /\ authority = e.restore /\ (Cleared(e) => Marked = {})
      /\ e.previous \in Session /\ e.restore \in Grant \cup {NoGrant}
  BY <1>1, <1>2, <1>3, PendingTypes DEF Stage, Undoing, IInv, InHand
<1>5. UNCHANGED <<profile, authority, journal, setAsideProfile, listed, mine>>
  BY DEF RestoreMarker
<1>6. CASE Superseded(e)
  <2>1. PICK m \in setAside :
          /\ m.key = <<e.epoch, e.previous>>
          /\ marker' = [marker EXCEPT ![e.previous] = m.generation]
          /\ setAside' = setAside \ {m}
          /\ pc' = [pc EXCEPT ![w] = "restoreProfile"]
    BY <1>2, <1>6 DEF RestoreMarker, Goto
  <2>2. m.generation = e.restore.generation /\ m.generation \in Watcher
    BY <1>2, <2>1 DEF Undoable, IInv, TypeOK
  <2>3. \A n \in setAside : n.key = m.key /\ n.generation = m.generation => n = m
    BY DEF IInv, TypeOK
  <2>4. ~Cleared(e)'
    BY <1>2, <1>4, <2>1, <2>2, <2>3 DEF Cleared, Superseded, Undoable
  <2>5. Marked' = {e.previous} /\ marker'[e.previous] = e.restore.generation
    BY <1>4, <1>6, <2>1, <2>2 DEF Cleared, Marked, IInv, TypeOK
  <2>6. Marks(e.restore, e.previous)'
    BY <1>4, <2>5 DEF Marks
  <2>7. Undoable(e)'
    BY <1>2, <1>4, <1>5, <2>1, <2>4, <2>6 DEF Undoable, InForce, Latest, GrantOf
  <2>8. pc'[w] = "restoreProfile" /\ pc' = [pc EXCEPT ![w] = pc'[w]]
    BY <2>1 DEF IInv, TypeOK
  <2>9. Stage(w)'
    BY <1>2, <1>4, <1>5, <2>4, <2>8 DEF Stage, Pending, Undoing, Planned, Activating
  <2> QED
    BY <1>1, <1>2, <1>3, <1>5, <2>7, <2>8, <2>9, FilesStep DEF Reconciling
<1>7. CASE ~Superseded(e)
  <2>1. ~Cleared(e) /\ Marks(e.restore, e.previous)
    BY <1>2, <1>4, <1>7 DEF Cleared, Undoable
  <2>2. marker[e.previous] # None
    BY <1>4, <2>1 DEF Marks, Marked
  <2>3. UNCHANGED <<marker, setAside>> /\ pc' = [pc EXCEPT ![w] = "close"]
    BY <1>2, <1>7, <2>2 DEF RestoreMarker, Superseded, Goto
  <2>4. pc'[w] = "close" /\ pc' = [pc EXCEPT ![w] = pc'[w]]
    BY <2>3 DEF IInv, TypeOK
  <2>5. Undoable(e)'
    BY <1>2, <1>5, <2>3 DEF Undoable, InForce, Latest, GrantOf, Cleared, Superseded, Marks, Marked, Accepts
  <2>6. Stage(w)'
    BY <1>2, <1>4, <1>5, <2>1, <2>3, <2>4 DEF Stage, Pending, Undoing, Planned, Activating, Marks, Marked
  <2> QED
    BY <1>1, <1>2, <1>3, <1>5, <2>4, <2>5, <2>6, FilesStep DEF Reconciling
<1> QED
  BY <1>6, <1>7

\* The marker has come back already; its profile follows.
LEMMA RestoreProfileOrderly ==
  ASSUME IInv, Orderly, NEW w \in Watcher, RestoreProfile(w)
  PROVE  Orderly'
<1>1. pc[w] = "restoreProfile"
  BY DEF RestoreProfile
<1>2. PICK e \in Pending : mine[w] = e /\ Undoable(e)
  BY <1>1, InHandOrderly DEF Undoing
<1>3. Busy(w) /\ Stage(w)
  BY <1>1, InHandOrderly DEF Undoing
<1>4. authority = e.restore /\ ~Cleared(e) /\ Marks(e.restore, e.previous)
  BY <1>1, <1>2, <1>3 DEF Stage, Undoing, Undoable
<1>5. /\ UNCHANGED <<marker, authority, journal, setAside, listed, mine>>
      /\ pc' = [pc EXCEPT ![w] = pc'[w]] /\ pc'[w] = "close"
  BY DEF RestoreProfile, Goto, IInv, TypeOK
<1>6. Undoable(e)'
  BY <1>2, <1>4, <1>5 DEF Undoable, InForce, Latest, GrantOf, Cleared, Superseded, Marks, Marked
<1>7. Stage(w)'
  BY <1>2, <1>4, <1>5 DEF Stage, Pending, Undoing, Planned, Activating, Marks, Marked
<1> QED
  BY <1>1, <1>2, <1>3, <1>5, <1>6, <1>7, FilesStep DEF Reconciling

\* The predecessor's marker is there, and is put aside.
LEMMA SupersedeOrderly ==
  ASSUME IInv, Orderly, NEW w \in Watcher, Supersede(w)
  PROVE  Orderly'
<1>1. pc[w] = "supersede"
  BY DEF Supersede
<1>2. PICK e \in Pending : mine[w] = e /\ Undoable(e)
  BY <1>1, InHandOrderly DEF Planned
<1>3. Busy(w) /\ Stage(w)
  BY <1>1, InHandOrderly DEF Planned
<1>4. authority = e.restore /\ ~Cleared(e) /\ e.generation = w
  BY <1>1, <1>2, <1>3 DEF Stage, Planned, Activating
<1>5. e.previous \in Session /\ Marked = {e.previous} /\ marker[e.previous] = e.restore.generation
  BY <1>2, <1>4, PendingTypes DEF Undoable, Marks, Cleared
<1>6. /\ UNCHANGED <<profile, authority, journal, setAsideProfile, listed, mine>>
      /\ setAside' = {m \in setAside : m.key # <<e.epoch, e.previous>>}
                       \cup {[key |-> <<e.epoch, e.previous>>, generation |-> marker[e.previous]]}
      /\ marker' = [marker EXCEPT ![e.previous] = None]
      /\ pc' = [pc EXCEPT ![w] = "supersedeProfile"]
  BY <1>2, <1>5 DEF Supersede, Goto, Marked
<1>7. pc'[w] = "supersedeProfile" /\ pc' = [pc EXCEPT ![w] = pc'[w]]
  BY <1>6 DEF IInv, TypeOK
<1>8. Cleared(e)'
  <2> DEFINE m == [key |-> <<e.epoch, e.previous>>, generation |-> marker[e.previous]]
  <2>1. m \in setAside' /\ m.key = <<e.epoch, e.previous>>
    BY <1>6
  <2> HIDE DEF m
  <2> QED
    BY <2>1 DEF Cleared, Superseded
<1>9. Marked' = {}
  BY <1>5, <1>6 DEF Marked, IInv, TypeOK
<1>10. \A m \in setAside' : m.key = <<e.epoch, e.previous>> => m.generation = e.restore.generation
  BY <1>5, <1>6
<1>11. Undoable(e)'
  BY <1>2, <1>4, <1>6, <1>8, <1>9, <1>10 DEF Undoable, InForce, Latest, GrantOf
<1>12. Stage(w)'
  BY <1>2, <1>4, <1>6, <1>7, <1>8, <1>9 DEF Stage, Pending, Undoing, Planned, Activating
<1> QED
  BY <1>1, <1>2, <1>3, <1>6, <1>7, <1>11, <1>12, FilesStep DEF Reconciling

\* The profile put aside is not one that counts any more.
LEMMA SupersedeProfileOrderly ==
  ASSUME IInv, Orderly, NEW w \in Watcher, SupersedeProfile(w)
  PROVE  Orderly'
<1>1. pc[w] = "supersedeProfile"
  BY DEF SupersedeProfile
<1>2. PICK e \in Pending : mine[w] = e /\ Undoable(e)
  BY <1>1, InHandOrderly DEF Planned
<1>3. Busy(w) /\ Stage(w)
  BY <1>1, InHandOrderly DEF Planned
<1>4. authority = e.restore /\ Cleared(e) /\ Marked = {} /\ e.generation = w
  BY <1>1, <1>2, <1>3 DEF Stage, Planned, Activating
<1>5. /\ UNCHANGED <<marker, authority, journal, setAside, listed, mine>>
      /\ pc' = [pc EXCEPT ![w] = pc'[w]] /\ pc'[w] = "mark"
  BY DEF SupersedeProfile, Goto, IInv, TypeOK
<1>6. Undoable(e)'
  BY <1>2, <1>4, <1>5 DEF Undoable, InForce, Latest, GrantOf, Cleared, Superseded, Marked
<1>7. Stage(w)'
  BY <1>2, <1>4, <1>5 DEF Stage, Pending, Undoing, Planned, Activating, Cleared, Superseded, Marked
<1> QED
  BY <1>1, <1>2, <1>3, <1>5, <1>6, <1>7, FilesStep DEF Reconciling

\* The watcher takes its predecessor's place: marker, profile and authority record.
LEMMA WriteMarkerOrderly ==
  ASSUME IInv, Orderly, NEW w \in Watcher, WriteMarker(w)
  PROVE  Orderly'
<1>1. pc[w] = "mark"
  BY DEF WriteMarker
<1>2. PICK e \in Pending : mine[w] = e /\ Undoable(e)
  BY <1>1, InHandOrderly DEF Planned
<1>3. Busy(w) /\ Stage(w)
  BY <1>1, InHandOrderly DEF Planned
<1>4. authority = e.restore /\ Cleared(e) /\ Marked = {} /\ e.generation = w
  BY <1>1, <1>2, <1>3 DEF Stage, Planned, Activating
<1>5. /\ UNCHANGED <<profile, authority, journal, setAside, listed, mine>>
      /\ marker' = [marker EXCEPT ![Of[w]] = w]
      /\ pc' = [pc EXCEPT ![w] = pc'[w]] /\ pc'[w] = "profile"
  BY DEF WriteMarker, Goto, IInv, TypeOK
<1>6. Marked' = {Of[w]} /\ marker'[Of[w]] = w
  BY <1>4, <1>5 DEF Marked, IInv, TypeOK
<1>7. Cleared(e)'
  BY <1>4, <1>5 DEF Cleared, Superseded
<1>8. Undoable(e)'
  BY <1>2, <1>4, <1>5, <1>6, <1>7 DEF Undoable, InForce, Latest, GrantOf
<1>9. Stage(w)'
  BY <1>2, <1>4, <1>5, <1>6, <1>7 DEF Stage, Pending, Undoing, Planned, Activating
<1> QED
  BY <1>1, <1>2, <1>3, <1>5, <1>8, <1>9, FilesStep DEF Reconciling

\* The new profile makes nothing accepted: the authority record is the predecessor's.
LEMMA WriteProfileOrderly ==
  ASSUME IInv, Orderly, NEW w \in Watcher, WriteProfile(w)
  PROVE  Orderly'
<1>1. pc[w] = "profile"
  BY DEF WriteProfile
<1>2. PICK e \in Pending : mine[w] = e /\ Undoable(e)
  BY <1>1, InHandOrderly DEF Planned
<1>3. Busy(w) /\ Stage(w)
  BY <1>1, InHandOrderly DEF Planned
<1>4. authority = e.restore /\ Cleared(e) /\ marker[Of[w]] = w /\ e.generation = w
  BY <1>1, <1>2, <1>3 DEF Stage, Planned, Activating
<1>5. /\ UNCHANGED <<marker, authority, journal, setAside, listed, mine>>
      /\ profile'[Of[w]] = Granted(w)
      /\ pc' = [pc EXCEPT ![w] = pc'[w]] /\ pc'[w] = "authorize"
  BY DEF WriteProfile, Goto, IInv, TypeOK
<1>6. Undoable(e)'
  BY <1>2, <1>4, <1>5 DEF Undoable, InForce, Latest, GrantOf, Cleared, Superseded, Marked
<1>7. Stage(w)'
  BY <1>2, <1>4, <1>5 DEF Stage, Pending, Undoing, Planned, Activating, Cleared, Superseded, Marked, Granted
<1> QED
  BY <1>1, <1>2, <1>3, <1>5, <1>6, <1>7, FilesStep DEF Reconciling

\* The authority record is the last of the three files, and puts the activation in effect.
LEMMA WriteAuthorityOrderly ==
  ASSUME IInv, Orderly, NEW w \in Watcher, WriteAuthority(w)
  PROVE  Orderly'
<1>1. pc[w] = "authorize"
  BY DEF WriteAuthority
<1>2. PICK e \in Pending : mine[w] = e /\ Undoable(e)
  BY <1>1, InHandOrderly DEF Planned
<1>3. Busy(w) /\ Stage(w)
  BY <1>1, InHandOrderly DEF Planned
<1>4. /\ Cleared(e) /\ marker[Of[w]] = w /\ e.generation = w
      /\ profile[Of[w]] = Granted(w) /\ Granted(w) = GrantOf(e)
  BY <1>1, <1>2, <1>3 DEF Stage, Planned, Activating, Granted, GrantOf
<1>5. /\ UNCHANGED <<marker, profile, journal, setAside, listed, mine>>
      /\ authority' = GrantOf(e)
      /\ pc' = [pc EXCEPT ![w] = pc'[w]] /\ pc'[w] = "commit"
  BY <1>4 DEF WriteAuthority, Goto, IInv, TypeOK
<1>6. Marked = {Of[w]}
  BY <1>2, <1>4 DEF Undoable, Marked
<1>7. Accepts(GrantOf(e))'
  BY <1>4, <1>5, <1>6 DEF Accepts, Marked, GrantOf
<1>8. Undoable(e)'
  BY <1>2, <1>4, <1>5, <1>7 DEF Undoable, InForce, Latest, GrantOf, Cleared, Superseded, Marked
<1>9. Stage(w)'
  BY <1>2, <1>4, <1>5, <1>7 DEF Stage, Pending, Undoing, Planned, Activating
<1> QED
  BY <1>1, <1>2, <1>3, <1>5, <1>8, <1>9, FilesStep DEF Reconciling

\* Writing the entry in hand again, in another state, replaces it.
LEMMA WriteReplaces ==
  ASSUME IInv, Orderly, NEW e \in Pending, NEW s \in {"active", "rolled_back"},
         Write([e EXCEPT !.state = s])
  PROVE  /\ journal' = (journal \ {e}) \cup {[e EXCEPT !.state = s]}
         /\ Pending' = {} /\ Distinct'
<1> DEFINE f == [e EXCEPT !.state = s]
<1>1. /\ f.epoch = e.epoch /\ f.generation = e.generation /\ f.state = s
      /\ f.previous = e.previous /\ f.restore = e.restore
  BY PendingTypes DEF Entry
<1>2. Key(f) = Key(e)
  BY <1>1 DEF Key
<1>3. \A d \in journal : Key(d) = Key(e) <=> d = e
  BY DEF IInv, TypeOK, Pending
<1>4. journal' = (journal \ {e}) \cup {f}
  BY <1>2, <1>3 DEF Write
<1>5. Pending' = {}
  BY <1>1, <1>4, OnePending DEF Pending
<1>6. Distinct'
  <2> HIDE DEF f
  <2> QED
    BY <1>1, <1>4 DEF Orderly, Distinct, Pending
<1> QED
  BY <1>4, <1>5, <1>6

\* The entry in hand takes effect, by its own watcher or by adoption.
LEMMA TakesEffect ==
  ASSUME IInv, Orderly, NEW e \in Pending, Undoable(e), Accepts(GrantOf(e)),
         UNCHANGED <<marker, authority>>, Write([e EXCEPT !.state = "active"])
  PROVE  AtRest' /\ Pending' = {} /\ Distinct'
<1> DEFINE f == [e EXCEPT !.state = "active"]
<1>1. f.epoch = e.epoch /\ f.generation = e.generation /\ f.state = "active"
  BY PendingTypes DEF Entry
<1>2. journal' = (journal \ {e}) \cup {f} /\ Pending' = {} /\ Distinct'
  BY WriteReplaces
<1>3. e.epoch \in Nat /\ \A d \in journal : d.epoch \in Nat
  BY DEF IInv, TypeOK, Entry, Pending
<1>4. \A d \in journal' : d.epoch <= f.epoch
  <2> HIDE DEF f
  <2> QED
    BY <1>1, <1>2, <1>3 DEF Undoable
<1>5. authority' = GrantOf(e) /\ GrantOf(f) = GrantOf(e)
  BY <1>1 DEF Accepts, GrantOf
<1>6. InForce(GrantOf(e), Of[e.generation])'
  <2>1. f \in journal' /\ Latest(f)'
    BY <1>1, <1>2, <1>4 DEF Latest
  <2> HIDE DEF f
  <2> QED
    BY <1>1, <1>5, <2>1 DEF InForce
<1>7. Of[e.generation] \in Session /\ e.generation \in Watcher
  BY PendingTypes
<1>8. Marks(GrantOf(e), Of[e.generation])'
  BY <1>5, <1>7 DEF Accepts, GrantOf, Marks, Marked
<1> QED
  BY <1>2, <1>5, <1>6, <1>7, <1>8 DEF AtRest

\* The watcher settles its own entry, which has taken effect.
LEMMA CommitOrderly ==
  ASSUME IInv, Orderly, NEW w \in Watcher, Commit(w)
  PROVE  Orderly'
<1>1. pc[w] = "commit"
  BY DEF Commit
<1>2. PICK e \in Pending : mine[w] = e /\ Undoable(e)
  BY <1>1, InHandOrderly
<1>3. Busy(w) /\ Accepts(GrantOf(e))
  BY <1>1, <1>2, InHandOrderly DEF Stage
<1>4. /\ UNCHANGED <<marker, authority, listed, mine>> /\ Write([e EXCEPT !.state = "active"])
      /\ pc' = [pc EXCEPT ![w] = pc'[w]] /\ pc'[w] = "active"
  BY <1>2 DEF Commit, Goto, IInv, TypeOK
<1>5. AtRest' /\ Pending' = {} /\ Distinct'
  BY <1>2, <1>3, <1>4, TakesEffect
<1>6. Stage(w)'
  BY <1>4 DEF Stage, Undoing, Planned, Activating
<1> QED
  BY <1>3, <1>4, <1>5, <1>6, OthersRest DEF Orderly, Listed

\* An entry is closed: adopted, or rolled back with everything as its predecessor had left it.
LEMMA CloseOrderly ==
  ASSUME IInv, Orderly, NEW w \in Watcher, Close(w)
  PROVE  Orderly'
<1>1. pc[w] \in {"adopt", "close"}
  BY DEF Close
<1>2. PICK e \in Pending : mine[w] = e /\ Undoable(e)
  BY <1>1, InHandOrderly DEF Undoing
<1>3. Busy(w) /\ Stage(w)
  BY <1>1, InHandOrderly DEF Undoing
<1>4. /\ UNCHANGED <<marker, authority>>
      /\ pc' = [pc EXCEPT ![w] = pc'[w]] /\ pc'[w] = "reconcile"
  BY DEF Close, Goto, IInv, TypeOK
<1>5. AtRest' /\ Pending' = {} /\ Distinct'
  <2>1. CASE pc[w] = "adopt"
    <3>1. Accepts(GrantOf(e)) /\ Write([e EXCEPT !.state = "active"])
      BY <1>2, <1>3, <2>1 DEF Stage, Close
    <3> QED
      BY <1>2, <1>4, <3>1, TakesEffect
  <2>2. CASE pc[w] = "close"
    <3> DEFINE f == [e EXCEPT !.state = "rolled_back"]
    <3>1. Write(f) /\ authority = e.restore /\ Marks(e.restore, e.previous)
      BY <1>2, <1>3, <2>2 DEF Stage, Close, Undoing
    <3>2. journal' = (journal \ {e}) \cup {f} /\ Pending' = {} /\ Distinct'
      BY <3>1, WriteReplaces
    <3>3. f.state = "rolled_back" /\ e.state = "planned"
      BY PendingTypes DEF Entry
    <3>4. InForce(e.restore, e.previous)'
      <4> HIDE DEF f
      <4> QED
        BY <1>2, <3>2, <3>3 DEF Undoable, InForce, Latest, GrantOf
    <3>5. Marks(e.restore, e.previous)' /\ authority' = e.restore
      BY <1>4, <3>1 DEF Marks, Marked
    <3>6. e.previous \in Session \cup {None}
      BY PendingTypes
    <3> QED
      BY <3>2, <3>4, <3>5, <3>6 DEF AtRest
  <2> QED
    BY <1>1, <2>1, <2>2
<1>6. Stage(w)'
  BY <1>4 DEF Stage, Undoing, Planned, Activating
<1> QED
  BY <1>3, <1>4, <1>5, <1>6, OthersRest DEF Orderly, Listed

\* A step that changes no file keeps what is said of files alone.
LEMMA FilesRest ==
  ASSUME Orderly, UNCHANGED files
  PROVE  /\ Distinct' /\ Pending' = Pending /\ (Pending' = {} => AtRest')
         /\ \A e \in Pending' : Undoable(e)'
<1>1. Distinct' /\ Pending' = Pending
  BY DEF files, Orderly, Distinct, Pending
<1>2. Pending' = {} => AtRest'
  BY <1>1 DEF files, Orderly, AtRest, InForce, Latest, Marks, Marked
<1>3. ASSUME NEW e \in Pending PROVE Undoable(e)'
  <2>1. Undoable(e) /\ UNCHANGED <<marker, profile, authority, journal, setAside>>
    BY DEF Orderly, files
  <2>2. InForce(e.restore, e.previous)' /\ (Marks(e.restore, e.previous) => Marks(e.restore, e.previous)')
    BY <2>1 DEF Undoable, InForce, Latest, GrantOf, Marks, Marked
  <2>3. Cleared(e)' = Cleared(e) /\ Accepts(GrantOf(e))' = Accepts(GrantOf(e)) /\ Marked' = Marked
    BY <2>1 DEF Cleared, Superseded, Accepts, Marked, GrantOf
  <2> QED
    BY <2>1, <2>2, <2>3 DEF Undoable
<1> QED
  BY <1>1, <1>2, <1>3

\* A watcher starts when nobody is at work, and will come across every planned entry.
LEMMA StartOrderly ==
  ASSUME IInv, Orderly, NEW w \in Watcher, Start(w), apart'
  PROVE  Orderly'
<1>1. \A v \in Watcher : ~Busy(v)
  BY DEF Start
<1>2. /\ UNCHANGED files /\ pc' = [pc EXCEPT ![w] = "reconcile"]
      /\ listed' = [listed EXCEPT ![w] = {Key(e) : e \in journal}]
  BY DEF Start, Goto
<1>3. Solo' /\ \A v \in Watcher : pc'[v] \notin {"denied", "failed"}
  BY <1>1, <1>2 DEF Solo, Busy, Orderly, IInv, TypeOK
<1>4. /\ Distinct' /\ Pending' = Pending /\ (Pending' = {} => AtRest')
      /\ \A e \in Pending' : Undoable(e)'
  BY <1>2, FilesRest
<1>5. Listed'
  <2>1. \A e \in Pending : Key(e) \in {Key(d) : d \in journal}
    BY DEF Pending
  <2>2. \A v \in Watcher : pc'[v] \in Reconciling => v = w
    BY <1>1, <1>2 DEF Busy, IInv, TypeOK
  <2>3. listed'[w] = {Key(e) : e \in journal}
    BY <1>2 DEF IInv, TypeOK
  <2>4. \A e : Key(e)' = Key(e)
    BY DEF Key
  <2> QED
    BY <1>4, <2>1, <2>2, <2>3, <2>4 DEF Listed
<1>6. \A v \in Watcher : Stage(v)'
  <2>1. \A v \in Watcher : pc'[v] = "reconcile" \/ pc'[v] \notin Reconciling \cup Activating
    BY <1>1, <1>2 DEF Busy, IInv, TypeOK
  <2> QED
    BY <2>1 DEF Stage, Undoing, Planned, Activating, Reconciling
<1> QED
  BY <1>3, <1>4, <1>5, <1>6 DEF Orderly

\* What is read is settled already, or is the planned entry; if that one is not in effect, the
\* authority record is still that of its predecessor.
LEMMA ReadEntryOrderly ==
  ASSUME IInv, Orderly, NEW w \in Watcher, ReadEntry(w)
  PROVE  Orderly'
<1>1. pc[w] = "reconcile" /\ Busy(w) /\ UNCHANGED files
  BY DEF ReadEntry, Busy, Reconciling
<1>2. /\ Distinct' /\ Pending' = Pending /\ (Pending' = {} => AtRest')
      /\ \A e \in Pending' : Undoable(e)'
  BY <1>1, FilesRest
<1>3. PICK e \in journal :
        \/ /\ e.state # "planned"
           /\ listed' = [listed EXCEPT ![w] = @ \ {Key(e)}]
           /\ UNCHANGED <<pc, mine>>
        \/ /\ e.state = "planned" /\ mine' = [mine EXCEPT ![w] = e]
           /\ pc' = [pc EXCEPT ![w] = IF Accepts(GrantOf(e)) THEN "adopt"
                                      ELSE IF OwnFilesToGo(e) THEN "removeMarker"
                                      ELSE "restoreAuthority"]
           /\ UNCHANGED listed
  BY DEF ReadEntry, Keep, Goto, GrantOf
<1>4. \A d : Key(d)' = Key(d)
  BY DEF Key
<1>5. CASE /\ e.state # "planned" /\ listed' = [listed EXCEPT ![w] = @ \ {Key(e)}]
           /\ UNCHANGED <<pc, mine>>
  <2>1. \A d \in Pending : Key(d) # Key(e)
    BY <1>5 DEF IInv, TypeOK, Pending
  <2>2. Listed'
    BY <1>2, <1>4, <1>5, <2>1 DEF Orderly, Listed, IInv, TypeOK
  <2>3. pc'[w] = "reconcile" /\ pc' = [pc EXCEPT ![w] = pc'[w]]
    BY <1>1, <1>5 DEF IInv, TypeOK
  <2>4. Stage(w)'
    BY <2>3 DEF Stage, Undoing, Planned, Activating
  <2> QED
    BY <1>1, <1>2, <2>2, <2>3, <2>4, OthersRest DEF Orderly
<1>6. CASE /\ e.state = "planned" /\ mine' = [mine EXCEPT ![w] = e]
           /\ pc' = [pc EXCEPT ![w] = IF Accepts(GrantOf(e)) THEN "adopt"
                                      ELSE IF OwnFilesToGo(e) THEN "removeMarker"
                                      ELSE "restoreAuthority"]
           /\ UNCHANGED listed
  <2>1. mine'[w] = e /\ e \in Pending /\ e \in Pending' /\ Undoable(e)
    BY <1>2, <1>6 DEF IInv, TypeOK, Orderly, Pending
  <2>2. /\ pc' = [pc EXCEPT ![w] = pc'[w]]
        /\ pc'[w] = IF Accepts(GrantOf(e)) THEN "adopt"
                     ELSE IF OwnFilesToGo(e) THEN "removeMarker" ELSE "restoreAuthority"
    BY <1>6 DEF IInv, TypeOK
  <2>3. Listed'
    BY <1>1, <1>2, <1>4, <1>6 DEF Orderly, Listed, IInv, TypeOK, Reconciling
  <2>4. /\ Accepts(GrantOf(e))' = Accepts(GrantOf(e)) /\ Cleared(e)' = Cleared(e)
        /\ OwnFilesToGo(e)' = OwnFilesToGo(e) /\ authority' = authority
    BY <1>1 DEF files, Accepts, Marked, Cleared, OwnFilesToGo, Superseded, GrantOf
  <2>5. ~OwnFilesToGo(e) => ~Cleared(e)
    BY DEF OwnFilesToGo, Cleared
  <2>6. ~Accepts(GrantOf(e)) => authority = e.restore
    BY <2>1 DEF Undoable
  <2>7. Stage(w)'
    <3>1. CASE pc'[w] = "adopt"
      BY <2>1, <2>2, <2>4, <3>1
         DEF Stage, Undoing, Planned, Activating, Accepts, Marked, GrantOf
    <3>2. CASE pc'[w] = "removeMarker"
      BY <2>1, <2>2, <2>4, <2>6, <3>2
         DEF Stage, Undoing, Planned, Activating, OwnFilesToGo, Superseded
    <3>3. CASE pc'[w] = "restoreAuthority"
      BY <2>1, <2>2, <2>4, <2>5, <2>6, <3>3
         DEF Stage, Undoing, Planned, Activating, Cleared, Superseded
    <3> QED
      BY <2>2, <3>1, <3>2, <3>3
  <2> QED
    BY <1>1, <1>2, <2>2, <2>3, <2>7, OthersRest DEF Orderly
<1> QED
  BY <1>3, <1>5, <1>6

\* With nothing left to reconcile, nothing is planned.
LEMMA ReconciledOrderly ==
  ASSUME IInv, Orderly, NEW w \in Watcher, Reconciled(w)
  PROVE  Orderly'
<1>1. /\ pc[w] = "reconcile" /\ Busy(w) /\ UNCHANGED files /\ UNCHANGED <<listed, mine>>
      /\ pc' = [pc EXCEPT ![w] = pc'[w]] /\ pc'[w] = "scan"
  BY DEF Reconciled, Busy, Reconciling, Goto, IInv, TypeOK
<1>2. /\ Distinct' /\ Pending' = Pending /\ (Pending' = {} => AtRest')
      /\ \A e \in Pending' : Undoable(e)'
  BY <1>1, FilesRest
<1>3. Pending = {}
  BY <1>1 DEF Reconciled, Orderly, Listed, Reconciling
<1>4. Stage(w)'
  BY <1>1, <1>2, <1>3 DEF Stage, Undoing, Planned, Activating
<1>5. Listed'
  BY <1>2, <1>3 DEF Listed
<1> QED
  BY <1>1, <1>2, <1>4, <1>5, OthersRest DEF Orderly

\* At rest there is at most one marker, and its grant is the one to be superseded.
LEMMA ScanOrderly ==
  ASSUME IInv, Orderly, NEW w \in Watcher, Scan(w)
  PROVE  Orderly'
<1>1. pc[w] = "scan" /\ Busy(w) /\ UNCHANGED files /\ UNCHANGED listed
  BY DEF Scan, Busy, Activating
<1>2. /\ Distinct' /\ Pending' = Pending /\ (Pending' = {} => AtRest')
      /\ \A e \in Pending' : Undoable(e)'
  BY <1>1, FilesRest
<1>3. Pending = {} /\ AtRest
  BY <1>1 DEF Orderly, Stage
<1>4. PICK s \in Session \cup {None} : InForce(authority, s) /\ Marks(authority, s)
  BY <1>3 DEF AtRest
<1>5. Cardinality(Marked) \in {0, 1}
  BY <1>4, FS_EmptySet, FS_Singleton DEF Marks
<1>6. /\ pc' = [pc EXCEPT ![w] = "plan"]
      /\ mine' = [mine EXCEPT ![w] =
                    [state |-> "planned", generation |-> w, epoch |-> NextEpoch,
                     previous |-> s, restore |-> authority]]
  BY <1>4, <1>5 DEF Scan, Goto, Keep, Marks
<1>7. \A d \in journal : d.epoch < NextEpoch
  BY NextEpochType DEF IInv
<1>8. PICK e : e = [state |-> "planned", generation |-> w, epoch |-> NextEpoch,
                    previous |-> s, restore |-> authority]
  OBVIOUS
<1>9. mine'[w] = e /\ pc'[w] = "plan" /\ pc' = [pc EXCEPT ![w] = pc'[w]]
  BY <1>6, <1>8 DEF IInv, TypeOK
<1>10. /\ e.state = "planned" /\ e.generation = w /\ e.restore = authority /\ e.previous = s
       /\ \A d \in journal : d.epoch < e.epoch
  BY <1>7, <1>8
<1>11. InForce(e.restore, s)' /\ Marks(e.restore, s)' /\ UNCHANGED <<authority, journal>>
  BY <1>1, <1>4, <1>10 DEF files, InForce, Latest, GrantOf, Marks, Marked
<1>12. Stage(w)'
  BY <1>2, <1>3, <1>9, <1>10, <1>11 DEF Stage, Undoing, Planned, Activating
<1>13. Listed'
  BY <1>2, <1>3 DEF Listed
<1> QED
  BY <1>1, <1>2, <1>9, <1>12, <1>13, OthersRest DEF Orderly

\* The entry is planned under an epoch that no file names yet.
LEMMA PlanOrderly ==
  ASSUME IInv, AsideKnown, Orderly, NEW w \in Watcher, Plan(w)
  PROVE  Orderly'
<1>1. pc[w] = "plan" /\ Busy(w)
  BY DEF Plan, Busy, Activating
<1>2. Stage(w) /\ mine[w] \in Entry
  BY <1>1, HandTypes DEF Orderly, Activating
<1>3. PICK e \in Entry : mine[w] = e
  BY <1>2
<1>4. /\ Pending = {} /\ e.state = "planned" /\ e.generation = w /\ e.restore = authority
      /\ InForce(authority, e.previous) /\ Marks(authority, e.previous)
      /\ \A d \in journal : d.epoch < e.epoch
  BY <1>1, <1>2, <1>3 DEF Stage, Activating
<1>5. /\ Write(e) /\ UNCHANGED <<marker, profile, authority, setAside, listed, mine>>
      /\ pc' = [pc EXCEPT ![w] = pc'[w]]
      /\ pc'[w] = IF e.previous = None THEN "mark" ELSE "supersede"
  BY <1>3 DEF Plan, Goto, IInv, TypeOK
<1>6. e.epoch \in Nat \ {0} /\ \A d \in journal : d.epoch \in Nat
  BY <1>3 DEF Entry, IInv, TypeOK
<1>7. journal' = journal \cup {e} /\ e \notin journal
  <2>1. \A d \in journal : Key(d) # Key(e)
    BY <1>4, <1>6 DEF Key
  <2> QED
    BY <1>4, <1>5, <1>6, <2>1 DEF Write
<1>8. Pending' = {e}
  BY <1>4, <1>7 DEF Pending
<1>9. Distinct'
  BY <1>4, <1>6, <1>7 DEF Orderly, Distinct
<1>10. \A m \in setAside : m.key # <<e.epoch, e.previous>>
  <2>1. e.epoch \notin Used
    BY <1>4, <1>6 DEF Used
  <2> QED
    BY <2>1 DEF AsideKnown
<1>11. Cleared(e)' <=> e.previous = None
  BY <1>5, <1>10 DEF Cleared, Superseded
<1>12. Marks(e.restore, e.previous)' /\ authority' = e.restore
  BY <1>4, <1>5 DEF Marks, Marked
<1>13. e.previous = None => Marked' = {}
  BY <1>4, <1>5 DEF Marks, Marked
<1>14. InForce(e.restore, e.previous)'
  BY <1>4, <1>7 DEF InForce, Latest, GrantOf
<1>15. Undoable(e)'
  BY <1>4, <1>5, <1>7, <1>10, <1>11, <1>12, <1>13, <1>14 DEF Undoable
<1>16. Stage(w)'
  BY <1>3, <1>4, <1>5, <1>8, <1>11, <1>12, <1>13 DEF Stage, Undoing, Planned, Activating, Cleared, Superseded, Marked
<1>17. Listed'
  BY <1>1, <1>5 DEF Orderly, Solo, Listed, Busy, Reconciling, IInv, TypeOK
<1> QED
  BY <1>1, <1>5, <1>8, <1>9, <1>15, <1>16, <1>17, OthersRest DEF Orderly

\* A watcher dies with its entry planned or settled, as the files say.
LEMMA CrashOrderly ==
  ASSUME IInv, Orderly, NEW w \in Watcher, Crash(w)
  PROVE  Orderly'
<1>1. /\ Busy(w) /\ UNCHANGED files
      /\ pc' = [pc EXCEPT ![w] = pc'[w]] /\ pc'[w] = "crashed"
  BY DEF Crash, Goto, Busy, IInv, TypeOK
<1>2. /\ Distinct' /\ Pending' = Pending /\ (Pending' = {} => AtRest')
      /\ \A e \in Pending' : Undoable(e)'
  BY <1>1, FilesRest
<1>3. Stage(w)'
  BY <1>1 DEF Stage, Undoing, Planned, Activating
<1>4. Listed'
  <2>1. \A v \in Watcher : pc'[v] \notin Reconciling
    BY <1>1 DEF Orderly, Solo, Busy, Reconciling, IInv, TypeOK
  <2> QED
    BY <2>1 DEF Listed
<1> QED
  BY <1>1, <1>2, <1>3, <1>4, OthersRest DEF Orderly

\* Markers are put aside under epochs of the journal, which never loses one.
LEMMA AsideStep ==
  ASSUME IInv, AsideKnown, NEW w \in Watcher, Step(w) \/ Crash(w)
  PROVE  AsideKnown'
<1>1. Used \subseteq Used'
  <2>1. CASE journal' = journal
    BY <2>1 DEF Used
  <2>2. CASE Close(w) \/ Plan(w) \/ Commit(w)
    <3>1. PICK s \in {"planned", "active", "rolled_back"} : Write([mine[w] EXCEPT !.state = s])
      <4>1. CASE Plan(w)
        <5>1. mine[w] \in Entry /\ Write(mine[w])
          BY <4>1, HandTypes DEF Plan, Activating
        <5>2. [mine[w] EXCEPT !.state = mine[w].state] = mine[w]
          BY <5>1 DEF Entry
        <5> QED
          BY <5>1, <5>2 DEF Entry
      <4> QED
        BY <2>2, <4>1 DEF Close, Commit
    <3>2. mine[w] \in Entry
      BY <2>2, HandTypes DEF Close, Plan, Commit, Reconciling, Activating
    <3>3. [mine[w] EXCEPT !.state = s] \in Entry
      BY <3>2 DEF Entry
    <3> QED
      BY <3>1, <3>3, WriteKeeps DEF IInv
  <2> QED
    BY <2>1, <2>2 DEF Step, Crash, Start, ReadEntry, RemoveMarker, RemoveProfile, RestoreAuthority,
                      RestoreMarker, RestoreProfile, Reconciled, Scan, Supersede,
                      SupersedeProfile, WriteMarker, WriteProfile, WriteAuthority, files
<1>2. CASE setAside' \subseteq setAside
  BY <1>1, <1>2 DEF AsideKnown
<1>3. CASE Supersede(w)
  <2>1. mine[w].epoch \in Used
    BY <1>3 DEF Supersede, IInv, EpochsKnown, Planned
  <2>2. \A m \in setAside' : m \in setAside \/ m.key[1] = mine[w].epoch
    BY <1>3 DEF Supersede
  <2> QED
    BY <1>1, <2>1, <2>2 DEF AsideKnown
<1> QED
  BY <1>2, <1>3 DEF Step, Crash, Start, ReadEntry, Close, RemoveMarker, RemoveProfile, RestoreAuthority,
                    RestoreMarker, RestoreProfile, Reconciled, Scan, Plan,
                    SupersedeProfile, WriteMarker, WriteProfile, WriteAuthority, Commit, files

\* No step of one activation at a time spoils the order.
LEMMA OrderlyStep ==
  ASSUME RecoveryInv, NEW w \in Watcher, Step(w) \/ Crash(w)
  PROVE  (apart => Orderly)'
<1>1. apart' => apart
  BY DEF Step, Crash, Start, ReadEntry, Close, RemoveMarker, RemoveProfile, RestoreAuthority,
         RestoreMarker, RestoreProfile, Reconciled, Scan, Plan, Supersede, SupersedeProfile,
         WriteMarker, WriteProfile, WriteAuthority, Commit, RecoveryInv, IInv, TypeOK
<1> SUFFICES ASSUME apart' PROVE Orderly'
  OBVIOUS
<1>2. IInv /\ AsideKnown /\ Orderly
  BY <1>1 DEF RecoveryInv
<1>3. CASE Start(w) \/ ReadEntry(w) \/ Close(w)
  BY <1>2, <1>3, StartOrderly, ReadEntryOrderly, CloseOrderly
<1>4. CASE RemoveMarker(w) \/ RemoveProfile(w) \/ RestoreAuthority(w)
  BY <1>2, <1>4, RemoveMarkerOrderly, RemoveProfileOrderly, RestoreAuthorityOrderly
<1>5. CASE RestoreMarker(w) \/ RestoreProfile(w)
  BY <1>2, <1>5, RestoreMarkerOrderly, RestoreProfileOrderly
<1>6. CASE Reconciled(w) \/ Scan(w) \/ Plan(w)
  BY <1>2, <1>6, ReconciledOrderly, ScanOrderly, PlanOrderly
<1>7. CASE Supersede(w) \/ SupersedeProfile(w)
  BY <1>2, <1>7, SupersedeOrderly, SupersedeProfileOrderly
<1>8. CASE WriteMarker(w) \/ WriteProfile(w) \/ WriteAuthority(w) \/ Commit(w)
  BY <1>2, <1>8, WriteMarkerOrderly, WriteProfileOrderly, WriteAuthorityOrderly, CommitOrderly
<1>9. CASE Crash(w)
  BY <1>2, <1>9, CrashOrderly
<1> QED
  BY <1>3, <1>4, <1>5, <1>6, <1>7, <1>8, <1>9 DEF Step

\* Nothing is planned at first, and nobody is at work.
LEMMA InitOrderly == Init => RecoveryInv
<1> SUFFICES ASSUME Init PROVE RecoveryInv
  OBVIOUS
<1>1. IInv
  BY InitOK
<1>2. /\ \A w \in Watcher : pc[w] = "idle" 
      /\ journal = {} /\ setAside = {} /\ authority = NoGrant /\ Marked = {}
  BY DEF Init, Marked
<1>3. AtRest
  BY <1>2 DEF AtRest, InForce, Marks
<1>4. \A w \in Watcher : Stage(w) /\ pc[w] \notin {"denied", "failed"}
  BY <1>2 DEF Stage, Undoing, Planned, Activating
<1>5. Solo /\ Listed
  BY <1>2 DEF Solo, Listed, Busy, Reconciling, Activating
<1>6. Pending = {} /\ Distinct /\ AsideKnown
  BY <1>2 DEF Pending, Distinct, AsideKnown
<1> QED
  BY <1>1, <1>3, <1>4, <1>5, <1>6 DEF RecoveryInv, Orderly

\* Stuttering changes nothing that is said of the state.
LEMMA OrderlyStutters ==
  ASSUME RecoveryInv, UNCHANGED vars
  PROVE  (AsideKnown /\ (apart => Orderly))'
<1>1. UNCHANGED files /\ UNCHANGED <<pc, listed, mine, apart>>
  BY DEF vars
<1>2. AsideKnown'
  BY <1>1 DEF files, RecoveryInv, AsideKnown, Used
<1>3. ASSUME apart PROVE Orderly'
  <2>1. Orderly
    BY <1>3 DEF RecoveryInv
  <2>2. /\ Distinct' /\ Pending' = Pending /\ (Pending' = {} => AtRest')
        /\ \A e \in Pending' : Undoable(e)'
    BY <1>1, <2>1, FilesRest
  <2>3. \A d : Key(d)' = Key(d)
    BY DEF Key
  <2>4. Solo' /\ Listed'
    BY <1>1, <2>1, <2>2, <2>3 DEF Orderly, Solo, Listed, Busy
  <2>5. ASSUME NEW w \in Watcher PROVE Stage(w)'
    <3>1. Stage(w)
      BY <2>1 DEF Orderly
    <3> QED
      BY <1>1, <3>1 DEF files, Stage, Pending, InForce, Latest, Marks, Marked, Accepts, OwnFilesToGo,
                        Superseded, Cleared, GrantOf, Granted
  <2> QED
    BY <1>1, <2>1, <2>2, <2>4, <2>5 DEF Orderly
<1> QED
  BY <1>1, <1>2, <1>3

\* The recovery invariant holds of every state.
LEMMA RecoveryHolds == Spec => []RecoveryInv
<1>1. RecoveryInv /\ [Next]_vars => RecoveryInv'
  <2> SUFFICES ASSUME RecoveryInv, [Next]_vars PROVE RecoveryInv'
    OBVIOUS
  <2>1. ASSUME NEW w \in Watcher, Step(w) \/ Crash(w) PROVE RecoveryInv'
    BY <2>1, TypesStep, HandStep, EpochStep, AsideStep, OrderlyStep DEF RecoveryInv, IInv
  <2>2. CASE UNCHANGED vars
    <3>1. IInv'
      BY <2>2 DEF vars, files, RecoveryInv, IInv, TypeOK, InHand, EpochsKnown, Greatest, Used, Key
    <3> QED
      BY <2>2, <3>1, OrderlyStutters DEF RecoveryInv
  <2> QED
    BY <2>1, <2>2 DEF Next
<1> QED
  BY InitOrderly, <1>1, PTL DEF Spec

\* For any number of watchers and sessions, as long as activations do not overlap: wherever one
\* of them dies, in its own steps or while it rolls back another, the next one is neither
\* refused nor does it fail.
THEOREM NeverRefused == Spec => []NeverWedged
<1>1. RecoveryInv => NeverWedged
  BY DEF RecoveryInv, Orderly, NeverWedged
<1> QED
  BY <1>1, RecoveryHolds, PTL

\* And once a watcher has reconciled the journals, the marker and the authority record are
\* those of the latest activation in effect: the others have left no trace.
THEOREM RollbackComplete == Spec => []RolledBack
<1>1. RecoveryInv => RolledBack
  <2> SUFFICES ASSUME RecoveryInv, apart, NEW w \in Watcher, pc[w] = "scan"
               PROVE  \/ /\ Marked = {} /\ authority = NoGrant
                         /\ \A e \in journal : e.state # "active"
                      \/ \E e \in journal :
                           /\ Latest(e) /\ authority = GrantOf(e)
                           /\ Marked = {Of[e.generation]}
                           /\ marker[Of[e.generation]] = e.generation
    BY DEF RolledBack, GrantOf
  <2>1. AtRest
    BY DEF RecoveryInv, Orderly, Stage
  <2>2. PICK s \in Session \cup {None} : InForce(authority, s) /\ Marks(authority, s)
    BY <2>1 DEF AtRest
  <2>3. CASE authority = NoGrant /\ s = None /\ \A e \in journal : e.state # "active"
    BY <2>2, <2>3 DEF Marks
  <2>4. ASSUME NEW e \in journal, Latest(e), authority = GrantOf(e), s = Of[e.generation]
        PROVE  Marked = {Of[e.generation]} /\ marker[Of[e.generation]] = e.generation
    <3>1. Of[e.generation] \in Session
      BY DEF RecoveryInv, IInv, TypeOK, Entry
    <3> QED
      BY <2>2, <2>4, <3>1 DEF Marks, GrantOf
  <2> QED
    BY <2>2, <2>3, <2>4 DEF InForce
<1> QED
  BY <1>1, RecoveryHolds, PTL

\* And revocation is final: no two entries share an epoch, and no committed activation is later
\* than the one whose grant is accepted.
THEOREM RevocationFinal == Spec => []RevokedForGood
<1>1. RecoveryInv => RevokedForGood
  <2> SUFFICES ASSUME RecoveryInv, apart, NEW e \in journal, NEW d \in journal, e # d
               PROVE  /\ e.epoch # d.epoch
                      /\ Accepts(GrantOf(e)) /\ d.state = "active" => d.epoch < e.epoch
    BY DEF RevokedForGood, GrantOf
  <2>1. Orderly /\ Distinct
    BY DEF RecoveryInv, Orderly
  <2>2. e.epoch # d.epoch
    BY <2>1 DEF Distinct
  <2>3. e.epoch \in Nat /\ d.epoch \in Nat
    BY DEF RecoveryInv, IInv, TypeOK, Entry
  <2>4. ASSUME Accepts(GrantOf(e)), d.state = "active"
        PROVE  d.epoch < e.epoch
    <3>1. authority = GrantOf(e) /\ authority.epoch = e.epoch
      BY <2>4 DEF Accepts, GrantOf
    <3>2. ASSUME NEW s, InForce(authority, s) PROVE d.epoch < e.epoch
      <4>1. PICK l \in journal : Latest(l) /\ authority = GrantOf(l)
        BY <2>4, <3>2 DEF InForce
      <4>2. l = e
        BY <2>1, <3>1, <4>1 DEF Distinct, GrantOf
      <4> QED
        BY <2>2, <2>3, <2>4, <4>1, <4>2 DEF Latest
    <3>3. CASE Pending = {}
      BY <2>1, <3>2, <3>3 DEF Orderly, AtRest
    <3>4. ASSUME NEW p \in Pending PROVE d.epoch < e.epoch
      <4>1. Undoable(p) /\ p \in journal
        BY <2>1, <3>4 DEF Orderly, Pending
      <4>2. CASE authority = p.restore
        BY <3>2, <4>1, <4>2 DEF Undoable
      <4>3. CASE Accepts(GrantOf(p))
        <5>1. p = e
          BY <2>1, <3>1, <4>1, <4>3 DEF Accepts, GrantOf, Distinct
        <5> QED
          BY <4>1, <5>1 DEF Undoable
      <4> QED
        BY <4>1, <4>2, <4>3 DEF Undoable
    <3> QED
      BY <3>3, <3>4
  <2> QED
    BY <2>2, <2>4
<1> QED
  BY <1>1, RecoveryHolds, PTL
=============================================================================
