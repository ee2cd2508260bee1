-------------------------- MODULE PlanDraftProofs --------------------------
(***************************************************************************)
(* Theorems about PlanDraft for any calls, commands and plans and any       *)
(* number of faults.                                                        *)
(***************************************************************************)
EXTENDS PlanDraft, TLAPS

(* Types. *)

LEMMA ContentFacts ==
  /\ << >> \in Content /\ None \in Content
  /\ \A c \in Content : c # None => c \in Seq(Call)
  /\ Seq(Call) \subseteq Content
  /\ None \notin Call /\ None \notin Seq(Call)
  /\ Projection \in Path
  /\ \A k \in Call : CommandOf[k] \in Command /\ DigestOf[k] \in Digest
  /\ \A k \in Call, a \in Artifact : PathOf(k, a) \in Path
BY PlanDraftAssumption DEF PlanDraftAssumption, Content, Path, PathOf

LEMMA PCFacts ==
  /\ "idle" \in PC /\ "find" \in PC /\ "markFound" \in PC /\ "record" \in PC
  /\ "begin" \in PC /\ "restore" \in PC /\ "mark" \in PC /\ "commitJournal" \in PC
  /\ "markCommitted" \in PC /\ "finalize" \in PC /\ "complete" \in PC /\ "pending" \in PC
  /\ "resumeSource" \in PC /\ "resumeProjection" \in PC /\ "replayComplete" \in PC
  /\ "render" \in PC /\ "stage" \in PC /\ "publish" \in PC /\ "commitLedger" \in PC
  /\ "created" \in PC /\ "replayed" \in PC /\ "conflict" \in PC /\ "refused" \in PC
  /\ "error" \in PC /\ "failed" \in PC /\ "cleanupPending" \in PC /\ "crashed" \in PC
BY DEF PC, Publishing, Ended

LEMMA Update ==
  ASSUME NEW S, NEW T, NEW f \in [S -> T], NEW x \in S, NEW v \in T
  PROVE  [f EXCEPT ![x] = v] \in [S -> T]
OBVIOUS

LEMMA NestedUpdate ==
  ASSUME NEW S, NEW R, NEW T, NEW f \in [S -> [R -> T]], NEW x \in S, NEW y \in R, NEW v \in T
  PROVE  [f EXCEPT ![x][y] = v] \in [S -> [R -> T]]
OBVIOUS

Stages == {"none", "staged", "backed", "published", "restored", "finalized"}

LEMMA TypeInit == Init => TypeOK
BY PlanDraftAssumption, ContentFacts
DEF PlanDraftAssumption, Init, TypeOK, Entry, Artifact, PC, Publishing, Ended

LEMMA GotoType ==
  ASSUME TypeOK, NEW k \in Call, NEW l \in PC, Goto(k, l)
  PROVE  pc' \in [Call -> PC]
BY DEF TypeOK, Goto

LEMMA SetStageType ==
  ASSUME TypeOK, NEW k \in Call, NEW a \in Artifact, NEW s \in Stages, SetStage(k, a, s)
  PROVE  stage' \in [Call -> [Artifact -> Stages]]
BY NestedUpdate DEF TypeOK, SetStage, Stages

LEMMA SetFileType ==
  ASSUME TypeOK, NEW k \in Call, NEW a \in Artifact, NEW c \in Content, SetFile(k, a, c)
  PROVE  file' \in [Path -> Content]
BY Update, ContentFacts DEF TypeOK, SetFile

LEMMA SetRollbackType ==
  ASSUME TypeOK, NEW k \in Call, NEW a \in Artifact, NEW c \in Content, SetRollback(k, a, c)
  PROVE  rollback' \in [Call -> [Artifact -> Content]]
BY NestedUpdate DEF TypeOK, SetRollback

LEMMA TypeNext ==
  ASSUME TypeOK, [Next]_vars
  PROVE  TypeOK'
<1> USE DEF stores, images, locals, faults
<1>1. ASSUME NEW k \in Call, Open(k)
      PROVE  TypeOK'
  <2>1. pc' \in [Call -> PC]
    BY <1>1, GotoType, PCFacts DEF Open
  <2> QED
    BY <1>1, <2>1 DEF Open, TypeOK, Stages
<1>2. ASSUME NEW k \in Call, Find(k)
      PROVE  TypeOK'
  <2>1. pc' \in [Call -> PC]
    BY <1>2, GotoType, PCFacts DEF Find
  <2>2. seen' \in [Call -> {"none", "pending", "completed"}]
    BY <1>2, Update, ContentFacts DEF Find, TypeOK, Entry
  <2> QED
    BY <1>2, <2>1, <2>2 DEF Find, TypeOK, Stages
<1>3. ASSUME NEW k \in Call, MarkFound(k)
      PROVE  TypeOK'
  <2>1. pc' \in [Call -> PC]
    BY <1>3, GotoType, PCFacts DEF MarkFound
  <2>2. journal' \in [Command -> Entry]
    <3>1. journal \in [Command -> Entry] /\ CommandOf[k] \in Command /\ DigestOf[k] \in Digest
      BY ContentFacts DEF TypeOK
    <3>2. journal[CommandOf[k]] \in Entry  BY <3>1
    <3>3. \/ UNCHANGED journal
          \/ journal' = [journal EXCEPT ![CommandOf[k]] = Recovered(@)]
      BY <1>3 DEF MarkFound
    <3> QED  BY <3>1, <3>2, <3>3 DEF Entry, Recovered
  <2> QED
    BY <1>3, <2>1, <2>2 DEF MarkFound, TypeOK, Stages
<1>4. ASSUME NEW k \in Call, RecordIntent(k)
      PROVE  TypeOK'
  <2>1. pc' \in [Call -> PC]
    BY <1>4, GotoType, PCFacts DEF RecordIntent
  <2>2. journal' \in [Command -> Entry]
    <3>1. journal \in [Command -> Entry] /\ CommandOf[k] \in Command /\ DigestOf[k] \in Digest
      BY ContentFacts DEF TypeOK
    <3>2. journal[CommandOf[k]] \in Entry  BY <3>1
    <3>3. \/ UNCHANGED journal
          \/ journal' = [journal EXCEPT ![CommandOf[k]].status = "intent",
                                     ![CommandOf[k]].digest = DigestOf[k]]
      BY <1>4 DEF RecordIntent
    <3> QED  BY <3>1, <3>2, <3>3 DEF Entry
  <2> QED
    BY <1>4, <2>1, <2>2 DEF RecordIntent, TypeOK, Stages
<1>5. ASSUME NEW k \in Call, Begin(k)
      PROVE  TypeOK'
  <2>1. pc' \in [Call -> PC]
    BY <1>5, GotoType, PCFacts DEF Begin
  <2>2. writer' \in Call \cup {None}
    BY <1>5 DEF Begin, TypeOK
  <2> QED
    BY <1>5, <2>1, <2>2 DEF Begin, TypeOK, Stages
<1>6. ASSUME NEW k \in Call, Render(k)
      PROVE  TypeOK'
  <2>1. pc' \in [Call -> PC]
    BY <1>6, GotoType, PCFacts DEF Render, Abort
  <2>2. writer' \in Call \cup {None}
    BY <1>6 DEF Render, Abort, TypeOK
  <2>3. after' \in [Call -> [Artifact -> Seq(Call)]]
    <3>1. CASE file[Projection] # None /\ after' = [after EXCEPT ![k] = [b \in Artifact |->
                 IF b = "source" THEN <<k>> ELSE Append(file[Projection], k)]]
      <4>1. file[Projection] \in Seq(Call)  BY <3>1, ContentFacts DEF TypeOK
      <4>2. [b \in Artifact |-> IF b = "source" THEN <<k>> ELSE Append(file[Projection], k)]
              \in [Artifact -> Seq(Call)]
        BY <4>1
      <4> QED  BY <3>1, <4>2, Update DEF TypeOK
    <3>2. CASE UNCHANGED after  BY <3>2 DEF TypeOK
    <3> QED  BY <1>6, <3>1, <3>2 DEF Render, Abort
  <2> QED
    BY <1>6, <2>1, <2>2, <2>3 DEF Render, Abort, TypeOK, Stages
<1>7. ASSUME NEW k \in Call, CommitLedger(k)
      PROVE  TypeOK'
  <2>1. pc' \in [Call -> PC]
    BY <1>7, GotoType, PCFacts DEF CommitLedger
  <2>2. ledger' \in [Command -> Call \cup {None}]
    BY <1>7, Update, ContentFacts DEF CommitLedger, TypeOK
  <2>3. writer' \in Call \cup {None}
    BY <1>7 DEF CommitLedger, TypeOK
  <2> QED
    BY <1>7, <2>1, <2>2, <2>3 DEF CommitLedger, TypeOK, Stages
<1>8. ASSUME NEW k \in Call, Mark(k)
      PROVE  TypeOK'
  <2>1. pc' \in [Call -> PC]
    BY <1>8, GotoType, PCFacts DEF Mark
  <2>2. journal' \in [Command -> Entry]
    <3>1. journal \in [Command -> Entry] /\ CommandOf[k] \in Command /\ DigestOf[k] \in Digest
      BY ContentFacts DEF TypeOK
    <3>2. journal[CommandOf[k]] \in Entry  BY <3>1
    <3>3. \/ UNCHANGED journal
          \/ journal' = [journal EXCEPT ![CommandOf[k]] = Recovered(@)]
      BY <1>8 DEF Mark
    <3> QED  BY <3>1, <3>2, <3>3 DEF Entry, Recovered
  <2> QED
    BY <1>8, <2>1, <2>2 DEF Mark, TypeOK, Stages
<1>9. ASSUME NEW k \in Call, CommitJournal(k)
      PROVE  TypeOK'
  <2>1. pc' \in [Call -> PC]
    BY <1>9, GotoType, PCFacts DEF CommitJournal
  <2>2. journal' \in [Command -> Entry]
    <3>1. journal \in [Command -> Entry] /\ CommandOf[k] \in Command /\ DigestOf[k] \in Digest
      BY ContentFacts DEF TypeOK
    <3>2. journal[CommandOf[k]] \in Entry  BY <3>1
    <3>3. \/ UNCHANGED journal
          \/ journal' = [journal EXCEPT ![CommandOf[k]].status = "committed",
                                     ![CommandOf[k]].by = k,
                                     ![CommandOf[k]].cleanup = "pending"]
      BY <1>9 DEF CommitJournal
    <3> QED  BY <3>1, <3>2, <3>3 DEF Entry
  <2> QED
    BY <1>9, <2>1, <2>2 DEF CommitJournal, TypeOK, Stages
<1>10. ASSUME NEW k \in Call, CompleteCleanup(k)
      PROVE  TypeOK'
  <2>1. pc' \in [Call -> PC]
    BY <1>10, GotoType, PCFacts DEF CompleteCleanup, CleanupFails, TypeOK
  <2>2. journal' \in [Command -> Entry]
    <3>1. journal \in [Command -> Entry] /\ CommandOf[k] \in Command /\ DigestOf[k] \in Digest
      BY ContentFacts DEF TypeOK
    <3>2. journal[CommandOf[k]] \in Entry  BY <3>1
    <3>3. \/ UNCHANGED journal
          \/ journal' = [journal EXCEPT ![CommandOf[k]].cleanup = "completed"]
      BY <1>10 DEF CompleteCleanup, SetCleanup
    <3> QED  BY <3>1, <3>2, <3>3 DEF Entry
  <2>3. retried' \in [Call -> BOOLEAN]
    BY <1>10 DEF CompleteCleanup, CleanupFails, TypeOK
  <2> QED
    BY <1>10, <2>1, <2>2, <2>3 DEF CompleteCleanup, TypeOK, Stages
<1>11. ASSUME NEW k \in Call, MarkPending(k)
      PROVE  TypeOK'
  <2>1. pc' \in [Call -> PC]
    BY <1>11, GotoType, PCFacts DEF MarkPending
  <2>2. journal' \in [Command -> Entry]
    <3>1. journal \in [Command -> Entry] /\ CommandOf[k] \in Command /\ DigestOf[k] \in Digest
      BY ContentFacts DEF TypeOK
    <3>2. journal[CommandOf[k]] \in Entry  BY <3>1
    <3>3. \/ UNCHANGED journal
          \/ journal' = [journal EXCEPT ![CommandOf[k]].cleanup = "pending"]
      BY <1>11 DEF MarkPending, SetCleanup
    <3> QED  BY <3>1, <3>2, <3>3 DEF Entry
  <2>3. sound' \in BOOLEAN
    BY <1>11 DEF MarkPending, TypeOK
  <2> QED
    BY <1>11, <2>1, <2>2, <2>3 DEF MarkPending, TypeOK, Stages
<1>12. ASSUME NEW k \in Call, ReplayComplete(k)
      PROVE  TypeOK'
  <2>1. pc' \in [Call -> PC]
    BY <1>12, GotoType, PCFacts DEF ReplayComplete
  <2>2. journal' \in [Command -> Entry]
    <3>1. journal \in [Command -> Entry] /\ CommandOf[k] \in Command /\ DigestOf[k] \in Digest
      BY ContentFacts DEF TypeOK
    <3>2. journal[CommandOf[k]] \in Entry  BY <3>1
    <3>3. \/ UNCHANGED journal
          \/ journal' = [journal EXCEPT ![CommandOf[k]].cleanup = "completed"]
      BY <1>12 DEF ReplayComplete, SetCleanup
    <3> QED  BY <3>1, <3>2, <3>3 DEF Entry
  <2> QED
    BY <1>12, <2>1, <2>2 DEF ReplayComplete, TypeOK, Stages
<1>13. ASSUME NEW k \in Call, FileError(k)
      PROVE  TypeOK'
  <2>1. pc' \in [Call -> PC]
    BY <1>13, GotoType, PCFacts DEF FileError, CleanupFails, ResumeFails, TypeOK
  <2>2. writer' \in Call \cup {None}
    BY <1>13 DEF FileError, CleanupFails, TypeOK
  <2>3. retried' \in [Call -> BOOLEAN]
    BY <1>13 DEF FileError, CleanupFails, TypeOK
  <2>4. errors' \in Nat
    BY <1>13 DEF FileError, TypeOK
  <2> QED
    BY <1>13, <2>1, <2>2, <2>3, <2>4 DEF FileError, CleanupFails, TypeOK, Stages
<1>14. ASSUME NEW k \in Call, Crash(k)
      PROVE  TypeOK'
  <2>1. pc' \in [Call -> PC]
    BY <1>14, GotoType, PCFacts DEF Crash
  <2>2. writer' \in Call \cup {None}
    BY <1>14 DEF Crash, TypeOK
  <2>3. crashes' \in Nat
    BY <1>14 DEF Crash, TypeOK
  <2> QED
    BY <1>14, <2>1, <2>2, <2>3 DEF Crash, TypeOK, Stages
<1>15. ASSUME NEW k \in Call, NEW a \in Artifact, Stage(k, a)
      PROVE  TypeOK'
  <2>1. pc' \in [Call -> PC]
    BY <1>15, GotoType, PCFacts DEF Stage, TypeOK
  <2>2. before' \in [Call -> [Artifact -> Content]]
    BY <1>15, NestedUpdate, ContentFacts DEF Stage, Target, TypeOK
  <2>3. stage' \in [Call -> [Artifact -> Stages]]
    BY <1>15, SetStageType DEF Stage, Stages
  <2> QED
    BY <1>15, <2>1, <2>2, <2>3 DEF Stage, TypeOK, Stages
<1>16. ASSUME NEW k \in Call, NEW a \in Artifact, Backup(k, a)
      PROVE  TypeOK'
  <2>1. pc' \in [Call -> PC]
    BY <1>16, GotoType, PCFacts DEF Backup, Abort, TypeOK
  <2>2. writer' \in Call \cup {None}
    BY <1>16 DEF Backup, Abort, TypeOK
  <2>3. rollback' \in [Call -> [Artifact -> Content]]
    BY <1>16, SetRollbackType DEF Backup, Abort, TypeOK
  <2>4. file' \in [Path -> Content]
    BY <1>16, SetFileType, ContentFacts DEF Backup, Abort, TypeOK
  <2>5. stage' \in [Call -> [Artifact -> Stages]]
    BY <1>16, SetStageType DEF Backup, Abort, Stages, TypeOK
  <2> QED
    BY <1>16, <2>1, <2>2, <2>3, <2>4, <2>5 DEF Backup, Abort, TypeOK, Stages
<1>17. ASSUME NEW k \in Call, NEW a \in Artifact, Link(k, a)
      PROVE  TypeOK'
  <2>1. pc' \in [Call -> PC]
    BY <1>17, GotoType, PCFacts DEF Link, Abort, TypeOK
  <2>2. writer' \in Call \cup {None}
    BY <1>17 DEF Link, Abort, TypeOK
  <2>3. file' \in [Path -> Content]
    BY <1>17, SetFileType, ContentFacts DEF Link, Abort, TypeOK
  <2>4. stage' \in [Call -> [Artifact -> Stages]]
    BY <1>17, SetStageType DEF Link, Abort, Stages, TypeOK
  <2> QED
    BY <1>17, <2>1, <2>2, <2>3, <2>4 DEF Link, Abort, TypeOK, Stages
<1>18. ASSUME NEW k \in Call, NEW a \in Artifact, RestoreTarget(k, a)
      PROVE  TypeOK'
  <2>1. pc' \in [Call -> PC]
    BY <1>18, GotoType, PCFacts DEF RestoreTarget, TypeOK
  <2>2. file' \in [Path -> Content]
    BY <1>18, SetFileType, ContentFacts DEF RestoreTarget, TypeOK
  <2>3. stage' \in [Call -> [Artifact -> Stages]]
    BY <1>18, SetStageType DEF RestoreTarget, Stages, TypeOK
  <2> QED
    BY <1>18, <2>1, <2>2, <2>3 DEF RestoreTarget, TypeOK, Stages
<1>19. ASSUME NEW k \in Call, NEW a \in Artifact, RestorePreimage(k, a)
      PROVE  TypeOK'
  <2>1. pc' \in [Call -> PC]
    BY <1>19, GotoType, PCFacts DEF RestorePreimage, TypeOK
  <2>2. file' \in [Path -> Content]
    BY <1>19, SetFileType, ContentFacts DEF RestorePreimage, TypeOK
  <2>3. rollback' \in [Call -> [Artifact -> Content]]
    BY <1>19, SetRollbackType, ContentFacts DEF RestorePreimage, TypeOK
  <2>4. stage' \in [Call -> [Artifact -> Stages]]
    BY <1>19, SetStageType DEF RestorePreimage, Stages, TypeOK
  <2> QED
    BY <1>19, <2>1, <2>2, <2>3, <2>4 DEF RestorePreimage, TypeOK, Stages
<1>20. ASSUME NEW k \in Call, NEW a \in Artifact, RestoreStaged(k, a)
      PROVE  TypeOK'
  <2>1. pc' \in [Call -> PC]
    BY <1>20, GotoType, PCFacts DEF RestoreStaged, TypeOK
  <2>2. stage' \in [Call -> [Artifact -> Stages]]
    BY <1>20, SetStageType DEF RestoreStaged, Stages, TypeOK
  <2> QED
    BY <1>20, <2>1, <2>2 DEF RestoreStaged, TypeOK, Stages
<1>21. ASSUME NEW k \in Call, NEW a \in Artifact, Finalize(k, a)
      PROVE  TypeOK'
  <2>1. pc' \in [Call -> PC]
    BY <1>21, GotoType, PCFacts DEF Finalize, CleanupFails, TypeOK
  <2>2. rollback' \in [Call -> [Artifact -> Content]]
    BY <1>21, SetRollbackType, ContentFacts DEF Finalize, TypeOK
  <2>3. stage' \in [Call -> [Artifact -> Stages]]
    BY <1>21, SetStageType DEF Finalize, Stages, TypeOK
  <2>4. retried' \in [Call -> BOOLEAN]
    BY <1>21 DEF Finalize, CleanupFails, TypeOK
  <2> QED
    BY <1>21, <2>1, <2>2, <2>3, <2>4 DEF Finalize, TypeOK, Stages
<1>22. ASSUME NEW k \in Call, NEW a \in Artifact, Resume(k, a)
      PROVE  TypeOK'
  <2>1. pc' \in [Call -> PC]
    BY <1>22, GotoType, PCFacts DEF Resume, Resumed, ResumeFails, TypeOK
  <2>2. rollback' \in [Call -> [Artifact -> Content]]
    <3> DEFINE o == journal[CommandOf[k]].by
    <3>1. CASE SetRollback(o, a, None)
      <4>1. CASE o \in Call  BY <3>1, <4>1, SetRollbackType, ContentFacts
      <4>2. CASE o \notin Call
        <5>1. rollback' = rollback  BY <3>1, <4>2 DEF SetRollback, TypeOK
        <5> QED  BY <5>1 DEF TypeOK
      <4> QED  BY <4>1, <4>2
    <3>2. CASE UNCHANGED rollback  BY <3>2 DEF TypeOK
    <3> QED  BY <1>22, <3>1, <3>2 DEF Resume
  <2> QED
    BY <1>22, <2>1, <2>2 DEF Resume, TypeOK, Stages
<1>23. CASE UNCHANGED vars
  BY <1>23 DEF vars, TypeOK
<1> HIDE DEF stores, images, locals, faults
<1> QED
  BY <1>1, <1>2, <1>3, <1>4, <1>5, <1>6, <1>7, <1>8, <1>9, <1>10, <1>11, <1>12, <1>13, <1>14, <1>15, <1>16, <1>17, <1>18, <1>19, <1>20, <1>21, <1>22, <1>23 DEF Next, Step

\* Each variable holds values of its type.
THEOREM TypeCorrect == Spec => []TypeOK
<1>1. Init => TypeOK  BY TypeInit
<1>2. TypeOK /\ [Next]_vars => TypeOK'  BY TypeNext
<1> QED  BY <1>1, <1>2, PTL DEF Spec

-----------------------------------------------------------------------------
(* The two stores. *)

Working == {"begin", "restore", "mark"} \cup Publishing
AfterLedger == {"commitJournal", "markCommitted"}
Done == {"finalize", "complete", "created"}
Replaying == {"resumeSource", "resumeProjection", "replayComplete", "replayed"}

Admission == \A c \in Command : Admitted(c) =>
  /\ CommandOf[ledger[c]] = c
  /\ journal[c].status # "none" /\ journal[c].digest = DigestOf[ledger[c]]
Commitment == \A c \in Command : journal[c].status = "committed" =>
  Admitted(c) /\ ledger[c] = journal[c].by
PlansApart == \A c, d \in Command : Admitted(c) /\ Admitted(d) /\ PlanOf[c] = PlanOf[d] => c = d

\* A call between its intent and its admission holds the only claim to its command.
OwnIntent == \A k \in Call : pc[k] \in Working =>
  Status(k) = "intent" /\ SameDigest(k) /\ ~Admitted(CommandOf[k])
OneWorks == \A j, k \in Call :
  pc[j] \in Working /\ pc[k] \in Working /\ CommandOf[j] = CommandOf[k] => j = k
OwnAdmission == \A k \in Call : pc[k] \in AfterLedger => ledger[CommandOf[k]] = k
FoundAdmitted == \A k \in Call : pc[k] = "markFound" => Admitted(CommandOf[k])

\* The write lock is held by the call that publishes, whose plan is not taken.
LockHeld == \A k \in Call : pc[k] \in Publishing <=> writer = k
PlanFree == \A k \in Call : pc[k] \in Publishing => ~PlanTaken(k)

OwnCommit == \A k \in Call : pc[k] \in Done =>
  Status(k) = "committed" /\ journal[CommandOf[k]].by = k
ReplayFound == \A k \in Call : pc[k] \in Replaying => Status(k) = "committed" /\ SameDigest(k)

StoreInv ==
  /\ Admission /\ Commitment /\ PlansApart
  /\ OwnIntent /\ OneWorks /\ OwnAdmission /\ FoundAdmitted
  /\ LockHeld /\ PlanFree /\ OwnCommit /\ ReplayFound

\* What a step of k to l that changes neither store has to respect.
Quiet(k, l) ==
  /\ l \in Working => pc[k] \in Working
  /\ l \in AfterLedger => pc[k] \in AfterLedger
  /\ l = "markFound" => Admitted(CommandOf[k])
  /\ l \in Done => pc[k] \in Done
  /\ l \in Replaying => pc[k] \in Replaying \/ (Status(k) = "committed" /\ SameDigest(k))
  /\ \/ writer' = writer /\ (l \in Publishing <=> pc[k] \in Publishing)
     \/ writer' = None /\ pc[k] \in Publishing /\ l \notin Publishing

\* The journal as it was, the cleanup apart.
SameEntries == \A c \in Command :
  /\ journal'[c].status = journal[c].status
  /\ journal'[c].digest = journal[c].digest
  /\ journal'[c].by = journal[c].by

LEMMA GotoAt ==
  ASSUME TypeOK, NEW k \in Call, NEW l, Goto(k, l)
  PROVE  pc'[k] = l /\ \A j \in Call : j # k => pc'[j] = pc[j]
BY DEF TypeOK, Goto

LEMMA StoreInit == Init => StoreInv
<1> SUFFICES ASSUME Init PROVE StoreInv
  OBVIOUS
<1>1. \A c \in Command : ~Admitted(c) /\ journal[c].status = "none"
  BY DEF Init, Admitted
<1>2. \A k \in Call : pc[k] = "idle" /\ k # None /\ writer = None
  BY ContentFacts DEF Init
<1> QED
  BY <1>1, <1>2 DEF StoreInv, Admission, Commitment, PlansApart, OwnIntent, OneWorks,
    OwnAdmission, FoundAdmitted, LockHeld, PlanFree, OwnCommit, ReplayFound, Working,
    AfterLedger, Done, Replaying, Publishing

LEMMA QuietStep ==
  ASSUME TypeOK, StoreInv, NEW k \in Call, NEW l, Goto(k, l), Quiet(k, l),
         SameEntries, UNCHANGED ledger
  PROVE  StoreInv'
<1>1. pc'[k] = l /\ \A j \in Call : j # k => pc'[j] = pc[j]  BY GotoAt
<1>2. k # None /\ \A j \in Call : j # None /\ CommandOf[j] \in Command  BY ContentFacts
<1>3. (Admission /\ Commitment /\ PlansApart)'
  BY DEF StoreInv, SameEntries, Admission, Commitment, PlansApart, Admitted
<1>4. OwnIntent' /\ OneWorks'
  BY <1>1, <1>2 DEF SameEntries, StoreInv, OwnIntent, OneWorks, Quiet, Status, SameDigest, Admitted
<1>5. OwnAdmission' /\ FoundAdmitted'
  BY <1>1 DEF StoreInv, OwnAdmission, FoundAdmitted, Quiet, Admitted
<1>6. LockHeld'
  BY <1>1, <1>2 DEF StoreInv, LockHeld, Quiet
<1>7. PlanFree'
  BY <1>1 DEF StoreInv, PlanFree, Quiet, PlanTaken
<1>8. OwnCommit' /\ ReplayFound'
  BY <1>1, <1>2 DEF SameEntries, StoreInv, OwnCommit, ReplayFound, Quiet, Status, SameDigest
<1> QED  BY <1>3, <1>4, <1>5, <1>6, <1>7, <1>8 DEF StoreInv

LEMMA StillStep ==
  ASSUME StoreInv, UNCHANGED <<journal, ledger, writer, pc>>
  PROVE  StoreInv'
BY DEF StoreInv, Admission, Commitment, PlansApart, OwnIntent, OneWorks, OwnAdmission,
  FoundAdmitted, LockHeld, PlanFree, OwnCommit, ReplayFound, Status, SameDigest, PlanTaken, Admitted

LEMMA Unchanged == ASSUME UNCHANGED journal PROVE SameEntries
BY DEF SameEntries

LEMMA CleanupOnly ==
  ASSUME TypeOK, NEW k \in Call, NEW s, SetCleanup(k, s)
  PROVE  SameEntries
<1>1. journal \in [Command -> Entry]  BY DEF TypeOK
<1>2. CommandOf[k] \in Command  BY ContentFacts
<1> QED  BY <1>1, <1>2 DEF SetCleanup, SameEntries, Entry

LEMMA AbortStep ==
  ASSUME TypeOK, StoreInv, NEW k \in Call, pc[k] \in Publishing, Abort(k)
  PROVE  StoreInv'
<1>1. pc[k] \in Working  BY DEF Working
<1>2. ASSUME NEW l \in {"restore", "mark"} PROVE Quiet(k, l)
  BY <1>1, <1>2 DEF Abort, Quiet, Working, AfterLedger, Done, Replaying, Publishing
<1>3. UNCHANGED <<journal, ledger>>  BY DEF Abort, images, locals
<1> QED  BY <1>2, <1>3, QuietStep, Unchanged DEF Abort

LEMMA RecoverStep ==
  ASSUME TypeOK, StoreInv, NEW k \in Call, pc[k] \in {"markFound", "mark", "markCommitted"},
         NEW l \in {"refused", "conflict", "failed"}, Goto(k, l),
         journal' = [journal EXCEPT ![CommandOf[k]] = Recovered(@)], UNCHANGED <<ledger, writer>>
  PROVE  StoreInv'
<1> DEFINE c == CommandOf[k]
<1>1. pc'[k] = l /\ \A j \in Call : j # k => pc'[j] = pc[j]  BY GotoAt
<1>2. c \in Command /\ \A j \in Call : CommandOf[j] \in Command  BY ContentFacts
<1>3. journal \in [Command -> Entry]  BY DEF TypeOK
<1>4. \A d \in Command :
        /\ journal'[d].digest = journal[d].digest /\ journal'[d].by = journal[d].by
        /\ d # c => journal'[d].status = journal[d].status
        /\ journal'[d].status = journal[d].status
             \/ (journal[d].status = "intent" /\ journal'[d].status = "recovery")
  BY <1>2, <1>3 DEF Recovered, Entry
<1>5. \A j \in Call : pc'[j] \in Working => pc[j] \in Working /\ CommandOf[j] # c
  <2> SUFFICES ASSUME NEW j \in Call, pc'[j] \in Working PROVE pc[j] \in Working /\ CommandOf[j] # c
    OBVIOUS
  <2>1. j # k /\ pc[j] \in Working  BY <1>1 DEF Working, Publishing
  <2>2. CASE pc[k] = "mark"  BY <2>1, <2>2 DEF StoreInv, OneWorks, Working
  <2>3. CASE pc[k] # "mark"
    <3>1. k # None  BY ContentFacts
    <3>2. Admitted(c)  BY <2>3, <3>1 DEF StoreInv, FoundAdmitted, OwnAdmission, AfterLedger, Admitted
    <3> QED  BY <2>1, <3>2 DEF StoreInv, OwnIntent
  <2> QED  BY <2>2, <2>3
<1>6. \A j \in Call : /\ pc'[j] \in Publishing <=> pc[j] \in Publishing
                      /\ \A s \in {AfterLedger, {"markFound"}, Done, Replaying} : pc'[j] \in s => pc[j] \in s
  BY <1>1 DEF AfterLedger, Done, Replaying, Publishing
<1>7. (Admission /\ Commitment /\ PlansApart)'
  BY <1>4 DEF StoreInv, Admission, Commitment, PlansApart, Admitted
<1>8. OwnIntent' /\ OneWorks'
  BY <1>2, <1>4, <1>5 DEF StoreInv, OwnIntent, OneWorks, Status, SameDigest, Admitted
<1>9. (OwnAdmission /\ FoundAdmitted /\ LockHeld /\ PlanFree)'
  BY <1>6 DEF StoreInv, OwnAdmission, FoundAdmitted, LockHeld, PlanFree, PlanTaken, Admitted
<1>10. (OwnCommit /\ ReplayFound)'
  BY <1>2, <1>4, <1>6 DEF StoreInv, OwnCommit, ReplayFound, Status, SameDigest
<1> QED  BY <1>7, <1>8, <1>9, <1>10 DEF StoreInv

LEMMA RecordStep ==
  ASSUME TypeOK, StoreInv, NEW k \in Call, Status(k) = "none", pc[k] = "record", Goto(k, "begin"),
         journal' = [journal EXCEPT ![CommandOf[k]].status = "intent",
                                    ![CommandOf[k]].digest = DigestOf[k]],
         UNCHANGED <<ledger, writer>>
  PROVE  StoreInv'
<1> DEFINE c == CommandOf[k]
<1>1. pc'[k] = "begin" /\ \A j \in Call : j # k => pc'[j] = pc[j]  BY GotoAt
<1>2. c \in Command /\ \A j \in Call : CommandOf[j] \in Command  BY ContentFacts
<1>3. journal \in [Command -> Entry]  BY DEF TypeOK
<1>4. /\ journal'[c].status = "intent" /\ journal'[c].digest = DigestOf[k]
      /\ \A d \in Command : d # c => journal'[d] = journal[d]
  BY <1>2, <1>3 DEF Entry
<1>5. journal[c].status = "none" /\ ~Admitted(c)
  BY <1>2 DEF StoreInv, Admission, Status
<1>6. \A j \in Call : pc[j] \in Working \cup Done \cup Replaying => CommandOf[j] # c
  BY <1>5 DEF StoreInv, OwnIntent, OwnCommit, ReplayFound, Status
<1>7. \A j \in Call : j # k =>
        \A s \in {Working, Publishing, AfterLedger, {"markFound"}, Done, Replaying} : pc'[j] \in s <=> pc[j] \in s
  BY <1>1
<1>8. /\ pc'[k] \notin Publishing \cup AfterLedger \cup Done \cup Replaying \cup {"markFound"}
      /\ pc[k] \notin Publishing
  BY <1>1 DEF AfterLedger, Done, Replaying, Publishing
<1>9. (Admission /\ Commitment /\ PlansApart)'
  BY ZenonT(40), <1>4, <1>5 DEF StoreInv, Admission, Commitment, PlansApart, Admitted
<1>10. OwnIntent' /\ OneWorks'
  <2>1. \A j \in Call : j # k /\ pc'[j] \in Working => pc[j] \in Working /\ CommandOf[j] # c
    BY <1>6, <1>7
  <2>2. OneWorks'  BY <2>1 DEF StoreInv, OneWorks
  <2>3. OwnIntent'
    <3> SUFFICES ASSUME NEW j \in Call, pc'[j] \in Working
                 PROVE  (Status(j) = "intent" /\ SameDigest(j) /\ ~Admitted(CommandOf[j]))'
      BY DEF OwnIntent
    <3>1. CASE j = k  BY <1>4, <1>5, <3>1 DEF Status, SameDigest, Admitted
    <3>2. CASE j # k
      BY <1>2, <1>4, <2>1, <3>2 DEF StoreInv, OwnIntent, Status, SameDigest, Admitted
    <3> QED  BY <3>1, <3>2
  <2> QED  BY <2>2, <2>3
<1>11. (OwnAdmission /\ FoundAdmitted)'
  BY <1>7, <1>8 DEF StoreInv, OwnAdmission, FoundAdmitted, Admitted
<1>12. (LockHeld /\ PlanFree)'
  BY <1>7, <1>8 DEF StoreInv, LockHeld, PlanFree, PlanTaken
<1>13. (OwnCommit /\ ReplayFound)'
  <2>1. \A j \in Call : /\ pc'[j] \in Done => pc[j] \in Done /\ CommandOf[j] # c
                        /\ pc'[j] \in Replaying => pc[j] \in Replaying /\ CommandOf[j] # c
    BY <1>6, <1>7, <1>8
  <2>2. \A j \in Call : CommandOf[j] # c => journal'[CommandOf[j]] = journal[CommandOf[j]]
    BY <1>2, <1>4
  <2>3. OwnCommit'  BY ZenonT(40), <1>4, <2>1, <2>2 DEF StoreInv, OwnCommit, Status
  <2>4. ReplayFound'  BY <2>1, <2>2 DEF StoreInv, ReplayFound, Status, SameDigest
  <2> QED  BY <2>3, <2>4
<1> QED  BY <1>9, <1>10, <1>11, <1>12, <1>13 DEF StoreInv

LEMMA BeginStep ==
  ASSUME TypeOK, StoreInv, NEW k \in Call, pc[k] = "begin", Free, ~PlanTaken(k), writer' = k,
         Goto(k, "render"), UNCHANGED <<journal, ledger>>
  PROVE  StoreInv'
<1>1. pc'[k] = "render" /\ \A j \in Call : j # k => pc'[j] = pc[j]  BY GotoAt
<1>2. k # None /\ \A j \in Call : j # None  BY ContentFacts
<1>3. \A j \in Call : pc[j] \notin Publishing  BY <1>2 DEF StoreInv, LockHeld, Free
<1>4. \A j \in Call : /\ pc'[j] \in Working => pc[j] \in Working
                      /\ pc'[j] \in Publishing <=> j = k
                      /\ \A s \in {AfterLedger, {"markFound"}, Done, Replaying} : pc'[j] \in s => pc[j] \in s
  BY <1>1, <1>3 DEF Working, AfterLedger, Done, Replaying, Publishing
<1>5. (Admission /\ Commitment /\ PlansApart)'
  BY DEF StoreInv, Admission, Commitment, PlansApart, Admitted
<1>6. OwnIntent' /\ OneWorks'
  BY <1>4 DEF StoreInv, OwnIntent, OneWorks, Status, SameDigest, Admitted
<1>7. (OwnAdmission /\ FoundAdmitted)'
  BY <1>4 DEF StoreInv, OwnAdmission, FoundAdmitted, Admitted
<1>8. LockHeld' /\ PlanFree'
  BY <1>4 DEF LockHeld, PlanFree, PlanTaken
<1>9. (OwnCommit /\ ReplayFound)'
  BY <1>4 DEF StoreInv, OwnCommit, ReplayFound, Status, SameDigest
<1> QED  BY <1>5, <1>6, <1>7, <1>8, <1>9 DEF StoreInv

LEMMA AdmitStep ==
  ASSUME TypeOK, StoreInv, NEW k \in Call, CommitLedger(k)
  PROVE  StoreInv'
<1> DEFINE c == CommandOf[k]
<1>1. pc'[k] = "commitJournal" /\ \A j \in Call : j # k => pc'[j] = pc[j]
  BY GotoAt DEF CommitLedger
<1>2. c \in Command /\ k # None /\ \A j \in Call : j # None /\ CommandOf[j] \in Command  BY ContentFacts
<1>3. /\ UNCHANGED journal /\ writer' = None
      /\ ledger'[c] = k /\ \A d \in Command : d # c => ledger'[d] = ledger[d]
  BY <1>2 DEF CommitLedger, TypeOK
<1>4. pc[k] \in Publishing /\ pc[k] \in Working  BY DEF CommitLedger, Publishing, Working
<1>5. Status(k) = "intent" /\ SameDigest(k) /\ ~Admitted(c) /\ ~PlanTaken(k) /\ writer = k
  BY <1>4 DEF StoreInv, OwnIntent, PlanFree, LockHeld
<1>6. \A j \in Call : /\ pc'[j] \in Working => pc[j] \in Working /\ CommandOf[j] # c
                      /\ pc'[j] \notin Publishing
                      /\ pc'[j] \in AfterLedger => j = k \/ pc[j] \in AfterLedger
                      /\ \A s \in {{"markFound"}, Done, Replaying} : pc'[j] \in s => pc[j] \in s
  <2> SUFFICES ASSUME NEW j \in Call
      PROVE /\ pc'[j] \in Working => pc[j] \in Working /\ CommandOf[j] # c
            /\ pc'[j] \notin Publishing
            /\ pc'[j] \in AfterLedger => j = k \/ pc[j] \in AfterLedger
            /\ \A s \in {{"markFound"}, Done, Replaying} : pc'[j] \in s => pc[j] \in s
    OBVIOUS
  <2>1. CASE j = k  BY <1>1, <2>1 DEF Working, AfterLedger, Done, Replaying, Publishing
  <2>2. CASE j # k
    <3>1. pc[j] \notin Publishing  BY <1>5, <2>2 DEF StoreInv, LockHeld
    <3>2. pc[j] \in Working => CommandOf[j] # c  BY <1>4, <2>2 DEF StoreInv, OneWorks
    <3> QED  BY <1>1, <2>2, <3>1, <3>2
  <2> QED  BY <2>1, <2>2
<1>7. Admission' /\ Commitment'
  BY <1>2, <1>3, <1>5 DEF StoreInv, Admission, Commitment, Admitted, Status, SameDigest
<1>8. PlansApart'
  BY <1>2, <1>3, <1>5 DEF StoreInv, PlansApart, Admitted, PlanTaken
<1>9. OwnIntent' /\ OneWorks'
  BY <1>2, <1>3, <1>6 DEF StoreInv, OwnIntent, OneWorks, Status, SameDigest, Admitted
<1>10. OwnAdmission'
  BY <1>2, <1>3, <1>5, <1>6 DEF StoreInv, OwnAdmission, Admitted
<1>11. FoundAdmitted'
  BY <1>2, <1>3, <1>6 DEF StoreInv, FoundAdmitted, Admitted
<1>12. LockHeld' /\ PlanFree'
  BY <1>2, <1>3, <1>6 DEF LockHeld, PlanFree
<1>13. (OwnCommit /\ ReplayFound)'
  BY <1>3, <1>6 DEF StoreInv, OwnCommit, ReplayFound, Status, SameDigest
<1> QED  BY <1>7, <1>8, <1>9, <1>10, <1>11, <1>12, <1>13 DEF StoreInv

LEMMA CommitStep ==
  ASSUME TypeOK, StoreInv, NEW k \in Call, pc[k] = "commitJournal", Undecided(k), Goto(k, "finalize"),
         journal' = [journal EXCEPT ![CommandOf[k]].status = "committed",
                                    ![CommandOf[k]].by = k,
                                    ![CommandOf[k]].cleanup = "pending"],
         UNCHANGED <<ledger, writer>>
  PROVE  StoreInv'
<1> DEFINE c == CommandOf[k]
<1>1. pc'[k] = "finalize" /\ \A j \in Call : j # k => pc'[j] = pc[j]  BY GotoAt
<1>2. c \in Command /\ k # None /\ \A j \in Call : CommandOf[j] \in Command  BY ContentFacts
<1>3. journal \in [Command -> Entry]  BY DEF TypeOK
<1>4. /\ journal'[c].status = "committed" /\ journal'[c].by = k /\ journal'[c].digest = journal[c].digest
      /\ \A d \in Command : d # c => journal'[d] = journal[d]
  BY <1>2, <1>3 DEF Entry
<1>5. journal[c].status = "intent" /\ ledger[c] = k /\ Admitted(c)
  BY <1>2 DEF StoreInv, OwnAdmission, AfterLedger, Undecided, Status, Admitted
<1>6. \A j \in Call : pc[j] \in Working \cup Done \cup Replaying => CommandOf[j] # c
  BY <1>5 DEF StoreInv, OwnIntent, OwnCommit, ReplayFound, Status
<1>7. \A j \in Call : j # k =>
        \A s \in {Working, Publishing, AfterLedger, {"markFound"}, Done, Replaying} : pc'[j] \in s <=> pc[j] \in s
  BY <1>1
<1>8. /\ pc'[k] \notin Publishing \cup Working \cup AfterLedger \cup Replaying \cup {"markFound"}
      /\ pc[k] \notin Publishing
  BY <1>1 DEF Working, AfterLedger, Replaying, Publishing
<1>9. (Admission /\ Commitment /\ PlansApart)'
  <2>1. Admission'  BY ZenonT(40), <1>2, <1>4, <1>5 DEF StoreInv, Admission, Admitted
  <2>2. Commitment'  BY <1>2, <1>4, <1>5 DEF StoreInv, Commitment, Admitted
  <2>3. PlansApart'  BY DEF StoreInv, PlansApart, Admitted
  <2> QED  BY <2>1, <2>2, <2>3
<1>10. OwnIntent' /\ OneWorks'
  <2>1. \A j \in Call : pc'[j] \in Working => pc[j] \in Working /\ CommandOf[j] # c
    BY <1>6, <1>7, <1>8
  <2>2. \A j \in Call : CommandOf[j] # c => journal'[CommandOf[j]] = journal[CommandOf[j]]
    BY <1>2, <1>4
  <2>3. OneWorks'  BY <2>1 DEF StoreInv, OneWorks
  <2>4. OwnIntent'  BY <2>1, <2>2 DEF StoreInv, OwnIntent, Status, SameDigest, Admitted
  <2> QED  BY <2>3, <2>4
<1>11. (OwnAdmission /\ FoundAdmitted)'
  BY <1>7, <1>8 DEF StoreInv, OwnAdmission, FoundAdmitted, Admitted
<1>12. (LockHeld /\ PlanFree)'
  BY <1>7, <1>8 DEF StoreInv, LockHeld, PlanFree, PlanTaken
<1>13. (OwnCommit /\ ReplayFound)'
  <2>1. \A j \in Call : /\ pc'[j] \in Done => j = k \/ (pc[j] \in Done /\ CommandOf[j] # c)
                        /\ pc'[j] \in Replaying => pc[j] \in Replaying /\ CommandOf[j] # c
    BY <1>6, <1>7, <1>8
  <2>2. \A j \in Call : CommandOf[j] # c => journal'[CommandOf[j]] = journal[CommandOf[j]]
    BY <1>2, <1>4
  <2>3. OwnCommit'  BY ZenonT(40), <1>4, <2>1, <2>2 DEF StoreInv, OwnCommit, Status
  <2>4. ReplayFound'  BY <2>1, <2>2 DEF StoreInv, ReplayFound, Status, SameDigest
  <2> QED  BY <2>3, <2>4
<1> QED  BY <1>9, <1>10, <1>11, <1>12, <1>13 DEF StoreInv

LEMMA StoreNext ==
  ASSUME TypeOK, StoreInv, [Next]_vars
  PROVE  StoreInv'
<1> USE DEF stores, images, locals, faults
<1>1. ASSUME NEW k \in Call, Open(k)
      PROVE  StoreInv'
  <2>1. Quiet(k, "find")
    BY <1>1 DEF Open, Quiet, Working, AfterLedger, Done, Replaying, Publishing
  <2>2. Quiet(k, "error")
    BY <1>1 DEF Open, Quiet, Working, AfterLedger, Done, Replaying, Publishing
  <2> QED
    BY <1>1, <2>1, <2>2, QuietStep, Unchanged DEF Open
<1>2. ASSUME NEW k \in Call, Find(k)
      PROVE  StoreInv'
  <2>1. /\ SameEntries /\ UNCHANGED ledger /\ writer' = writer /\ pc[k] = "find"
        /\ \/ Goto(k, "record") \/ Goto(k, "conflict") \/ Goto(k, "refused")
           \/ Admitted(CommandOf[k]) /\ Goto(k, "markFound")
           \/ Status(k) = "committed" /\ SameDigest(k) /\ Goto(k, "resumeSource")
    BY <1>2, Unchanged DEF Find, Admitted
  <2>2. ASSUME NEW l \in {"record", "conflict", "refused"} PROVE Quiet(k, l)
    BY <2>1, <2>2 DEF Quiet, Working, AfterLedger, Done, Replaying, Publishing
  <2>3. Admitted(CommandOf[k]) => Quiet(k, "markFound")
    BY <2>1 DEF Quiet, Working, AfterLedger, Done, Replaying, Publishing
  <2>4. Status(k) = "committed" /\ SameDigest(k) => Quiet(k, "resumeSource")
    BY <2>1 DEF Quiet, Working, AfterLedger, Done, Replaying, Publishing
  <2> QED  BY <2>1, <2>2, <2>3, <2>4, QuietStep
<1>3. ASSUME NEW k \in Call, Render(k)
      PROVE  StoreInv'
  <2>1. pc[k] \in Publishing  BY <1>3 DEF Render, Publishing
  <2>2. CASE Abort(k)  BY <2>1, <2>2, AbortStep
  <2>3. CASE ~Abort(k)
    <3>1. Quiet(k, "stage")
      BY <1>3, <2>3 DEF Render, Quiet, Working, AfterLedger, Done, Replaying, Publishing
    <3> QED  BY <1>3, <2>3, <3>1, QuietStep, Unchanged DEF Render
  <2> QED  BY <2>2, <2>3
<1>4. ASSUME NEW k \in Call, NEW a \in Artifact, Stage(k, a)
      PROVE  StoreInv'
  <2>1. Quiet(k, "publish")
    BY <1>4 DEF Stage, Quiet, Working, AfterLedger, Done, Replaying, Publishing
  <2> QED
    BY <1>4, <2>1, QuietStep, Unchanged, StillStep DEF Stage
<1>5. ASSUME NEW k \in Call, NEW a \in Artifact, Backup(k, a)
      PROVE  StoreInv'
  <2>1. pc[k] \in Publishing  BY <1>5 DEF Backup, PublishTurn, Publishing
  <2> QED
    BY <1>5, QuietStep, Unchanged, StillStep, <2>1, AbortStep DEF Backup
<1>6. ASSUME NEW k \in Call, NEW a \in Artifact, Link(k, a)
      PROVE  StoreInv'
  <2>1. pc[k] \in Publishing  BY <1>6 DEF Link, PublishTurn, Publishing
  <2>2. CASE Abort(k)  BY <2>1, <2>2, AbortStep
  <2>3. CASE ~Abort(k)
    <3>1. Quiet(k, "commitLedger")
      BY <1>6, <2>3 DEF Link, PublishTurn, Quiet, Working, AfterLedger, Done, Replaying, Publishing
    <3> QED  BY <1>6, <2>3, <3>1, QuietStep, StillStep, Unchanged DEF Link
  <2> QED  BY <2>2, <2>3
<1>7. ASSUME NEW k \in Call, NEW a \in Artifact, RestoreTarget(k, a)
      PROVE  StoreInv'
  <2>1. Quiet(k, "mark")
    BY <1>7 DEF RestoreTarget, Quiet, Working, AfterLedger, Done, Replaying, Publishing
  <2> QED
    BY <1>7, <2>1, QuietStep, Unchanged, StillStep DEF RestoreTarget
<1>8. ASSUME NEW k \in Call, NEW a \in Artifact, RestorePreimage(k, a)
      PROVE  StoreInv'
  <2>1. Quiet(k, "mark")
    BY <1>8 DEF RestorePreimage, Quiet, Working, AfterLedger, Done, Replaying, Publishing
  <2> QED
    BY <1>8, <2>1, QuietStep, Unchanged, StillStep DEF RestorePreimage
<1>9. ASSUME NEW k \in Call, NEW a \in Artifact, RestoreStaged(k, a)
      PROVE  StoreInv'
  <2>1. Quiet(k, "mark")
    BY <1>9 DEF RestoreStaged, Quiet, Working, AfterLedger, Done, Replaying, Publishing
  <2> QED
    BY <1>9, <2>1, QuietStep, Unchanged, StillStep DEF RestoreStaged
<1>10. ASSUME NEW k \in Call, CompleteCleanup(k)
      PROVE  StoreInv'
  <2>1. Quiet(k, "created")
    BY <1>10 DEF CompleteCleanup, Quiet, Working, AfterLedger, Done, Replaying, Publishing, CleanupFails
  <2>2. Quiet(k, "pending")
    BY <1>10 DEF CompleteCleanup, Quiet, Working, AfterLedger, Done, Replaying, Publishing, CleanupFails
  <2>3. Quiet(k, pc[k])
    BY <1>10 DEF CompleteCleanup, Quiet, Working, AfterLedger, Done, Replaying, Publishing, CleanupFails
  <2> QED
    BY <1>10, <2>1, <2>2, <2>3, QuietStep, Unchanged, CleanupOnly DEF CompleteCleanup, CleanupFails
<1>11. ASSUME NEW k \in Call, MarkPending(k)
      PROVE  StoreInv'
  <2>1. Quiet(k, "cleanupPending")
    BY <1>11 DEF MarkPending, Quiet, Working, AfterLedger, Done, Replaying, Publishing
  <2> QED
    BY <1>11, <2>1, QuietStep, Unchanged, CleanupOnly DEF MarkPending
<1>12. ASSUME NEW k \in Call, ReplayComplete(k)
      PROVE  StoreInv'
  <2>1. Quiet(k, "replayed")
    BY <1>12 DEF ReplayComplete, Quiet, Working, AfterLedger, Done, Replaying, Publishing
  <2>2. Quiet(k, "pending")
    BY <1>12 DEF ReplayComplete, Quiet, Working, AfterLedger, Done, Replaying, Publishing
  <2> QED
    BY <1>12, <2>1, <2>2, QuietStep, Unchanged, CleanupOnly DEF ReplayComplete
<1>13. ASSUME NEW k \in Call, NEW a \in Artifact, Finalize(k, a)
      PROVE  StoreInv'
  <2>1. Quiet(k, "complete")
    BY <1>13 DEF Finalize, Quiet, Working, AfterLedger, Done, Replaying, Publishing, CleanupFails
  <2>2. Quiet(k, "pending")
    BY <1>13 DEF Finalize, Quiet, Working, AfterLedger, Done, Replaying, Publishing, CleanupFails
  <2>3. Quiet(k, pc[k])
    BY <1>13 DEF Finalize, Quiet, Working, AfterLedger, Done, Replaying, Publishing, CleanupFails
  <2> QED
    BY <1>13, <2>1, <2>2, <2>3, QuietStep, Unchanged, StillStep DEF Finalize, CleanupFails
<1>14. ASSUME NEW k \in Call, NEW a \in Artifact, Resume(k, a)
      PROVE  StoreInv'
  <2>1. Quiet(k, "resumeProjection")
    BY <1>14 DEF Resume, Quiet, Working, AfterLedger, Done, Replaying, Publishing, Resumed, ResumeFails
  <2>2. Quiet(k, "replayComplete")
    BY <1>14 DEF Resume, Quiet, Working, AfterLedger, Done, Replaying, Publishing, Resumed, ResumeFails
  <2>3. Quiet(k, "replayed")
    BY <1>14 DEF Resume, Quiet, Working, AfterLedger, Done, Replaying, Publishing, Resumed, ResumeFails
  <2>4. Quiet(k, "pending")
    BY <1>14 DEF Resume, Quiet, Working, AfterLedger, Done, Replaying, Publishing, Resumed, ResumeFails
  <2>5. Quiet(k, "cleanupPending")
    BY <1>14 DEF Resume, Quiet, Working, AfterLedger, Done, Replaying, Publishing, Resumed, ResumeFails
  <2> QED
    BY <1>14, <2>1, <2>2, <2>3, <2>4, <2>5, QuietStep, Unchanged DEF Resume, Resumed, ResumeFails
<1>15. ASSUME NEW k \in Call, Crash(k)
      PROVE  StoreInv'
  <2>1. Quiet(k, "crashed")
    BY <1>15 DEF Crash, Quiet, StoreInv, LockHeld, Working, AfterLedger, Done, Replaying, Publishing
  <2> QED
    BY <1>15, <2>1, QuietStep, Unchanged DEF Crash
<1>16. ASSUME NEW k \in Call, FileError(k)
      PROVE  StoreInv'
  <2>1. SameEntries /\ UNCHANGED ledger  BY <1>16, Unchanged DEF FileError
  <2>2. CASE pc[k] \in Publishing
    <3>1. writer' = None /\ (Goto(k, "mark") \/ Goto(k, "restore"))
      BY <1>16, <2>2 DEF FileError, Publishing
    <3>2. Quiet(k, "mark") /\ Quiet(k, "restore")
      BY <2>2, <3>1 DEF Quiet, Working, AfterLedger, Done, Replaying, Publishing
    <3> QED  BY <2>1, <3>1, <3>2, QuietStep
  <2>3. CASE pc[k] \notin Publishing
    <3>1. /\ writer' = writer
          /\ \/ pc[k] = "restore" /\ Goto(k, "mark")
             \/ Goto(k, "pending") \/ Goto(k, pc[k]) \/ Goto(k, "cleanupPending")
      BY <1>16, <2>3 DEF FileError, CleanupFails, ResumeFails
    <3>2. /\ pc[k] = "restore" => Quiet(k, "mark")
          /\ Quiet(k, "pending") /\ Quiet(k, pc[k]) /\ Quiet(k, "cleanupPending")
      BY <2>3, <3>1 DEF StoreInv, FoundAdmitted, Quiet, Working, AfterLedger, Done, Replaying, Publishing
    <3> QED  BY <2>1, <3>1, <3>2, QuietStep
  <2> QED  BY <2>2, <2>3
<1>17. ASSUME NEW k \in Call, MarkFound(k)
      PROVE  StoreInv'
  <2>1. Quiet(k, "error")
    BY <1>17 DEF MarkFound, Quiet, Working, AfterLedger, Done, Replaying, Publishing
  <2> QED  BY <1>17, <2>1, QuietStep, Unchanged, RecoverStep DEF MarkFound
<1>18. ASSUME NEW k \in Call, RecordIntent(k)
      PROVE  StoreInv'
  <2>1. Quiet(k, "error")
    BY <1>18 DEF RecordIntent, Quiet, Working, AfterLedger, Done, Replaying, Publishing
  <2> QED  BY <1>18, <2>1, QuietStep, Unchanged, RecordStep DEF RecordIntent
<1>19. ASSUME NEW k \in Call, Begin(k)
      PROVE  StoreInv'
  <2>1. CASE UNCHANGED writer /\ Goto(k, "mark")
    <3>1. Quiet(k, "mark")
      BY <1>19, <2>1 DEF Begin, Quiet, Working, AfterLedger, Done, Replaying, Publishing
    <3> QED  BY <1>19, <2>1, <3>1, QuietStep, Unchanged DEF Begin
  <2> QED  BY <1>19, <2>1, BeginStep DEF Begin
<1>20. ASSUME NEW k \in Call, Mark(k)
      PROVE  StoreInv'
  <2>1. Quiet(k, "failed")
    BY <1>20 DEF Mark, Quiet, Working, AfterLedger, Done, Replaying, Publishing
  <2> QED  BY <1>20, <2>1, QuietStep, Unchanged, RecoverStep DEF Mark
<1>21. ASSUME NEW k \in Call, CommitJournal(k)
      PROVE  StoreInv'
  <2>1. Quiet(k, "markCommitted")
    BY <1>21 DEF CommitJournal, Quiet, Working, AfterLedger, Done, Replaying, Publishing
  <2> QED  BY <1>21, <2>1, QuietStep, Unchanged, CommitStep DEF CommitJournal
<1>22. CASE UNCHANGED vars
  BY <1>22, StillStep DEF vars
<1> HIDE DEF stores, images, locals, faults
<1> QED
  BY <1>1, <1>2, <1>3, <1>4, <1>5, <1>6, <1>7, <1>8, <1>9, <1>10, <1>11, <1>12, <1>13, <1>14, <1>15, <1>16, <1>17, <1>18, <1>19, <1>20, <1>21, <1>22, AdmitStep DEF Next, Step

\* The journal and the ledger agree at every step, for any calls, commands and plans.
THEOREM StoresAlwaysAgree == Spec => []StoresAgree
<1>1. Init => TypeOK /\ StoreInv  BY TypeInit, StoreInit
<1>2. TypeOK /\ StoreInv /\ [Next]_vars => (TypeOK /\ StoreInv)'  BY TypeNext, StoreNext
<1>3. StoreInv => StoresAgree
  <2> SUFFICES ASSUME StoreInv PROVE StoresAgree
    OBVIOUS
  <2>1. ASSUME NEW k \in Call, pc[k] \in AfterLedger \cup Done
        PROVE  ledger[CommandOf[k]] = k /\ Admitted(CommandOf[k])
    <3>1. CASE pc[k] \in AfterLedger
      BY <3>1, ContentFacts DEF StoreInv, OwnAdmission, Admitted
    <3>2. CASE pc[k] \in Done
      BY <3>2, ContentFacts DEF StoreInv, OwnCommit, Commitment, Status
    <3> QED  BY <2>1, <3>1, <3>2
  <2>2. Drafting = Working \cup AfterLedger \cup Done
    BY DEF Drafting, Working, AfterLedger, Done
  <2>3. ASSUME NEW j \in Call, NEW k \in Call, pc[j] \in Drafting, pc[k] \in Drafting,
               CommandOf[j] = CommandOf[k]
        PROVE  j = k
    <3>1. CASE pc[j] \in Working /\ pc[k] \in Working
      BY <2>3, <3>1 DEF StoreInv, OneWorks
    <3>2. CASE pc[j] \in AfterLedger \cup Done /\ pc[k] \in AfterLedger \cup Done
      BY <2>1, <2>3, <3>2
    <3>3. CASE \/ pc[j] \in Working /\ pc[k] \in AfterLedger \cup Done
               \/ pc[k] \in Working /\ pc[j] \in AfterLedger \cup Done
      BY <2>1, <2>3, <3>3 DEF StoreInv, OwnIntent
    <3> QED  BY <2>2, <2>3, <3>1, <3>2, <3>3
  <2> QED  BY <2>3 DEF StoreInv, Admission, Commitment, PlansApart, StoresAgree
<1> QED  BY <1>1, <1>2, <1>3, PTL DEF Spec

\* A step leaves what has been decided, and what a committed command was committed with.
Kept ==
  /\ DecisionKept
  /\ \A c \in Command : journal[c].status = "committed" => journal'[c].by = journal[c].by

LEMMA SameKept ==
  ASSUME SameEntries, UNCHANGED ledger
  PROVE  Kept
BY DEF SameEntries, Kept, DecisionKept

LEMMA RecoverKept ==
  ASSUME TypeOK, NEW k \in Call, UNCHANGED ledger,
         journal' = [journal EXCEPT ![CommandOf[k]] = Recovered(@)]
  PROVE  Kept
<1>1. journal \in [Command -> Entry]  BY DEF TypeOK
<1>2. CommandOf[k] \in Command  BY ContentFacts
<1> QED  BY <1>1, <1>2 DEF Kept, DecisionKept, Recovered, Entry

LEMMA NextKept ==
  ASSUME TypeOK, StoreInv, [Next]_vars
  PROVE  Kept
<1> USE DEF stores, images, locals, faults
<1>1. ASSUME NEW k \in Call, MarkFound(k) PROVE Kept
  BY <1>1, SameKept, Unchanged, RecoverKept DEF MarkFound
<1>2. ASSUME NEW k \in Call, Mark(k) PROVE Kept
  BY <1>2, SameKept, Unchanged, RecoverKept DEF Mark
<1>3. ASSUME NEW k \in Call, RecordIntent(k) PROVE Kept
  <2>1. CASE UNCHANGED journal  BY <1>3, <2>1, SameKept, Unchanged DEF RecordIntent
  <2>2. CASE ~UNCHANGED journal
    <3> DEFINE c == CommandOf[k]
    <3>1. /\ journal \in [Command -> Entry] /\ c \in Command  BY ContentFacts DEF TypeOK
    <3>2. journal[c].status = "none" /\ UNCHANGED ledger  BY <1>3, <2>2 DEF RecordIntent, Status
    <3>3. \A d \in Command : d # c => journal'[d] = journal[d]
      BY <1>3, <2>2, <3>1 DEF RecordIntent, Entry
    <3>4. \A d \in Command : journal[d].status \in {"recovery", "committed", "intent"} => journal'[d] = journal[d]
      BY <3>2, <3>3
    <3> QED  BY <3>2, <3>4 DEF Kept, DecisionKept
  <2> QED  BY <2>1, <2>2
<1>4. ASSUME NEW k \in Call, CommitJournal(k) PROVE Kept
  <2>1. CASE UNCHANGED journal  BY <1>4, <2>1, SameKept, Unchanged DEF CommitJournal
  <2>2. CASE ~UNCHANGED journal
    <3> DEFINE c == CommandOf[k]
    <3>1. /\ journal \in [Command -> Entry] /\ c \in Command  BY ContentFacts DEF TypeOK
    <3>2. /\ journal[c].status = "intent" /\ UNCHANGED ledger
      BY <1>4, <2>2 DEF CommitJournal, Undecided, Status
    <3>3. /\ journal'[c].status = "committed"
          /\ \A d \in Command : d # c => journal'[d] = journal[d]
      BY <1>4, <2>2, <3>1 DEF CommitJournal, Entry
    <3>4. \A d \in Command : journal[d].status \in {"recovery", "committed"} => journal'[d] = journal[d]
      BY <3>2, <3>3
    <3>5. \A d \in Command : journal[d].status = "intent" => journal'[d].status # "none"
      BY <3>3
    <3> QED  BY <3>2, <3>4, <3>5 DEF Kept, DecisionKept
  <2> QED  BY <2>1, <2>2
<1>5. ASSUME NEW k \in Call, CommitLedger(k) PROVE Kept
  <2>1. pc[k] \in Working  BY <1>5 DEF CommitLedger, Working, Publishing
  <2>2. ledger[CommandOf[k]] = None  BY <2>1 DEF StoreInv, OwnIntent, Admitted
  <2>3. \A d \in Command : ledger[d] # None => ledger'[d] = ledger[d]
    BY <1>5, <2>2, ContentFacts DEF CommitLedger, TypeOK
  <2> QED  BY <1>5, <2>3 DEF CommitLedger, Kept, DecisionKept
<1>6. ASSUME NEW k \in Call, CompleteCleanup(k) \/ MarkPending(k) \/ ReplayComplete(k) PROVE Kept
  <2>1. SameEntries /\ UNCHANGED ledger
    BY <1>6, Unchanged, CleanupOnly DEF CompleteCleanup, MarkPending, ReplayComplete
  <2> QED  BY <2>1, SameKept
<1>7. ASSUME UNCHANGED <<journal, ledger>> PROVE Kept
  BY <1>7, SameKept, Unchanged
<1>8. ASSUME NEW k \in Call,
             Open(k) \/ Find(k) \/ Begin(k) \/ Render(k) \/ FileError(k) \/ Crash(k)
      PROVE  Kept
  BY <1>7, <1>8 DEF Open, Find, Begin, Render, Abort, FileError, Crash
<1>9. ASSUME NEW k \in Call, NEW a \in Artifact,
             \/ Stage(k, a) \/ Backup(k, a) \/ Link(k, a) \/ RestoreTarget(k, a)
             \/ RestorePreimage(k, a) \/ RestoreStaged(k, a) \/ Finalize(k, a) \/ Resume(k, a)
      PROVE  Kept
  BY <1>7, <1>9 DEF Stage, Backup, Link, Abort, RestoreTarget, RestorePreimage, RestoreStaged,
    Finalize, Resume
<1>10. CASE UNCHANGED vars  BY <1>7, <1>10 DEF vars
<1> HIDE DEF stores, images, locals, faults
<1> QED
  BY <1>1, <1>2, <1>3, <1>4, <1>5, <1>6, <1>8, <1>9, <1>10 DEF Next, Step

\* What has been decided of a command is final.
THEOREM DecisionsKept == Spec => DecidedForGood
<1>1. Init => TypeOK /\ StoreInv  BY TypeInit, StoreInit
<1>2. TypeOK /\ StoreInv /\ [Next]_vars => (TypeOK /\ StoreInv)'  BY TypeNext, StoreNext
<1>3. TypeOK /\ StoreInv /\ [Next]_vars => [DecisionKept]_vars  BY NextKept DEF Kept
<1> QED  BY <1>1, <1>2, <1>3, PTL DEF Spec, DecidedForGood

-----------------------------------------------------------------------------
(* The stores and the answers implement PlanAdmission. *)

Said(k) == IF pc[k] \in Answers THEN pc[k] ELSE "none"

LEMMA PromiseInit == Init => Promise!Init
BY DEF Init, Promise!Init, Answers

\* What changes neither what is decided nor what is said is a stutter.
LEMMA PromiseStill ==
  ASSUME SameEntries, UNCHANGED ledger, \A k \in Call : Said(k)' = Said(k)
  PROVE  UNCHANGED Promise!vars
<1>1. [c \in Command |-> journal[c].status]' = [c \in Command |-> journal[c].status]
  BY DEF SameEntries
<1>2. [c \in Command |-> journal[c].digest]' = [c \in Command |-> journal[c].digest]
  BY DEF SameEntries
<1>3. [k \in Call |-> Said(k)]' = [k \in Call |-> Said(k)]
  OBVIOUS
<1> QED  BY <1>1, <1>2, <1>3 DEF Promise!vars, Promise!decision, Said

\* A call that goes on to a step that is no answer says nothing.
LEMMA SaidStill ==
  ASSUME TypeOK, NEW k \in Call, pc[k] \notin Answers, NEW l, l \notin Answers,
         Goto(k, l) \/ UNCHANGED pc
  PROVE  \A j \in Call : Said(j)' = Said(j)
<1>1. CASE Goto(k, l)
  <2>1. pc'[k] = l /\ \A j \in Call : j # k => pc'[j] = pc[j]  BY <1>1, GotoAt
  <2> QED  BY <2>1 DEF Said
<1>2. CASE UNCHANGED pc  BY <1>2 DEF Said
<1> QED  BY <1>1, <1>2

LEMMA SilentPromise ==
  ASSUME TypeOK, NEW k \in Call, pc[k] \notin Answers, NEW l, l \notin Answers,
         Goto(k, l) \/ UNCHANGED pc, SameEntries, UNCHANGED ledger
  PROVE  [Promise!Next]_(Promise!vars)
BY SaidStill, PromiseStill

\* A call that answers says one thing more.
LEMMA SaidOnce ==
  ASSUME TypeOK, NEW k \in Call, pc[k] \notin Answers, NEW l \in Answers, Goto(k, l)
  PROVE  /\ Said(k) = "none"
         /\ [j \in Call |-> Said(j)]' = [[j \in Call |-> Said(j)] EXCEPT ![k] = l]
<1>1. pc'[k] = l /\ \A j \in Call : j # k => pc'[j] = pc[j]  BY GotoAt
<1> QED  BY <1>1 DEF Said

\* When the stores bear an answer out.
Fitting(k, l) ==
  \/ l = "created" /\ Status(k) = "committed" /\ ledger[CommandOf[k]] = k
  \/ l = "replayed" /\ Status(k) = "committed" /\ SameDigest(k)
  \/ l = "conflict" /\ Status(k) # "none" /\ ~SameDigest(k)
  \/ l = "refused" /\ Status(k) \in {"intent", "recovery"} /\ SameDigest(k)

LEMMA SayPromise ==
  ASSUME TypeOK, NEW k \in Call, pc[k] \notin Answers, NEW l \in Answers, Goto(k, l),
         Fitting(k, l)
  PROVE  Promise!Say(k)
<1>1. CommandOf[k] \in Command  BY ContentFacts
<1>2. Promise!Fits(k, l)
  BY <1>1 DEF Promise!Fits, Promise!Same, Fitting, Status, SameDigest
<1> QED  BY <1>2, SaidOnce DEF Promise!Say, Answers, Said

LEMMA AnswerPromise ==
  ASSUME TypeOK, NEW k \in Call, pc[k] \notin Answers, NEW l \in Answers, Goto(k, l),
         Fitting(k, l), SameEntries, UNCHANGED ledger
  PROVE  [Promise!Next]_(Promise!vars)
<1>1. [c \in Command |-> journal[c].status]' = [c \in Command |-> journal[c].status]
  BY DEF SameEntries
<1>2. [c \in Command |-> journal[c].digest]' = [c \in Command |-> journal[c].digest]
  BY DEF SameEntries
<1>3. UNCHANGED Promise!decision  BY <1>1, <1>2 DEF Promise!decision
<1> QED  BY <1>3, SayPromise DEF Promise!Answer, Promise!Next

\* An intent that is put under recovery is given up, with or without an answer; a
\* command that is decided already stays as it is.
LEMMA GiveUpPromise ==
  ASSUME TypeOK, NEW k \in Call, pc[k] \notin Answers, NEW l, Goto(k, l),
         l \in Answers => Status(k) # "committed" /\ Fitting(k, l),
         journal' = [journal EXCEPT ![CommandOf[k]] = Recovered(@)], UNCHANGED ledger
  PROVE  [Promise!Next]_(Promise!vars)
<1> DEFINE c == CommandOf[k]
<1>1. c \in Command /\ journal \in [Command -> Entry]  BY ContentFacts DEF TypeOK
<1>2. CASE Status(k) = "intent"
  <2>1. /\ journal'[c].status = "recovery" /\ journal'[c].digest = journal[c].digest
        /\ \A d \in Command : d # c => journal'[d] = journal[d]
    BY <1>1, <1>2 DEF Recovered, Status, Entry
  <2>2. [d \in Command |-> journal[d].status]'
          = [[d \in Command |-> journal[d].status] EXCEPT ![c] = "recovery"]
    <3>1. \A d \in Command : journal'[d].status = IF d = c THEN "recovery" ELSE journal[d].status
      BY <2>1
    <3> HIDE DEF c
    <3> QED  BY <3>1
  <2>3. [d \in Command |-> journal[d].digest]' = [d \in Command |-> journal[d].digest]
    BY <2>1
  <2>4. Promise!Say(k) \/ [j \in Call |-> Said(j)]' = [j \in Call |-> Said(j)]
    BY SayPromise, SaidStill
  <2>5. Promise!GiveUp(k)
    BY <1>1, <1>2, <2>2, <2>3, <2>4 DEF Promise!GiveUp, Said, Status
  <2> QED  BY <2>5 DEF Promise!Next
<1>3. CASE Status(k) # "intent"
  <2>1. SameEntries  BY <1>1, <1>3 DEF SameEntries, Recovered, Status, Entry
  <2> QED  BY <2>1, SilentPromise, AnswerPromise
<1> QED  BY <1>2, <1>3

\* A call that records the first intent of its command intends.
LEMMA IntendPromise ==
  ASSUME TypeOK, NEW k \in Call, RecordIntent(k)
  PROVE  [Promise!Next]_(Promise!vars)
<1> DEFINE c == CommandOf[k]
<1>1. c \in Command /\ journal \in [Command -> Entry]  BY ContentFacts DEF TypeOK
<1>2. pc[k] \notin Answers /\ UNCHANGED ledger  BY DEF RecordIntent, Answers
<1>3. CASE /\ Status(k) = "none" /\ Goto(k, "begin")
           /\ journal' = [journal EXCEPT ![c].status = "intent", ![c].digest = DigestOf[k]]
  <2>1. /\ journal'[c].status = "intent" /\ journal'[c].digest = DigestOf[k]
        /\ \A d \in Command : d # c => journal'[d] = journal[d]
    BY <1>1, <1>3 DEF Entry
  <2>2. \A d \in Command :
          /\ journal'[d].status = IF d = c THEN "intent" ELSE journal[d].status
          /\ journal'[d].digest = IF d = c THEN DigestOf[k] ELSE journal[d].digest
    BY <2>1
  <2>3. \A j \in Call : Said(j)' = Said(j)  BY <1>2, <1>3, SaidStill DEF Answers
  <2>4. [j \in Call |-> Said(j)]' = [j \in Call |-> Said(j)]  BY <2>3
  <2>5. journal[c].status = "none"  BY <1>3 DEF Status
  <2> HIDE DEF c
  <2>6. [d \in Command |-> journal[d].status]'
          = [[d \in Command |-> journal[d].status] EXCEPT ![c] = "intent"]
    BY <2>2
  <2>7. [d \in Command |-> journal[d].digest]'
          = [[d \in Command |-> journal[d].digest] EXCEPT ![c] = DigestOf[k]]
    BY <2>2
  <2>8. Promise!Intend(k)
    BY <1>1, <1>2, <2>4, <2>5, <2>6, <2>7 DEF Promise!Intend, Said, c
  <2> QED  BY <2>8 DEF Promise!Next
<1>4. CASE UNCHANGED journal /\ Goto(k, "error")
  BY <1>2, <1>4, SilentPromise, Unchanged DEF Answers
<1> QED  BY <1>3, <1>4 DEF RecordIntent

\* The commit of the ledger's transaction admits the command, whose intent is the
\* call's own and whose plan nobody has taken.
LEMMA AdmitPromise ==
  ASSUME TypeOK, StoreInv, NEW k \in Call, CommitLedger(k)
  PROVE  [Promise!Next]_(Promise!vars)
<1> DEFINE c == CommandOf[k]
<1>1. c \in Command  BY ContentFacts
<1>2. pc[k] \in Publishing /\ pc[k] \in Working /\ pc[k] \notin Answers
  BY DEF CommitLedger, Publishing, Working, Answers
<1>3. journal[c].status = "intent" /\ journal[c].digest = DigestOf[k]
  BY <1>2 DEF StoreInv, OwnIntent, Status, SameDigest
<1>4. \A d \in Command : ledger[d] # None => PlanOf[d] # PlanOf[c]
  BY <1>2 DEF StoreInv, PlanFree, PlanTaken
<1>5. Goto(k, "commitJournal") /\ UNCHANGED journal /\ ledger' = [ledger EXCEPT ![c] = k]
  BY DEF CommitLedger
<1>6. \A j \in Call : Said(j)' = Said(j)  BY <1>2, <1>5, SaidStill DEF Answers
<1>7. [j \in Call |-> Said(j)]' = [j \in Call |-> Said(j)]  BY <1>6
<1>8. Promise!Admit(k)
  BY <1>1, <1>3, <1>4, <1>5, <1>7 DEF Promise!Admit, Promise!Same, Said
<1> QED  BY <1>8 DEF Promise!Next

\* The journal commits what the ledger has admitted for the same call.
LEMMA CommitPromise ==
  ASSUME TypeOK, StoreInv, NEW k \in Call, CommitJournal(k)
  PROVE  [Promise!Next]_(Promise!vars)
<1> DEFINE c == CommandOf[k]
<1>1. c \in Command /\ journal \in [Command -> Entry]  BY ContentFacts DEF TypeOK
<1>2. pc[k] \notin Answers /\ UNCHANGED ledger /\ ledger[c] = k
  BY DEF CommitJournal, Answers, StoreInv, OwnAdmission, AfterLedger
<1>3. CASE /\ Undecided(k) /\ Goto(k, "finalize")
           /\ journal' = [journal EXCEPT ![c].status = "committed", ![c].by = k,
                                         ![c].cleanup = "pending"]
  <2>1. /\ journal'[c].status = "committed" /\ journal'[c].digest = journal[c].digest
        /\ \A d \in Command : d # c => journal'[d] = journal[d]
    BY <1>1, <1>3 DEF Entry
  <2>2. \A d \in Command :
          /\ journal'[d].status = IF d = c THEN "committed" ELSE journal[d].status
          /\ journal'[d].digest = journal[d].digest
    BY <2>1
  <2>3. \A j \in Call : Said(j)' = Said(j)  BY <1>2, <1>3, SaidStill DEF Answers
  <2>4. [j \in Call |-> Said(j)]' = [j \in Call |-> Said(j)]  BY <2>3
  <2>5. journal[c].status = "intent"  BY <1>3 DEF Undecided, Status
  <2> HIDE DEF c
  <2>6. [d \in Command |-> journal[d].status]'
          = [[d \in Command |-> journal[d].status] EXCEPT ![c] = "committed"]
    BY <2>2
  <2>7. [d \in Command |-> journal[d].digest]' = [d \in Command |-> journal[d].digest]
    BY <2>2
  <2>8. Promise!Commit(k)
    BY <1>1, <1>2, <2>4, <2>5, <2>6, <2>7 DEF Promise!Commit, Said, c
  <2> QED  BY <2>8 DEF Promise!Next
<1>4. CASE UNCHANGED journal /\ Goto(k, "markCommitted")
  BY <1>2, <1>4, SilentPromise, Unchanged DEF Answers
<1> QED  BY <1>3, <1>4 DEF CommitJournal

\* Looking for the command answers conflict or refused as the stores have it.
LEMMA FindPromise ==
  ASSUME TypeOK, NEW k \in Call, Find(k)
  PROVE  [Promise!Next]_(Promise!vars)
<1>1. pc[k] \notin Answers /\ SameEntries /\ UNCHANGED ledger
  BY Unchanged DEF Find, stores, Answers
<1>2. \/ \E l \in {"record", "markFound", "resumeSource"} : Goto(k, l)
      \/ Goto(k, "conflict") /\ Fitting(k, "conflict")
      \/ Goto(k, "refused") /\ Fitting(k, "refused")
  BY DEF Find, Fitting, Undecided
<1>3. ASSUME NEW l \in {"record", "markFound", "resumeSource"}, Goto(k, l)
      PROVE  [Promise!Next]_(Promise!vars)
  BY <1>1, <1>3, SilentPromise DEF Answers
<1>4. ASSUME NEW l \in {"conflict", "refused"}, Goto(k, l), Fitting(k, l)
      PROVE  [Promise!Next]_(Promise!vars)
  BY <1>1, <1>4, AnswerPromise DEF Answers
<1> QED  BY <1>2, <1>3, <1>4

LEMMA MarkPromise ==
  ASSUME TypeOK, StoreInv, NEW k \in Call, MarkFound(k) \/ Mark(k)
  PROVE  [Promise!Next]_(Promise!vars)
<1>1. pc[k] \notin Answers /\ UNCHANGED ledger  BY DEF MarkFound, Mark, Answers
<1>2. CASE MarkFound(k)
  <2>1. CASE UNCHANGED journal /\ Goto(k, "error")
    BY <1>1, <2>1, SilentPromise, Unchanged DEF Answers
  <2>2. CASE /\ Status(k) # "committed" /\ Goto(k, IF SameDigest(k) THEN "refused" ELSE "conflict")
             /\ journal' = [journal EXCEPT ![CommandOf[k]] = Recovered(@)]
    <3>1. Status(k) \in {"intent", "recovery"}
      <4>1. Status(k) # "none"
        BY <1>2, ContentFacts DEF MarkFound, StoreInv, FoundAdmitted, Admission, Status
      <4>2. journal[CommandOf[k]] \in Entry  BY ContentFacts DEF TypeOK
      <4> QED  BY <2>2, <4>1, <4>2 DEF Entry, Status
    <3> DEFINE l == IF SameDigest(k) THEN "refused" ELSE "conflict"
    <3>2. Fitting(k, l)  BY <3>1 DEF Fitting
    <3> QED  BY <1>1, <2>2, <3>2, GiveUpPromise
  <2> QED  BY <1>2, <2>1, <2>2 DEF MarkFound
<1>3. CASE Mark(k)
  <2>1. CASE UNCHANGED journal
    BY <1>1, <1>3, <2>1, SilentPromise, Unchanged DEF Mark, Answers
  <2>2. CASE journal' = [journal EXCEPT ![CommandOf[k]] = Recovered(@)]
    BY <1>1, <1>3, <2>2, GiveUpPromise DEF Mark, Answers
  <2> QED  BY <1>3, <2>1, <2>2 DEF Mark
<1> QED  BY <1>2, <1>3

\* Cleanup decides nothing; created is said of the call's own commit.
LEMMA CleanupPromise ==
  ASSUME TypeOK, StoreInv, NEW k \in Call, CompleteCleanup(k) \/ MarkPending(k)
  PROVE  [Promise!Next]_(Promise!vars)
<1>1. pc[k] \notin Answers /\ UNCHANGED ledger /\ SameEntries
  BY Unchanged, CleanupOnly DEF CompleteCleanup, MarkPending, Answers
<1>2. ASSUME NEW l, Goto(k, l), l \notin Answers PROVE [Promise!Next]_(Promise!vars)
  BY <1>1, <1>2, SilentPromise
<1>3. CASE CompleteCleanup(k) /\ Goto(k, "created")
  <2>1. Status(k) = "committed" /\ journal[CommandOf[k]].by = k
    BY <1>3 DEF CompleteCleanup, StoreInv, OwnCommit, Done
  <2>2. ledger[CommandOf[k]] = k
    BY <2>1, ContentFacts DEF StoreInv, Commitment, Status
  <2>3. Fitting(k, "created")  BY <2>1, <2>2 DEF Fitting
  <2> QED  BY <1>1, <1>3, <2>3, AnswerPromise DEF Answers
<1>4. CASE CompleteCleanup(k) /\ CleanupFails(k)
  <2>1. Goto(k, "pending") \/ Goto(k, "complete")
    BY <1>4 DEF CompleteCleanup, CleanupFails
  <2> QED  BY <1>2, <2>1 DEF Answers
<1>5. CASE MarkPending(k)  BY <1>2, <1>5 DEF MarkPending, Answers
<1> QED  BY <1>3, <1>4, <1>5 DEF CompleteCleanup

\* A replay goes on only while its command is committed with its own payload, so that
\* replayed is what it is.
LEMMA ReplayPromise ==
  ASSUME TypeOK, StoreInv, NEW k \in Call, ReplayComplete(k) \/ \E a \in Artifact : Resume(k, a)
  PROVE  [Promise!Next]_(Promise!vars)
<1>1. /\ pc[k] \in {"resumeSource", "resumeProjection", "replayComplete"}
      /\ pc[k] \notin Answers /\ UNCHANGED ledger /\ SameEntries
  BY Unchanged, CleanupOnly DEF ReplayComplete, Resume, Artifact, Answers, stores
<1>2. Fitting(k, "replayed")
  BY <1>1 DEF StoreInv, ReplayFound, Replaying, Fitting
<1>3. \E l \in {"resumeProjection", "replayComplete", "replayed", "pending", "cleanupPending"} :
        Goto(k, l)
  BY DEF ReplayComplete, Resume, Resumed, ResumeFails
<1>4. ASSUME NEW l \in {"resumeProjection", "replayComplete", "pending", "cleanupPending"},
             Goto(k, l)
      PROVE  [Promise!Next]_(Promise!vars)
  BY <1>1, <1>4, SilentPromise DEF Answers
<1>5. CASE Goto(k, "replayed")  BY <1>1, <1>2, <1>5, AnswerPromise DEF Answers
<1> QED  BY <1>3, <1>4, <1>5

\* Publishing and restoring files, failing and dying decide nothing and say nothing.
LEMMA FilePromise ==
  ASSUME TypeOK, NEW k \in Call, Open(k) \/ Begin(k) \/ Render(k) \/ FileError(k) \/ Crash(k)
           \/ \E a \in Artifact :
                \/ Stage(k, a) \/ Backup(k, a) \/ Link(k, a) \/ RestoreTarget(k, a)
                \/ RestorePreimage(k, a) \/ RestoreStaged(k, a) \/ Finalize(k, a)
  PROVE  [Promise!Next]_(Promise!vars)
<1> USE DEF stores, images, locals, faults
<1>1. ASSUME pc[k] \notin Answers, UNCHANGED <<journal, ledger>>,
             NEW l, l \notin Answers, Goto(k, l) \/ UNCHANGED pc
      PROVE  [Promise!Next]_(Promise!vars)
  BY <1>1, SilentPromise, Unchanged
<1>2. ASSUME NEW a \in Artifact, Stage(k, a) \/ Backup(k, a) \/ Link(k, a)
      PROVE  [Promise!Next]_(Promise!vars)
  <2>1. pc[k] \notin Answers /\ UNCHANGED <<journal, ledger>>
    BY <1>2 DEF Stage, Backup, Link, PublishTurn, Abort, Answers
  <2>2. \/ UNCHANGED pc
        \/ \E l \in {"publish", "commitLedger", "restore", "mark"} : Goto(k, l)
    BY <1>2 DEF Stage, Backup, Link, Abort
  <2> QED  BY <1>1, <2>1, <2>2 DEF Answers
<1>3. ASSUME NEW a \in Artifact,
             RestoreTarget(k, a) \/ RestorePreimage(k, a) \/ RestoreStaged(k, a) \/ Finalize(k, a)
      PROVE  [Promise!Next]_(Promise!vars)
  <2>1. pc[k] \notin Answers /\ UNCHANGED <<journal, ledger>>
    BY <1>3 DEF RestoreTarget, RestorePreimage, RestoreStaged, Finalize, Answers
  <2>2. \/ UNCHANGED pc
        \/ \E l \in {"mark", "complete", "pending", "finalize"} : Goto(k, l)
    BY <1>3 DEF RestoreTarget, RestorePreimage, RestoreStaged, Finalize, CleanupFails
  <2> QED  BY <1>1, <2>1, <2>2 DEF Answers
<1>4. CASE Open(k) \/ Begin(k) \/ Render(k)
  <2>1. pc[k] \notin Answers /\ UNCHANGED <<journal, ledger>>
    BY <1>4 DEF Open, Begin, Render, Abort, Answers
  <2>2. \E l \in {"find", "error", "render", "mark", "stage", "restore"} : Goto(k, l)
    BY <1>4 DEF Open, Begin, Render, Abort
  <2> QED  BY <1>1, <2>1, <2>2 DEF Answers
<1>5. CASE FileError(k)
  <2>1. pc[k] \notin Answers /\ UNCHANGED <<journal, ledger>>
    BY <1>5 DEF FileError, Publishing, Answers
  <2>2. \E l \in {"mark", "restore", "pending", "finalize", "cleanupPending"} : Goto(k, l)
    BY <1>5 DEF FileError, CleanupFails, ResumeFails
  <2> QED  BY <1>1, <2>1, <2>2 DEF Answers
<1>6. CASE Crash(k)
  BY <1>1, <1>6 DEF Crash, Ended, Answers
<1> QED  BY <1>2, <1>3, <1>4, <1>5, <1>6

LEMMA PromiseStep ==
  ASSUME TypeOK, StoreInv, [Next]_vars
  PROVE  [Promise!Next]_(Promise!vars)
<1>1. CASE UNCHANGED vars
  <2>1. SameEntries /\ UNCHANGED ledger /\ \A k \in Call : Said(k)' = Said(k)
    BY <1>1, Unchanged DEF vars, stores, Said
  <2> QED  BY <2>1, PromiseStill
<1>2. ASSUME NEW k \in Call, Step(k) PROVE [Promise!Next]_(Promise!vars)
  BY <1>2, IntendPromise, AdmitPromise, CommitPromise, FindPromise, MarkPromise, CleanupPromise,
     ReplayPromise, FilePromise DEF Step
<1> QED  BY <1>1, <1>2, FilePromise DEF Next

\* For any calls, commands and plans, the saga over journal, ledger and files keeps the
\* promise of a draft without stores: one decision per command, true answers.
THEOREM ImplementsAdmission == Spec => AdmissionSpec
<1>1. Init => TypeOK /\ StoreInv /\ Promise!Init  BY TypeInit, StoreInit, PromiseInit
<1>2. TypeOK /\ StoreInv /\ [Next]_vars => (TypeOK /\ StoreInv)'  BY TypeNext, StoreNext
<1>3. TypeOK /\ StoreInv /\ [Next]_vars => [Promise!Next]_(Promise!vars)  BY PromiseStep
<1> QED  BY <1>1, <1>2, <1>3, PTL DEF Spec, AdmissionSpec, Promise!Spec

-----------------------------------------------------------------------------
(* What the calls report. *)

FinalizedClean == \A k \in Call, a \in Artifact : stage[k][a] = "finalized" => rollback[k][a] = None
CompleteFinalized == \A k \in Call : pc[k] \in {"complete", "created"} =>
  \A a \in Artifact : stage[k][a] = "finalized"
SourceResumed == \A k \in Call : pc[k] = "resumeProjection" =>
  rollback[journal[CommandOf[k]].by]["source"] = None
BothResumed == \A k \in Call : pc[k] \in {"replayComplete", "replayed"} =>
  \A a \in Artifact : rollback[journal[CommandOf[k]].by][a] = None

ReportInv == FinalizedClean /\ CompleteFinalized /\ SourceResumed /\ BothResumed

Reporting == {"complete", "created", "resumeProjection", "replayComplete", "replayed"}
Cleaned == {"replayComplete", "replayed"}

\* What has been removed of the preimages put aside stays removed, but for k's own.
Removed(k) == \A j \in Call, a \in Artifact :
  rollback[j][a] = None => rollback'[j][a] = None \/ (j = k /\ pc[k] \in Working)

\* Only k moves.
Only(k) == \A j \in Call : j # k => pc'[j] = pc[j] /\ stage'[j] = stage[j]

LEMMA OnlyGoto ==
  ASSUME TypeOK, NEW k \in Call, NEW l, Goto(k, l) \/ UNCHANGED pc,
         UNCHANGED stage \/ \E a \in Artifact, s \in Stages : SetStage(k, a, s)
  PROVE  Only(k)
BY DEF TypeOK, Goto, SetStage, Only

\* The preimages of a committed command are not put aside again.
LEMMA RemovedForGood ==
  ASSUME TypeOK, StoreInv, NEW k \in Call, Removed(k), Kept,
         NEW c \in Command, journal[c].status = "committed",
         NEW a \in Artifact, rollback[journal[c].by][a] = None
  PROVE  rollback'[journal'[c].by][a] = None
<1> DEFINE o == journal[c].by
<1>1. /\ journal'[c].by = o
      /\ o \in Call /\ CommandOf[o] = c /\ Admitted(c)
  <2>1. Admitted(c) /\ ledger[c] = o /\ CommandOf[o] = c
    BY DEF StoreInv, Commitment, Admission
  <2>2. ledger[c] \in Call \cup {None}  BY DEF TypeOK
  <2> QED  BY <2>1, <2>2 DEF Kept, Admitted
<1>2. pc[o] \notin Working  BY <1>1 DEF StoreInv, OwnIntent
<1> QED  BY <1>1, <1>2 DEF Removed

\* What a step of k has to show of k itself.
Reports(k) == LET o == journal'[CommandOf[k]].by IN
  /\ \A a \in Artifact : stage'[k][a] = "finalized" => rollback'[k][a] = None
  /\ pc'[k] \in {"complete", "created"} => \A a \in Artifact : stage'[k][a] = "finalized"
  /\ pc'[k] = "resumeProjection" => rollback'[o]["source"] = None
  /\ pc'[k] \in Cleaned => \A a \in Artifact : rollback'[o][a] = None

LEMMA ReportStep ==
  ASSUME TypeOK, StoreInv, ReportInv, Kept, NEW k \in Call, Only(k), Removed(k), Reports(k)
  PROVE  ReportInv'
<1>1. FinalizedClean'
  <2> SUFFICES ASSUME NEW j \in Call, NEW a \in Artifact, stage'[j][a] = "finalized"
               PROVE  rollback'[j][a] = None
    BY DEF FinalizedClean
  <2>1. CASE j = k  BY <2>1 DEF Reports
  <2>2. CASE j # k  BY <2>2 DEF ReportInv, FinalizedClean, Only, Removed
  <2> QED  BY <2>1, <2>2
<1>2. CompleteFinalized'
  BY DEF ReportInv, CompleteFinalized, Only, Reports
<1>3. ASSUME NEW j \in Call, pc[j] \in Replaying
      PROVE  CommandOf[j] \in Command /\ journal[CommandOf[j]].status = "committed"
  BY <1>3, ContentFacts DEF StoreInv, ReplayFound, Status
<1>4. SourceResumed'
  <2> SUFFICES ASSUME NEW j \in Call, pc'[j] = "resumeProjection"
               PROVE  rollback'[journal'[CommandOf[j]].by]["source"] = None
    BY DEF SourceResumed
  <2>1. CASE j = k  BY <2>1 DEF Reports
  <2>2. CASE j # k
    BY <1>3, <2>2, RemovedForGood DEF ReportInv, SourceResumed, Only, Replaying, Artifact
  <2> QED  BY <2>1, <2>2
<1>5. BothResumed'
  <2> SUFFICES ASSUME NEW j \in Call, pc'[j] \in Cleaned, NEW a \in Artifact
               PROVE  rollback'[journal'[CommandOf[j]].by][a] = None
    BY DEF BothResumed, Cleaned
  <2>1. CASE j = k  BY <2>1 DEF Reports
  <2>2. CASE j # k
    BY <1>3, <2>2, RemovedForGood DEF ReportInv, BothResumed, Only, Replaying, Cleaned
  <2> QED  BY <2>1, <2>2
<1> QED  BY <1>1, <1>2, <1>4, <1>5 DEF ReportInv

\* A step of k that reports nothing new.
LEMMA SilentStep ==
  ASSUME TypeOK, StoreInv, ReportInv, Kept, NEW k \in Call, Only(k), Removed(k),
         pc'[k] \notin Reporting,
         \A a \in Artifact : stage'[k][a] = "finalized" => rollback'[k][a] = None
  PROVE  ReportInv'
BY ReportStep DEF Reports, Reporting, Cleaned

\* A step of k that touches no file.
LEMMA FilelessStep ==
  ASSUME TypeOK, StoreInv, ReportInv, Kept, NEW k \in Call, NEW l, Goto(k, l),
         l \notin Reporting \/ pc[k] = l, UNCHANGED <<rollback, stage>>
  PROVE  ReportInv'
<1>1. Only(k) /\ Removed(k)  BY OnlyGoto DEF Removed
<1>2. \A a \in Artifact : stage'[k][a] = "finalized" => rollback'[k][a] = None
  BY DEF ReportInv, FinalizedClean
<1>3. pc'[k] = l  BY GotoAt
<1>4. CASE l \notin Reporting  BY <1>1, <1>2, <1>3, <1>4, SilentStep
<1>5. CASE pc[k] = l
  <2>1. ASSUME l \in Replaying
        PROVE  CommandOf[k] \in Command /\ journal[CommandOf[k]].status = "committed"
    BY <1>5, <2>1, ContentFacts DEF StoreInv, ReplayFound, Status
  <2>2. Reports(k)
    BY <1>1, <1>2, <1>3, <1>5, <2>1, RemovedForGood
    DEF Reports, ReportInv, CompleteFinalized, SourceResumed, BothResumed, Replaying, Cleaned, Artifact
  <2> QED  BY <1>1, <2>2, ReportStep
<1> QED  BY <1>4, <1>5

LEMMA ReportNext ==
  ASSUME TypeOK, StoreInv, ReportInv, [Next]_vars
  PROVE  ReportInv'
<1> USE DEF stores, images, locals, faults
<1> Kept  BY NextKept
<1>1. ASSUME NEW k \in Call, Open(k) PROVE ReportInv'
  BY <1>1, FilelessStep DEF Open, Reporting
<1>2. ASSUME NEW k \in Call, Find(k) PROVE ReportInv'
  BY <1>2, FilelessStep DEF Find, Reporting
<1>3. ASSUME NEW k \in Call, MarkFound(k) PROVE ReportInv'
  BY <1>3, FilelessStep DEF MarkFound, Reporting
<1>4. ASSUME NEW k \in Call, RecordIntent(k) PROVE ReportInv'
  BY <1>4, FilelessStep DEF RecordIntent, Reporting
<1>5. ASSUME NEW k \in Call, Begin(k) PROVE ReportInv'
  BY <1>5, FilelessStep DEF Begin, Reporting
<1>6. ASSUME NEW k \in Call, Render(k) PROVE ReportInv'
  BY <1>6, FilelessStep DEF Render, Reporting, Abort
<1>7. ASSUME NEW k \in Call, CommitLedger(k) PROVE ReportInv'
  BY <1>7, FilelessStep DEF CommitLedger, Reporting
<1>8. ASSUME NEW k \in Call, Mark(k) PROVE ReportInv'
  BY <1>8, FilelessStep DEF Mark, Reporting
<1>9. ASSUME NEW k \in Call, CommitJournal(k) PROVE ReportInv'
  BY <1>9, FilelessStep DEF CommitJournal, Reporting
<1>10. ASSUME NEW k \in Call, MarkPending(k) PROVE ReportInv'
  BY <1>10, FilelessStep DEF MarkPending, Reporting
<1>11. ASSUME NEW k \in Call, FileError(k) PROVE ReportInv'
  BY <1>11, FilelessStep DEF FileError, Reporting, CleanupFails, ResumeFails
<1>12. ASSUME NEW k \in Call, Crash(k) PROVE ReportInv'
  BY <1>12, FilelessStep DEF Crash, Reporting
<1>13. ASSUME NEW k \in Call, CompleteCleanup(k) PROVE ReportInv'
  <2>1. pc[k] = "complete" /\ UNCHANGED <<rollback, stage>>  BY <1>13 DEF CompleteCleanup
  <2>2. CASE Goto(k, "created")
    <3>1. Only(k) /\ Removed(k)  BY <2>1, <2>2, OnlyGoto DEF Removed
    <3>2. pc'[k] = "created"  BY <2>2, GotoAt
    <3>3. Reports(k)
      BY <2>1, <3>2 DEF Reports, ReportInv, FinalizedClean, CompleteFinalized, Cleaned
    <3> QED  BY <3>1, <3>3, ReportStep
  <2>3. CASE CleanupFails(k)
    BY <1>13, <2>1, <2>3, FilelessStep DEF CleanupFails, Reporting
  <2> QED  BY <1>13, <2>2, <2>3 DEF CompleteCleanup
<1>14. ASSUME NEW k \in Call, ReplayComplete(k) PROVE ReportInv'
  <2>1. pc[k] = "replayComplete" /\ UNCHANGED <<rollback, stage>>  BY <1>14 DEF ReplayComplete
  <2>2. CASE Goto(k, "replayed")
    <3>1. Only(k) /\ Removed(k)  BY <2>1, <2>2, OnlyGoto DEF Removed
    <3>2. pc'[k] = "replayed"  BY <2>2, GotoAt
    <3>3. CommandOf[k] \in Command /\ journal[CommandOf[k]].status = "committed"
      BY <2>1, ContentFacts DEF StoreInv, ReplayFound, Replaying, Status
    <3>4. \A a \in Artifact : rollback[journal[CommandOf[k]].by][a] = None
      BY <2>1 DEF ReportInv, BothResumed
    <3>5. Reports(k)
      BY <2>1, <3>1, <3>2, <3>3, <3>4, RemovedForGood DEF Reports, ReportInv, FinalizedClean
    <3> QED  BY <3>1, <3>5, ReportStep
  <2>3. CASE Goto(k, "pending")
    BY <2>1, <2>3, FilelessStep DEF Reporting
  <2> QED  BY <1>14, <2>2, <2>3 DEF ReplayComplete
<1>15. ASSUME NEW k \in Call, NEW a \in Artifact, Stage(k, a) PROVE ReportInv'
  <2>1. Only(k)
    BY <1>15, OnlyGoto DEF Stage, Stages
  <2>2. Removed(k)
    BY <1>15 DEF Stage, Removed, TypeOK
  <2>3. pc'[k] \notin Reporting
    BY <1>15 DEF Stage, Goto, Reporting, TypeOK
  <2>4. \A b \in Artifact : stage'[k][b] = "finalized" => rollback'[k][b] = None
    BY <1>15 DEF Stage, SetStage, ReportInv, FinalizedClean, TypeOK
  <2> QED  BY <2>1, <2>2, <2>3, <2>4, SilentStep
<1>16. ASSUME NEW k \in Call, NEW a \in Artifact, Backup(k, a) PROVE ReportInv'
  <2>1. Only(k)
    BY <1>16, OnlyGoto DEF Backup, Stages, PublishTurn, Abort
  <2>2. Removed(k)
    BY <1>16 DEF Backup, Removed, TypeOK, PublishTurn, Abort, SetRollback, Working, Publishing
  <2>3. pc'[k] \notin Reporting
    BY <1>16 DEF Backup, Goto, Reporting, TypeOK, PublishTurn, Abort
  <2>4. \A b \in Artifact : stage'[k][b] = "finalized" => rollback'[k][b] = None
    BY <1>16 DEF Backup, SetStage, ReportInv, FinalizedClean, TypeOK, PublishTurn, Abort, SetRollback, Working, Publishing
  <2> QED  BY <2>1, <2>2, <2>3, <2>4, SilentStep
<1>17. ASSUME NEW k \in Call, NEW a \in Artifact, Link(k, a) PROVE ReportInv'
  <2>1. Only(k)
    BY <1>17, OnlyGoto DEF Link, Stages, PublishTurn, Abort
  <2>2. Removed(k)
    BY <1>17 DEF Link, Removed, TypeOK, PublishTurn, Abort
  <2>3. pc'[k] \notin Reporting
    BY <1>17 DEF Link, Goto, Reporting, TypeOK, PublishTurn, Abort
  <2>4. \A b \in Artifact : stage'[k][b] = "finalized" => rollback'[k][b] = None
    BY <1>17 DEF Link, SetStage, ReportInv, FinalizedClean, TypeOK, PublishTurn, Abort
  <2> QED  BY <2>1, <2>2, <2>3, <2>4, SilentStep
<1>18. ASSUME NEW k \in Call, NEW a \in Artifact, RestoreTarget(k, a) PROVE ReportInv'
  <2>1. Only(k)
    BY <1>18, OnlyGoto DEF RestoreTarget, Stages
  <2>2. Removed(k)
    BY <1>18 DEF RestoreTarget, Removed, TypeOK
  <2>3. pc'[k] \notin Reporting
    BY <1>18 DEF RestoreTarget, Goto, Reporting, TypeOK
  <2>4. \A b \in Artifact : stage'[k][b] = "finalized" => rollback'[k][b] = None
    BY <1>18 DEF RestoreTarget, SetStage, ReportInv, FinalizedClean, TypeOK
  <2> QED  BY <2>1, <2>2, <2>3, <2>4, SilentStep
<1>19. ASSUME NEW k \in Call, NEW a \in Artifact, RestorePreimage(k, a) PROVE ReportInv'
  <2>1. Only(k)
    BY <1>19, OnlyGoto DEF RestorePreimage, Stages
  <2>2. Removed(k)
    BY <1>19 DEF RestorePreimage, Removed, TypeOK, SetRollback
  <2>3. pc'[k] \notin Reporting
    BY <1>19 DEF RestorePreimage, Goto, Reporting, TypeOK
  <2>4. \A b \in Artifact : stage'[k][b] = "finalized" => rollback'[k][b] = None
    BY <1>19 DEF RestorePreimage, SetStage, ReportInv, FinalizedClean, TypeOK, SetRollback
  <2> QED  BY <2>1, <2>2, <2>3, <2>4, SilentStep
<1>20. ASSUME NEW k \in Call, NEW a \in Artifact, RestoreStaged(k, a) PROVE ReportInv'
  <2>1. Only(k)
    BY <1>20, OnlyGoto DEF RestoreStaged, Stages
  <2>2. Removed(k)
    BY <1>20 DEF RestoreStaged, Removed, TypeOK
  <2>3. pc'[k] \notin Reporting
    BY <1>20 DEF RestoreStaged, Goto, Reporting, TypeOK
  <2>4. \A b \in Artifact : stage'[k][b] = "finalized" => rollback'[k][b] = None
    BY <1>20 DEF RestoreStaged, SetStage, ReportInv, FinalizedClean, TypeOK
  <2> QED  BY <2>1, <2>2, <2>3, <2>4, SilentStep
<1>21. ASSUME NEW k \in Call, NEW a \in Artifact, Finalize(k, a) PROVE ReportInv'
  <2>1. CASE CleanupFails(k) /\ UNCHANGED <<rollback, stage>>
    BY <1>21, <2>1, FilelessStep DEF Finalize, CleanupFails, Reporting
  <2>2. CASE SetRollback(k, a, None) /\ SetStage(k, a, "finalized")
    <3>1. Only(k)  BY <1>21, <2>2, OnlyGoto DEF Finalize, Stages, CleanupFails
    <3>2. Removed(k)  BY <2>2 DEF SetRollback, Removed, TypeOK
    <3>3. /\ stage'[k][a] = "finalized" /\ rollback'[k][a] = None
          /\ \A b \in Artifact : b # a => stage'[k][b] = stage[k][b] /\ rollback'[k][b] = rollback[k][b]
      BY <2>2 DEF SetStage, SetRollback, TypeOK
    <3>4. \/ pc'[k] = "finalize"
          \/ pc'[k] = "pending"
          \/ pc'[k] = "complete" /\ a = "projection" /\ stage[k]["source"] = "finalized"
      BY <1>21, <2>2, GotoAt DEF Finalize, CleanupFails
    <3>5. Reports(k)
      BY <3>3, <3>4 DEF Reports, ReportInv, FinalizedClean, Cleaned, Artifact
    <3> QED  BY <3>1, <3>2, <3>5, ReportStep
  <2> QED  BY <1>21, <2>1, <2>2 DEF Finalize
<1>22. ASSUME NEW k \in Call, NEW a \in Artifact, Resume(k, a) PROVE ReportInv'
  <2> DEFINE o == journal[CommandOf[k]].by
  <2>1. UNCHANGED <<journal, stage>> /\ pc[k] \in Replaying  BY <1>22 DEF Resume, Replaying
  <2>2. CASE ResumeFails(k) /\ UNCHANGED rollback
    BY <2>1, <2>2, FilelessStep DEF ResumeFails, Reporting
  <2>3. CASE SetRollback(o, a, None) /\ Goto(k, Resumed(k))
    <3>1. Only(k)  BY <2>1, <2>3, OnlyGoto
    <3>2. o \in Call
      <4>1. CommandOf[k] \in Command /\ journal[CommandOf[k]].status = "committed"
        BY <2>1, ContentFacts DEF StoreInv, ReplayFound, Status
      <4>2. ledger[CommandOf[k]] = o /\ o # None
        BY <4>1 DEF StoreInv, Commitment, Admitted
      <4> QED  BY <4>1, <4>2 DEF TypeOK
    <3>3. rollback'[o][a] = None /\ Removed(k)
          /\ \A b \in Artifact : rollback[o][b] = None => rollback'[o][b] = None
      BY <2>3, <3>2 DEF SetRollback, Removed, TypeOK
    <3>4. \A b \in Artifact : rollback[k][b] = None => rollback'[k][b] = None
      BY <2>3, <3>2 DEF SetRollback, TypeOK
    <3>5. CASE a = "source"
      <4>1. pc'[k] = "resumeProjection"
        BY <1>22, <2>3, <3>5, GotoAt DEF Resume, Resumed
      <4>2. Reports(k)
        BY <2>1, <3>3, <3>4, <3>5, <4>1 DEF Reports, ReportInv, FinalizedClean, Cleaned
      <4> QED  BY <3>1, <3>3, <4>2, ReportStep
    <3>6. CASE a = "projection"
      <4>1. pc[k] = "resumeProjection"  BY <1>22, <3>6 DEF Resume
      <4>2. pc'[k] \in Cleaned  BY <2>3, <4>1, GotoAt DEF Resumed, Cleaned
      <4>3. rollback[o]["source"] = None  BY <4>1 DEF ReportInv, SourceResumed
      <4>4. \A b \in Artifact : rollback'[o][b] = None
        BY <3>3, <3>6, <4>3 DEF Artifact
      <4>5. Reports(k)
        BY <2>1, <3>4, <4>2, <4>4 DEF Reports, ReportInv, FinalizedClean, Cleaned
      <4> QED  BY <3>1, <3>3, <4>5, ReportStep
    <3> QED  BY <3>5, <3>6 DEF Artifact
  <2> QED  BY <1>22, <2>2, <2>3 DEF Resume
<1>23. CASE UNCHANGED vars
  BY <1>23 DEF vars, ReportInv, FinalizedClean, CompleteFinalized, SourceResumed, BothResumed
<1> HIDE DEF stores, images, locals, faults
<1> QED
  BY <1>1, <1>2, <1>3, <1>4, <1>5, <1>6, <1>7, <1>8, <1>9, <1>10, <1>11, <1>12, <1>13, <1>14, <1>15, <1>16, <1>17, <1>18, <1>19, <1>20, <1>21, <1>22, <1>23 DEF Next, Step

\* What "created" and "replayed" say of a command is true.
THEOREM ReportsTrue == Spec => []Reported
<1>1. Init => TypeOK /\ StoreInv /\ ReportInv
  <2>1. Init => ReportInv
    BY DEF Init, ReportInv, FinalizedClean, CompleteFinalized, SourceResumed, BothResumed
  <2> QED  BY <2>1, TypeInit, StoreInit
<1>2. TypeOK /\ StoreInv /\ ReportInv /\ [Next]_vars => (TypeOK /\ StoreInv /\ ReportInv)'
  BY TypeNext, StoreNext, ReportNext
<1>3. ASSUME TypeOK, StoreInv, ReportInv, NEW k \in Call, pc[k] \in {"created", "replayed"}
      PROVE  LET c == CommandOf[k] IN
             /\ journal[c].status = "committed" /\ Admitted(c) /\ journal[c].digest = DigestOf[k]
             /\ \A a \in Artifact : rollback[ledger[c]][a] = None
  <2> DEFINE c == CommandOf[k]
  <2>1. c \in Command  BY ContentFacts
  <2>2. CASE pc[k] = "created"
    <3>1. journal[c].status = "committed" /\ journal[c].by = k
      BY <1>3, <2>2 DEF StoreInv, OwnCommit, Done, Status
    <3>2. Admitted(c) /\ ledger[c] = k /\ journal[c].digest = DigestOf[k]
      BY <1>3, <2>1, <3>1 DEF StoreInv, Commitment, Admission
    <3>3. \A a \in Artifact : rollback[k][a] = None
      BY <1>3, <2>2 DEF ReportInv, CompleteFinalized, FinalizedClean
    <3> QED  BY <3>1, <3>2, <3>3
  <2>3. CASE pc[k] = "replayed"
    <3>1. journal[c].status = "committed" /\ journal[c].digest = DigestOf[k]
      BY <1>3, <2>3 DEF StoreInv, ReplayFound, Replaying, Status, SameDigest
    <3>2. Admitted(c) /\ ledger[c] = journal[c].by
      BY <1>3, <2>1, <3>1 DEF StoreInv, Commitment
    <3>3. \A a \in Artifact : rollback[journal[c].by][a] = None
      BY <1>3, <2>3 DEF ReportInv, BothResumed
    <3> QED  BY <3>1, <3>2, <3>3
  <2> QED  BY <1>3, <2>2, <2>3
<1>4. TypeOK /\ StoreInv /\ ReportInv => Reported
  BY <1>3 DEF Reported
<1> QED  BY <1>1, <1>2, <1>4, PTL DEF Spec

-----------------------------------------------------------------------------
(* Crashes lose nothing. *)

Fresh == {"idle", "find", "record", "begin", "render"}
Rendered == {"stage", "publish", "commitLedger"}

\* What holds all receipts that have been admitted.
HoldsAll(content) == content # None /\ \A c \in Command : Admitted(c) => Holds(content, ledger[c])

NothingStaged == \A k \in Call : pc[k] \in Fresh => \A a \in Artifact : stage[k][a] = "none"
NoRestore == \A k \in Call : pc[k] # "restore"

\* While it publishes a call finds the files as it left them.
StagedUntouched == \A k \in Call : pc[k] \in {"stage", "publish"} => \A a \in Artifact :
  /\ stage[k][a] = "staged" => Target(k, a) = before[k][a]
  /\ stage[k][a] = "backed" => Target(k, a) = None
RenderedHolds == \A k \in Call : pc[k] \in Rendered =>
  HoldsAll(after[k]["projection"]) /\ Holds(after[k]["projection"], k)
Linked == \A k \in Call : pc[k] = "commitLedger" =>
  file[Projection] = after[k]["projection"] /\ stage[k]["projection"] = "published"
AdmittedPublished == \A c \in Command : Admitted(c) =>
  stage[ledger[c]]["projection"] \in {"published", "finalized"}

\* The projection holds everything, or whoever has put it aside has everything.
FileHolds == file[Projection] # None => HoldsAll(file[Projection])
AsideHolds == file[Projection] = None => \E k \in Call :
  stage[k]["projection"] = "backed" /\ HoldsAll(rollback[k]["projection"])

Safe ==
  /\ NoRestore /\ StagedUntouched /\ RenderedHolds /\ Linked /\ AdmittedPublished
  /\ FileHolds /\ AsideHolds

LossInv == NothingStaged /\ (errors = 0 => Safe)

LEMMA HoldsAppend ==
  ASSUME NEW s \in Seq(Call), NEW k \in Call
  PROVE  Holds(Append(s, k), k) /\ \A j : Holds(s, j) => Holds(Append(s, k), j)
<1>1. Append(s, k) \in Seq(Call) /\ Append(s, k) # None  BY ContentFacts
<1>2. DOMAIN Append(s, k) = 1 .. Len(s) + 1 /\ DOMAIN s = 1 .. Len(s) /\ Len(s) \in Nat
  OBVIOUS
<1>3. Append(s, k)[Len(s) + 1] = k /\ \A i \in DOMAIN s : Append(s, k)[i] = s[i]
  OBVIOUS
<1> QED  BY <1>1, <1>2, <1>3 DEF Holds

\* One call publishes at a time, and its command is not admitted.
LEMMA PublisherAlone ==
  ASSUME StoreInv, NEW k \in Call, pc[k] \in Publishing
  PROVE  /\ \A j \in Call : j # k => pc[j] \notin Publishing
         /\ \A c \in Command : Admitted(c) => ledger[c] # k
BY DEF StoreInv, LockHeld, OwnIntent, Admission, Working

LEMMA PathsApart ==
  ASSUME NEW k \in Call
  PROVE  PathOf(k, "projection") = Projection /\ PathOf(k, "source") # Projection
         /\ PathOf(k, "source") \in Path /\ Projection \in Path
BY PlanDraftAssumption, ContentFacts DEF PlanDraftAssumption, PathOf, Artifact

LEMMA StagedNext ==
  ASSUME TypeOK, LossInv, [Next]_vars
  PROVE  NothingStaged'
<1> USE DEF stores, images, locals, faults
<1>1. ASSUME NEW k \in Call, UNCHANGED stage, NEW l, Goto(k, l), l \in Fresh => pc[k] \in Fresh
      PROVE  NothingStaged'
  BY <1>1, GotoAt DEF LossInv, NothingStaged
<1>2. ASSUME NEW k \in Call, UNCHANGED pc, pc[k] \notin Fresh, \A j \in Call : j # k => stage'[j] = stage[j]
      PROVE  NothingStaged'
  BY <1>2 DEF LossInv, NothingStaged
<1>3. ASSUME NEW k \in Call, \A j \in Call : j # k => stage'[j] = stage[j],
             NEW l, Goto(k, l), l \notin Fresh
      PROVE  NothingStaged'
  BY <1>3, GotoAt DEF LossInv, NothingStaged
<1>4. ASSUME NEW k \in Call, NEW a \in Artifact, NEW s, SetStage(k, a, s)
      PROVE  \A j \in Call : j # k => stage'[j] = stage[j]
  BY <1>4 DEF SetStage, TypeOK
<1>5. ASSUME NEW k \in Call, Open(k) PROVE NothingStaged'
  BY <1>1, <1>5 DEF Open, Fresh
<1>6. ASSUME NEW k \in Call, Find(k) PROVE NothingStaged'
  BY <1>1, <1>6 DEF Find, Fresh
<1>7. ASSUME NEW k \in Call, MarkFound(k) PROVE NothingStaged'
  BY <1>1, <1>7 DEF MarkFound, Fresh
<1>8. ASSUME NEW k \in Call, RecordIntent(k) PROVE NothingStaged'
  BY <1>1, <1>8 DEF RecordIntent, Fresh
<1>9. ASSUME NEW k \in Call, Begin(k) PROVE NothingStaged'
  BY <1>1, <1>9 DEF Begin, Fresh
<1>10. ASSUME NEW k \in Call, Render(k) PROVE NothingStaged'
  BY <1>1, <1>10 DEF Render, Fresh, Abort
<1>11. ASSUME NEW k \in Call, CommitLedger(k) PROVE NothingStaged'
  BY <1>1, <1>11 DEF CommitLedger, Fresh
<1>12. ASSUME NEW k \in Call, Mark(k) PROVE NothingStaged'
  BY <1>1, <1>12 DEF Mark, Fresh
<1>13. ASSUME NEW k \in Call, CommitJournal(k) PROVE NothingStaged'
  BY <1>1, <1>13 DEF CommitJournal, Fresh
<1>14. ASSUME NEW k \in Call, CompleteCleanup(k) PROVE NothingStaged'
  BY <1>1, <1>14 DEF CompleteCleanup, Fresh, CleanupFails
<1>15. ASSUME NEW k \in Call, MarkPending(k) PROVE NothingStaged'
  BY <1>1, <1>15 DEF MarkPending, Fresh
<1>16. ASSUME NEW k \in Call, ReplayComplete(k) PROVE NothingStaged'
  BY <1>1, <1>16 DEF ReplayComplete, Fresh
<1>17. ASSUME NEW k \in Call, FileError(k) PROVE NothingStaged'
  BY <1>1, <1>17 DEF FileError, Fresh, CleanupFails, ResumeFails
<1>18. ASSUME NEW k \in Call, Crash(k) PROVE NothingStaged'
  BY <1>1, <1>18 DEF Crash, Fresh
<1>19. ASSUME NEW k \in Call, NEW a \in Artifact, Stage(k, a) PROVE NothingStaged'
  BY <1>1, <1>2, <1>3, <1>4, <1>19 DEF Stage, Fresh
<1>20. ASSUME NEW k \in Call, NEW a \in Artifact, Backup(k, a) PROVE NothingStaged'
  BY <1>1, <1>2, <1>3, <1>4, <1>20 DEF Backup, Fresh, Abort, PublishTurn
<1>21. ASSUME NEW k \in Call, NEW a \in Artifact, Link(k, a) PROVE NothingStaged'
  BY <1>1, <1>2, <1>3, <1>4, <1>21 DEF Link, Fresh, Abort, PublishTurn
<1>22. ASSUME NEW k \in Call, NEW a \in Artifact, RestoreTarget(k, a) PROVE NothingStaged'
  BY <1>1, <1>2, <1>3, <1>4, <1>22 DEF RestoreTarget, Fresh
<1>23. ASSUME NEW k \in Call, NEW a \in Artifact, RestorePreimage(k, a) PROVE NothingStaged'
  BY <1>1, <1>2, <1>3, <1>4, <1>23 DEF RestorePreimage, Fresh
<1>24. ASSUME NEW k \in Call, NEW a \in Artifact, RestoreStaged(k, a) PROVE NothingStaged'
  BY <1>1, <1>2, <1>3, <1>4, <1>24 DEF RestoreStaged, Fresh
<1>25. ASSUME NEW k \in Call, NEW a \in Artifact, Finalize(k, a) PROVE NothingStaged'
  BY <1>1, <1>2, <1>3, <1>4, <1>25 DEF Finalize, Fresh, CleanupFails
<1>26. ASSUME NEW k \in Call, NEW a \in Artifact, Resume(k, a) PROVE NothingStaged'
  BY <1>1, <1>2, <1>3, <1>4, <1>26 DEF Resume, Fresh, Resumed, ResumeFails
<1>27. CASE UNCHANGED vars
  BY <1>27 DEF vars, LossInv, NothingStaged
<1> HIDE DEF stores, images, locals, faults
<1> QED
  BY <1>5, <1>6, <1>7, <1>8, <1>9, <1>10, <1>11, <1>12, <1>13, <1>14, <1>15, <1>16, <1>17, <1>18, <1>19, <1>20, <1>21, <1>22, <1>23, <1>24, <1>25, <1>26, <1>27 DEF Next, Step

LEMMA SafeQuiet ==
  ASSUME TypeOK, Safe, NEW k \in Call, NEW l, Goto(k, l), l \notin Rendered \cup {"restore"} \/ l = pc[k],
         UNCHANGED <<ledger, file, rollback, before, after, stage>>
  PROVE  Safe'
<1>1. \A j \in Call : pc'[j] \in Rendered \cup {"restore"} => pc'[j] = pc[j]  BY GotoAt
<1>2. NoRestore' /\ StagedUntouched'
  BY <1>1 DEF Safe, NoRestore, StagedUntouched, Rendered, Target
<1>3. RenderedHolds'
  BY <1>1 DEF Safe, RenderedHolds, HoldsAll, Admitted
<1>4. Linked'
  BY <1>1 DEF Safe, Linked, Rendered
<1>5. AdmittedPublished' /\ FileHolds' /\ AsideHolds'
  BY DEF Safe, AdmittedPublished, FileHolds, AsideHolds, HoldsAll, Admitted
<1> QED  BY <1>2, <1>3, <1>4, <1>5 DEF Safe

LEMMA SafeRender ==
  ASSUME TypeOK, StoreInv, LossInv, Safe, NEW k \in Call, Render(k)
  PROVE  Safe'
<1> USE DEF stores, images, locals, faults
<1>1. pc[k] \in Publishing /\ \A a \in Artifact : stage[k][a] = "none"
  BY DEF Render, Publishing, LossInv, NothingStaged, Fresh
<1>2. CASE file[Projection] = None
  <2>1. Goto(k, "mark")  BY <1>1, <1>2 DEF Render, Abort, Artifact
  <2> QED  BY <1>2, <2>1, SafeQuiet DEF Render, Abort, Rendered
<1>3. CASE file[Projection] # None
  <2>1. /\ Goto(k, "stage") /\ UNCHANGED <<ledger, file, rollback, before, stage>>
        /\ after' = [after EXCEPT ![k] = [a \in Artifact |->
             IF a = "source" THEN <<k>> ELSE Append(file[Projection], k)]]
    BY <1>3 DEF Render
  <2>2. /\ after'[k]["projection"] = Append(file[Projection], k)
        /\ \A j \in Call : j # k => after'[j] = after[j]
    BY <2>1 DEF TypeOK, Artifact
  <2>3. pc'[k] = "stage" /\ \A j \in Call : j # k => pc'[j] = pc[j]  BY <2>1, GotoAt
  <2>4. file[Projection] \in Seq(Call)  BY <1>3, ContentFacts DEF TypeOK
  <2>5. Append(file[Projection], k) # None
    <3>1. Append(file[Projection], k) \in Seq(Call)  BY <2>4
    <3> QED  BY <3>1, ContentFacts
  <2>6. HoldsAll(file[Projection])  BY <1>3 DEF Safe, FileHolds
  <2>7. HoldsAll(Append(file[Projection], k))' /\ Holds(Append(file[Projection], k), k)
    BY <2>1, <2>4, <2>5, <2>6, HoldsAppend DEF HoldsAll, Admitted
  <2>8. RenderedHolds'
    <3> SUFFICES ASSUME NEW j \in Call, pc'[j] \in Rendered
                 PROVE  HoldsAll(after[j]["projection"])' /\ Holds(after'[j]["projection"], j)
      BY DEF RenderedHolds
    <3>1. CASE j = k  BY <2>1, <2>2, <2>7, <3>1 DEF HoldsAll, Admitted
    <3>2. CASE j # k
      BY <2>1, <2>2, <2>3, <3>2 DEF Safe, RenderedHolds, HoldsAll, Admitted
    <3> QED  BY <3>1, <3>2
  <2>9. NoRestore' /\ StagedUntouched'
    BY <1>1, <2>1, <2>3 DEF Safe, NoRestore, StagedUntouched, Target
  <2>10. Linked'
    BY <1>1, <2>1, <2>2, <2>3 DEF Safe, Linked
  <2>11. AdmittedPublished' /\ FileHolds' /\ AsideHolds'
    BY <2>1 DEF Safe, AdmittedPublished, FileHolds, AsideHolds, HoldsAll, Admitted
  <2> QED  BY <2>8, <2>9, <2>10, <2>11 DEF Safe
<1> QED  BY <1>2, <1>3

LEMMA SafeStage ==
  ASSUME TypeOK, StoreInv, Safe, NEW k \in Call, NEW a \in Artifact, Stage(k, a)
  PROVE  Safe'
<1>1. /\ pc[k] = "stage" /\ stage[k][a] = "none"
      /\ UNCHANGED <<ledger, file, rollback, after>>
  BY DEF Stage, Turn, stores
<1>2. pc[k] \in Publishing  BY <1>1 DEF Publishing
<1>3. /\ pc'[k] \in {"stage", "publish"} /\ \A j \in Call : j # k => pc'[j] = pc[j]
  BY <1>1, GotoAt DEF Stage
<1>4. /\ stage'[k][a] = "staged" /\ before'[k][a] = Target(k, a)
      /\ \A b \in Artifact : b # a => stage'[k][b] = stage[k][b] /\ before'[k][b] = before[k][b]
      /\ \A j \in Call : j # k => stage'[j] = stage[j] /\ before'[j] = before[j]
  BY DEF Stage, SetStage, TypeOK
<1>5. StagedUntouched'
  <2> SUFFICES ASSUME NEW j \in Call, pc'[j] \in {"stage", "publish"}, NEW b \in Artifact
               PROVE  /\ stage'[j][b] = "staged" => Target(j, b)' = before'[j][b]
                      /\ stage'[j][b] = "backed" => Target(j, b)' = None
    BY DEF StagedUntouched
  <2>1. Target(j, b)' = Target(j, b)  BY <1>1 DEF Target
  <2>2. CASE j = k /\ b = a  BY <1>4, <2>1, <2>2
  <2>3. CASE j # k \/ b # a
    BY <1>1, <1>3, <1>4, <2>1, <2>3 DEF Safe, StagedUntouched
  <2> QED  BY <2>2, <2>3
<1>6. NoRestore' /\ RenderedHolds'
  BY <1>1, <1>3 DEF Safe, NoRestore, RenderedHolds, Rendered, HoldsAll, Admitted
<1>7. Linked'
  BY <1>1, <1>2, <1>3, <1>4 DEF Safe, Linked
<1>8. AdmittedPublished'
  BY <1>1, <1>2, <1>4, PublisherAlone DEF Safe, AdmittedPublished, Admitted, TypeOK
<1>9. FileHolds' /\ AsideHolds'
  BY <1>1, <1>4 DEF Safe, FileHolds, AsideHolds, HoldsAll, Admitted, Artifact
<1> QED  BY <1>5, <1>6, <1>7, <1>8, <1>9 DEF Safe

LEMMA SafeBackup ==
  ASSUME TypeOK, StoreInv, Safe, NEW k \in Call, NEW a \in Artifact, Backup(k, a)
  PROVE  Safe'
<1>1. pc[k] = "publish" /\ stage[k][a] = "staged" /\ before[k][a] # None
  BY DEF Backup, PublishTurn
<1>2. Target(k, a) = before[k][a]  BY <1>1 DEF Safe, StagedUntouched
<1>3. /\ SetRollback(k, a, before[k][a]) /\ SetFile(k, a, None) /\ SetStage(k, a, "backed")
      /\ UNCHANGED <<ledger, before, after, pc>>
  BY <1>2 DEF Backup, stores
<1>4. pc[k] \in Publishing  BY <1>1 DEF Publishing
<1>5. /\ stage'[k][a] = "backed" /\ rollback'[k][a] = before[k][a]
      /\ \A b \in Artifact : b # a => stage'[k][b] = stage[k][b] /\ rollback'[k][b] = rollback[k][b]
      /\ \A j \in Call : j # k => stage'[j] = stage[j] /\ rollback'[j] = rollback[j]
  BY <1>3 DEF SetStage, SetRollback, TypeOK
<1>6. /\ file'[PathOf(k, a)] = None
      /\ \A p \in Path : p # PathOf(k, a) => file'[p] = file[p]
  BY <1>3, ContentFacts DEF SetFile, TypeOK
<1>7. \A j \in Call : pc[j] \in Publishing => j = k  BY <1>4, PublisherAlone
<1>8. StagedUntouched'
  <2> SUFFICES ASSUME NEW j \in Call, pc'[j] \in {"stage", "publish"}, NEW b \in Artifact
               PROVE  /\ stage'[j][b] = "staged" => Target(j, b)' = before'[j][b]
                      /\ stage'[j][b] = "backed" => Target(j, b)' = None
    BY DEF StagedUntouched
  <2>1. j = k  BY <1>3, <1>7 DEF Publishing
  <2>2. CASE b = a  BY <1>5, <1>6, <2>1, <2>2 DEF Target
  <2>3. CASE b # a
    <3>1. PathOf(k, b) # PathOf(k, a) /\ PathOf(k, b) \in Path
      BY <2>3, PathsApart DEF Artifact
    <3>2. Target(k, b)' = Target(k, b)  BY <1>6, <3>1 DEF Target
    <3> QED  BY <1>1, <1>3, <1>5, <2>1, <2>3, <3>2 DEF Safe, StagedUntouched
  <2> QED  BY <2>2, <2>3
<1>9. NoRestore' /\ RenderedHolds'
  BY <1>3 DEF Safe, NoRestore, RenderedHolds, HoldsAll, Admitted
<1>10. Linked'
  BY <1>1, <1>3, <1>7 DEF Linked, Publishing
<1>11. AdmittedPublished'
  BY <1>3, <1>4, <1>5, PublisherAlone DEF Safe, AdmittedPublished, Admitted, TypeOK
<1>12. FileHolds' /\ AsideHolds'
  <2>1. CASE a = "projection"
    <3>1. file'[Projection] = None /\ rollback'[k]["projection"] = file[Projection]
          /\ file[Projection] # None
      BY <1>1, <1>2, <1>5, <1>6, <2>1, PathsApart DEF Target
    <3>2. HoldsAll(file[Projection])  BY <3>1 DEF Safe, FileHolds
    <3>3. HoldsAll(rollback[k]["projection"])'  BY <1>3, <3>1, <3>2 DEF HoldsAll, Admitted
    <3> QED  BY <1>5, <2>1, <3>1, <3>3 DEF FileHolds, AsideHolds
  <2>2. CASE a = "source"
    <3>1. file'[Projection] = file[Projection]  BY <1>6, <2>2, PathsApart
    <3>2. \A j \in Call : /\ stage'[j]["projection"] = stage[j]["projection"]
                          /\ rollback'[j]["projection"] = rollback[j]["projection"]
      BY <1>5, <2>2 DEF Artifact
    <3> QED  BY <1>3, <3>1, <3>2 DEF Safe, FileHolds, AsideHolds, HoldsAll, Admitted
  <2> QED  BY <2>1, <2>2 DEF Artifact
<1> QED  BY <1>8, <1>9, <1>10, <1>11, <1>12 DEF Safe

LEMMA SafeLink ==
  ASSUME TypeOK, StoreInv, Safe, NEW k \in Call, NEW a \in Artifact, Link(k, a)
  PROVE  Safe'
<1>1. /\ pc[k] = "publish"
      /\ stage[k][a] = IF before[k][a] = None THEN "staged" ELSE "backed"
  BY DEF Link, PublishTurn
<1>2. Target(k, a) = None  BY <1>1 DEF Safe, StagedUntouched
<1>3. /\ SetFile(k, a, after[k][a]) /\ SetStage(k, a, "published")
      /\ UNCHANGED <<ledger, rollback, before, after>>
      /\ IF a = "projection" THEN Goto(k, "commitLedger") ELSE UNCHANGED pc
  BY <1>2 DEF Link, Vacant, stores
<1>4. pc[k] \in Publishing  BY <1>1 DEF Publishing
<1>5. /\ stage'[k][a] = "published"
      /\ \A b \in Artifact : b # a => stage'[k][b] = stage[k][b]
      /\ \A j \in Call : j # k => stage'[j] = stage[j]
  BY <1>3 DEF SetStage, TypeOK
<1>6. /\ file'[PathOf(k, a)] = after[k][a]
      /\ \A p \in Path : p # PathOf(k, a) => file'[p] = file[p]
  BY <1>3, ContentFacts DEF SetFile, TypeOK
<1>7. \A j \in Call : pc[j] \in Publishing => j = k  BY <1>4, PublisherAlone
<1>8. /\ pc'[k] = IF a = "projection" THEN "commitLedger" ELSE "publish"
      /\ \A j \in Call : j # k => pc'[j] = pc[j]
  BY <1>1, <1>3, GotoAt
<1>9. HoldsAll(after[k]["projection"]) /\ Holds(after[k]["projection"], k)
  BY <1>1 DEF Safe, RenderedHolds, Rendered
<1>10. StagedUntouched'
  <2> SUFFICES ASSUME NEW j \in Call, pc'[j] \in {"stage", "publish"}, NEW b \in Artifact
               PROVE  /\ stage'[j][b] = "staged" => Target(j, b)' = before'[j][b]
                      /\ stage'[j][b] = "backed" => Target(j, b)' = None
    BY DEF StagedUntouched
  <2>1. j = k  BY <1>7, <1>8 DEF Publishing
  <2>2. CASE b = a  BY <1>5, <2>1, <2>2
  <2>3. CASE b # a
    <3>1. PathOf(k, b) # PathOf(k, a) /\ PathOf(k, b) \in Path
      BY <2>3, PathsApart DEF Artifact
    <3>2. Target(k, b)' = Target(k, b)  BY <1>6, <3>1 DEF Target
    <3> QED  BY <1>1, <1>3, <1>5, <2>1, <2>3, <3>2 DEF Safe, StagedUntouched
  <2> QED  BY <2>2, <2>3
<1>11. NoRestore'  BY <1>8 DEF Safe, NoRestore
<1>12. RenderedHolds'
  BY <1>3, <1>8, <1>9 DEF Safe, RenderedHolds, HoldsAll, Admitted
<1>13. AdmittedPublished'
  BY <1>3, <1>4, <1>5, PublisherAlone DEF Safe, AdmittedPublished, Admitted, TypeOK
<1>14. Linked' /\ FileHolds' /\ AsideHolds'
  <2>1. CASE a = "projection"
    <3>1. file'[Projection] = after[k]["projection"]  BY <1>6, <2>1, PathsApart
    <3>2. HoldsAll(file[Projection])'  BY <1>3, <1>9, <3>1 DEF HoldsAll, Admitted
    <3>3. \A j \in Call : pc'[j] = "commitLedger" => j = k  BY <1>7, <1>8 DEF Publishing
    <3> QED  BY <1>3, <1>5, <2>1, <3>1, <3>2, <3>3 DEF Linked, FileHolds, AsideHolds, HoldsAll
  <2>2. CASE a = "source"
    <3>1. file'[Projection] = file[Projection]  BY <1>6, <2>2, PathsApart
    <3>2. \A j \in Call : stage'[j]["projection"] = stage[j]["projection"]
      BY <1>5, <2>2 DEF Artifact
    <3>3. Linked'  BY <1>7, <1>8, <2>2 DEF Linked, Publishing
    <3> QED  BY <1>3, <3>1, <3>2, <3>3 DEF Safe, FileHolds, AsideHolds, HoldsAll, Admitted
  <2> QED  BY <2>1, <2>2 DEF Artifact
<1> QED  BY <1>10, <1>11, <1>12, <1>13, <1>14 DEF Safe

LEMMA SafeCommit ==
  ASSUME TypeOK, StoreInv, Safe, NEW k \in Call, CommitLedger(k)
  PROVE  Safe'
<1>1. /\ pc[k] = "commitLedger" /\ pc[k] \in Publishing
      /\ UNCHANGED <<file, rollback, before, after, stage>>
  BY DEF CommitLedger, images, Publishing
<1>2. pc'[k] = "commitJournal" /\ \A j \in Call : j # k => pc'[j] = pc[j]
  BY GotoAt DEF CommitLedger
<1>3. /\ ledger'[CommandOf[k]] = k
      /\ \A c \in Command : c # CommandOf[k] => ledger'[c] = ledger[c]
  BY ContentFacts DEF CommitLedger, TypeOK
<1>4. \A j \in Call : pc'[j] \notin Rendered \cup {"restore"}
  BY <1>1, <1>2, PublisherAlone DEF Rendered, Publishing, Safe, NoRestore
<1>5. /\ file[Projection] = after[k]["projection"] /\ stage[k]["projection"] = "published"
      /\ HoldsAll(after[k]["projection"]) /\ Holds(after[k]["projection"], k)
  BY <1>1 DEF Safe, Linked, RenderedHolds, Rendered
<1>6. HoldsAll(file[Projection])'
  BY <1>1, <1>3, <1>5 DEF HoldsAll, Admitted
<1>7. AdmittedPublished'
  BY <1>1, <1>3, <1>5 DEF Safe, AdmittedPublished, Admitted
<1>8. (NoRestore /\ StagedUntouched /\ RenderedHolds /\ Linked)'
  BY <1>4 DEF NoRestore, StagedUntouched, RenderedHolds, Linked, Rendered
<1>9. FileHolds' /\ AsideHolds'
  BY <1>6 DEF FileHolds, AsideHolds, HoldsAll
<1> QED  BY <1>7, <1>8, <1>9 DEF Safe

\* The preimage of a published artifact is removed.
LEMMA SafeRemoval ==
  ASSUME TypeOK, Safe, NEW k \in Call, NEW l, Goto(k, l) \/ (UNCHANGED pc /\ l = pc[k]),
         l \notin Rendered \cup {"restore"},
         UNCHANGED <<ledger, file, before, after>>,
         \A j \in Call : stage[j]["projection"] = "backed" =>
           rollback'[j]["projection"] = rollback[j]["projection"],
         \A j \in Call, b \in Artifact : stage'[j][b] = stage[j][b] \/
           (j = k /\ pc[k] \notin Rendered /\ stage[j][b] = "published" /\ stage'[j][b] = "finalized")
  PROVE  Safe'
<1>1. \A j \in Call : pc'[j] \in Rendered \cup {"restore"} => pc'[j] = pc[j] /\ j # k
  BY GotoAt
<1>2. NoRestore'
  BY <1>1 DEF Safe, NoRestore
<1>3. StagedUntouched'
  BY <1>1 DEF Safe, StagedUntouched, Rendered, Target
<1>4. RenderedHolds'
  BY <1>1 DEF Safe, RenderedHolds, HoldsAll, Admitted
<1>5. Linked'
  BY <1>1 DEF Safe, Linked, Rendered, Artifact
<1>6. AdmittedPublished'
  BY DEF Safe, AdmittedPublished, Admitted, Artifact, TypeOK
<1>7. FileHolds'
  BY DEF Safe, FileHolds, HoldsAll, Admitted
<1>8. AsideHolds'
  <2> SUFFICES ASSUME file[Projection] = None
               PROVE  \E j \in Call : stage'[j]["projection"] = "backed" /\ HoldsAll(rollback[j]["projection"])'
    BY DEF AsideHolds
  <2>1. PICK j \in Call : stage[j]["projection"] = "backed" /\ HoldsAll(rollback[j]["projection"])
    BY DEF Safe, AsideHolds
  <2>2. stage'[j]["projection"] = "backed"  BY <2>1 DEF Artifact
  <2> QED  BY <2>1, <2>2 DEF HoldsAll, Admitted
<1> QED  BY <1>2, <1>3, <1>4, <1>5, <1>6, <1>7, <1>8 DEF Safe

LEMMA SafeFinalize ==
  ASSUME TypeOK, Safe, NEW k \in Call, NEW a \in Artifact, Finalize(k, a)
  PROVE  Safe'
<1>1. pc[k] = "finalize" /\ stage[k][a] = "published" /\ UNCHANGED <<ledger, file, before, after>>
  BY DEF Finalize, stores
<1>2. CASE CleanupFails(k) /\ UNCHANGED <<rollback, stage>>
  BY <1>1, <1>2, SafeQuiet DEF CleanupFails, Rendered
<1>3. CASE SetRollback(k, a, None) /\ SetStage(k, a, "finalized")
  <2>1. \E l : (Goto(k, l) \/ (UNCHANGED pc /\ l = pc[k])) /\ l \notin Rendered \cup {"restore"}
    BY <1>1 DEF Finalize, CleanupFails, Rendered
  <2>2. \A j \in Call : j # k => rollback'[j] = rollback[j]
    BY <1>3 DEF SetRollback, TypeOK
  <2>3. /\ stage'[k][a] = "finalized"
        /\ \A b \in Artifact : b # a => stage'[k][b] = stage[k][b] /\ rollback'[k][b] = rollback[k][b]
        /\ \A j \in Call : j # k => stage'[j] = stage[j]
    BY <1>3 DEF SetStage, SetRollback, TypeOK
  <2>4. \A j \in Call : stage[j]["projection"] = "backed" =>
          rollback'[j]["projection"] = rollback[j]["projection"]
    BY <1>1, <2>2, <2>3 DEF Artifact
  <2> QED  BY <1>1, <2>1, <2>3, <2>4, SafeRemoval DEF Rendered
<1> QED  BY <1>2, <1>3 DEF Finalize

LEMMA SafeResume ==
  ASSUME TypeOK, StoreInv, Safe, NEW k \in Call, NEW a \in Artifact, Resume(k, a)
  PROVE  Safe'
<1> DEFINE o == journal[CommandOf[k]].by
<1>1. pc[k] \in Replaying /\ UNCHANGED <<ledger, file, before, after, stage>>
  BY DEF Resume, stores, Replaying
<1>2. CASE ResumeFails(k) /\ UNCHANGED rollback
  BY <1>1, <1>2, SafeQuiet DEF ResumeFails, Rendered
<1>3. CASE SetRollback(o, a, None) /\ Goto(k, Resumed(k))
  <2>1. CommandOf[k] \in Command /\ journal[CommandOf[k]].status = "committed"
    BY <1>1, ContentFacts DEF StoreInv, ReplayFound, Status
  <2>2. Admitted(CommandOf[k]) /\ ledger[CommandOf[k]] = o
    BY <2>1 DEF StoreInv, Commitment
  <2>3. o \in Call  BY <2>1, <2>2 DEF TypeOK, Admitted
  <2>4. stage[o]["projection"] # "backed"  BY <2>1, <2>2 DEF Safe, AdmittedPublished
  <2>5. \A j \in Call : stage[j]["projection"] = "backed" =>
          rollback'[j]["projection"] = rollback[j]["projection"]
    BY <1>3, <2>3, <2>4 DEF SetRollback, TypeOK
  <2>6. Resumed(k) \notin Rendered \cup {"restore"}  BY DEF Resumed, Rendered
  <2> QED  BY <1>1, <1>3, <2>5, <2>6, SafeRemoval
<1> QED  BY <1>2, <1>3 DEF Resume

LEMMA LossNext ==
  ASSUME TypeOK, StoreInv, LossInv, [Next]_vars
  PROVE  LossInv'
<1>1. NothingStaged'  BY StagedNext
<1>2. ASSUME errors' = 0 PROVE Safe'
  <2> USE DEF stores, images, locals, faults
  <2>1. ASSUME NEW k \in Call, FileError(k) PROVE FALSE
    BY <1>2, <2>1 DEF FileError, TypeOK
  <2>2. errors = 0
    <3>1. ASSUME NEW k \in Call, Open(k) \/ Step(k) \/ Crash(k) PROVE UNCHANGED errors
      BY <3>1 DEF Open, Step, Crash, Find, MarkFound, RecordIntent, Begin, Render, Abort, CommitLedger, Mark,
        CommitJournal, CompleteCleanup, MarkPending, ReplayComplete, Stage, Backup, Link,
        RestoreTarget, RestorePreimage, RestoreStaged, Finalize, Resume
    <3> QED  BY <1>2, <2>1, <3>1 DEF Next, vars
  <2>3. Safe  BY <2>2 DEF LossInv
  <2>4. ASSUME NEW k \in Call, Open(k) PROVE Safe'
    BY <2>3, <2>4, SafeQuiet DEF Open, Rendered
  <2>5. ASSUME NEW k \in Call, Find(k) PROVE Safe'
    BY <2>3, <2>5, SafeQuiet DEF Find, Rendered
  <2>6. ASSUME NEW k \in Call, MarkFound(k) PROVE Safe'
    BY <2>3, <2>6, SafeQuiet DEF MarkFound, Rendered
  <2>7. ASSUME NEW k \in Call, RecordIntent(k) PROVE Safe'
    BY <2>3, <2>7, SafeQuiet DEF RecordIntent, Rendered
  <2>8. ASSUME NEW k \in Call, Begin(k) PROVE Safe'
    BY <2>3, <2>8, SafeQuiet DEF Begin, Rendered
  <2>9. ASSUME NEW k \in Call, Mark(k) PROVE Safe'
    BY <2>3, <2>9, SafeQuiet DEF Mark, Rendered
  <2>10. ASSUME NEW k \in Call, CommitJournal(k) PROVE Safe'
    BY <2>3, <2>10, SafeQuiet DEF CommitJournal, Rendered
  <2>11. ASSUME NEW k \in Call, CompleteCleanup(k) PROVE Safe'
    BY <2>3, <2>11, SafeQuiet DEF CompleteCleanup, Rendered, CleanupFails
  <2>12. ASSUME NEW k \in Call, MarkPending(k) PROVE Safe'
    BY <2>3, <2>12, SafeQuiet DEF MarkPending, Rendered
  <2>13. ASSUME NEW k \in Call, ReplayComplete(k) PROVE Safe'
    BY <2>3, <2>13, SafeQuiet DEF ReplayComplete, Rendered
  <2>14. ASSUME NEW k \in Call, Crash(k) PROVE Safe'
    BY <2>3, <2>14, SafeQuiet DEF Crash, Rendered
  <2>15. ASSUME NEW k \in Call, Render(k) \/ CommitLedger(k) PROVE Safe'
    BY <2>3, <2>15, SafeRender, SafeCommit
  <2>16. ASSUME NEW k \in Call, NEW a \in Artifact,
               Stage(k, a) \/ Backup(k, a) \/ Link(k, a) \/ Finalize(k, a) \/ Resume(k, a)
         PROVE  Safe'
    BY <2>3, <2>16, SafeStage, SafeBackup, SafeLink, SafeFinalize, SafeResume
  <2>17. ASSUME NEW k \in Call, NEW a \in Artifact,
               RestoreTarget(k, a) \/ RestorePreimage(k, a) \/ RestoreStaged(k, a)
         PROVE  Safe'
    BY <2>3, <2>17 DEF Safe, NoRestore, RestoreTarget, RestorePreimage, RestoreStaged
  <2>18. CASE UNCHANGED vars
    BY <2>3, <2>18 DEF vars, Safe, NoRestore, StagedUntouched, RenderedHolds, Linked, AdmittedPublished,
      FileHolds, AsideHolds, HoldsAll, Admitted, Target
  <2> HIDE DEF stores, images, locals, faults
  <2> QED
    BY <2>1, <2>4, <2>5, <2>6, <2>7, <2>8, <2>9, <2>10, <2>11, <2>12, <2>13, <2>14, <2>15, <2>16, <2>17, <2>18 DEF Next, Step
<1> QED  BY <1>1, <1>2 DEF LossInv

LEMMA LossInit == Init => LossInv
<1> SUFFICES ASSUME Init PROVE LossInv
  OBVIOUS
<1>1. NothingStaged  BY DEF Init, NothingStaged
<1>2. file[Projection] = << >>  BY PlanDraftAssumption, ContentFacts DEF Init, PlanDraftAssumption
<1>3. \A c \in Command : ~Admitted(c)  BY DEF Init, Admitted
<1>4. HoldsAll(file[Projection])
  <2>1. << >> \in Seq(Call)  OBVIOUS
  <2> QED  BY <1>2, <1>3, <2>1, ContentFacts DEF HoldsAll
<1>5. \A k \in Call : pc[k] = "idle"  BY DEF Init
<1>6. Safe
  BY <1>3, <1>4, <1>5 DEF Safe, NoRestore, StagedUntouched, RenderedHolds, Rendered, Linked,
    AdmittedPublished, FileHolds, AsideHolds, HoldsAll
<1> QED  BY <1>1, <1>6 DEF LossInv

\* As long as no file operation fails, however many calls overlap and die, one file on
\* disk holds every admitted receipt.
THEOREM NothingLost == Spec => []CrashesLoseNothing
<1>1. Init => TypeOK /\ StoreInv /\ LossInv  BY TypeInit, StoreInit, LossInit
<1>2. TypeOK /\ StoreInv /\ LossInv /\ [Next]_vars => (TypeOK /\ StoreInv /\ LossInv)'
  BY TypeNext, StoreNext, LossNext
<1>3. LossInv => CrashesLoseNothing
  <2> SUFFICES ASSUME LossInv, errors = 0 PROVE CrashesLoseNothing
    BY DEF CrashesLoseNothing
  <2>1. \E v \in Versions : HoldsAll(v)
    <3>1. CASE file[Projection] # None
      BY <3>1 DEF LossInv, Safe, FileHolds, Versions
    <3>2. CASE file[Projection] = None
      BY <3>2 DEF LossInv, Safe, AsideHolds, Versions
    <3> QED  BY <3>1, <3>2
  <2> QED  BY <2>1 DEF HoldsAll, CrashesLoseNothing
<1> QED  BY <1>1, <1>2, <1>3, PTL DEF Spec

-----------------------------------------------------------------------------
(* What a restored draft leaves behind. *)

\* The call's source stands in the file or in a preimage that another call put aside.
Published(k) == stage[k]["source"] \in {"published", "finalized"}

\* The source a call rendered holds its own record and no other.
OwnPost == \A k \in Call : pc[k] = "stage" \/ stage[k]["source"] # "none" => after[k]["source"] = <<k>>

\* A source file holds the record only of a call that has published it there.
FileOwn == \A k \in Call, p \in Plan : Holds(file[p], k) => p = PathOf(k, "source") /\ Published(k)

\* So does a source put aside, in one place at a time.
AsideOwn == \A j, k \in Call : Holds(rollback[j]["source"], k) =>
  /\ PathOf(j, "source") = PathOf(k, "source") /\ Published(k)
  /\ ~Holds(Target(k, "source"), k)
  /\ \A i \in Call : Holds(rollback[i]["source"], k) => i = j

SourceInv == OwnPost /\ FileOwn /\ AsideOwn

\* No second call takes up the command of one that has staged its source.
StagedKnown == \A k \in Call : stage[k]["source"] # "none" =>
  /\ Status(k) # "none"
  /\ \A j \in Call : pc[j] \in Working /\ CommandOf[j] = CommandOf[k] => j = k
CommitPublished == \A k \in Call : pc[k] = "commitLedger" => stage[k]["source"] = "published"
RestoredOpen == \A k \in Call : stage[k]["source"] = "restored" => ~Admitted(CommandOf[k])

OpenInv == StagedKnown /\ CommitPublished /\ RestoredOpen
\* What a step of k has to respect so that no other call comes near its command.
Alone(k) ==
  /\ Only(k)
  /\ stage'[k]["source"] # "none" => stage[k]["source"] # "none" \/ pc[k] \in Working
  /\ pc'[k] \in Working => pc[k] \in Working \/ Status(k) = "none"
  /\ stage'[k]["source"] = "restored" =>
       stage[k]["source"] = "restored" \/ (pc[k] \in Working /\ pc'[k] \in Working)
  /\ pc'[k] = "commitLedger" => stage'[k]["source"] = "published"
  /\ \A c \in Command : ledger'[c] = ledger[c] \/ (c = CommandOf[k] /\ pc[k] = "commitLedger")

LEMMA OpenStep ==
  ASSUME TypeOK, StoreInv, StoreInv', Kept, OpenInv, NEW k \in Call, Alone(k)
  PROVE  OpenInv'
<1>1. \A j \in Call : CommandOf[j] \in Command  BY ContentFacts
<1>2. \A j \in Call : Status(j) # "none" => Status(j)' # "none"
  <2> SUFFICES ASSUME NEW j \in Call, Status(j) # "none" PROVE Status(j)' # "none"
    OBVIOUS
  <2>1. journal[CommandOf[j]] \in Entry  BY <1>1 DEF TypeOK
  <2>2. Status(j) \in {"intent", "recovery", "committed"}  BY <2>1 DEF Entry, Status
  <2> QED  BY <1>1, <2>2 DEF Kept, DecisionKept, Status
<1>3. \A i \in Call : stage'[i]["source"] # "none" =>
        stage[i]["source"] # "none" \/ (i = k /\ pc[k] \in Working)
  BY DEF Alone, Only
<1>4. \A i \in Call : stage'[i]["source"] # "none" => Status(i) # "none"
  BY <1>3 DEF OpenInv, StagedKnown, StoreInv, OwnIntent
<1>5. StagedKnown'
  <2> SUFFICES ASSUME NEW i \in Call, stage'[i]["source"] # "none",
                      NEW j \in Call, pc'[j] \in Working, CommandOf[j] = CommandOf[i]
               PROVE  j = i
    BY <1>2, <1>4 DEF StagedKnown
  <2>1. Status(j) # "none"  BY <1>4 DEF Status
  <2>2. pc[j] \in Working  BY <2>1 DEF Alone, Only
  <2> QED  BY <1>3, <2>2 DEF OpenInv, StagedKnown, StoreInv, OneWorks
<1>6. CommitPublished'
  BY DEF OpenInv, CommitPublished, Alone, Only
<1>7. RestoredOpen'
  <2> SUFFICES ASSUME NEW i \in Call, stage'[i]["source"] = "restored"
               PROVE  ~Admitted(CommandOf[i])'
    BY DEF RestoredOpen
  <2>1. CASE stage[i]["source"] = "restored"
    <3>1. ~Admitted(CommandOf[i])  BY <2>1 DEF OpenInv, RestoredOpen
    <3>2. ~(CommandOf[i] = CommandOf[k] /\ pc[k] = "commitLedger")
      <4> SUFFICES ASSUME CommandOf[i] = CommandOf[k], pc[k] = "commitLedger" PROVE FALSE
        OBVIOUS
      <4>1. k = i  BY <2>1 DEF OpenInv, StagedKnown, Working, Publishing
      <4> QED  BY <2>1, <4>1 DEF OpenInv, CommitPublished
    <3> QED  BY <1>1, <3>1, <3>2 DEF Alone, Admitted
  <2>2. CASE stage[i]["source"] # "restored"
    <3>1. i = k /\ pc'[k] \in Working  BY <2>2 DEF Alone, Only
    <3> QED  BY <3>1 DEF StoreInv, OwnIntent
  <2> QED  BY <2>1, <2>2
<1> QED  BY <1>5, <1>6, <1>7 DEF OpenInv

\* A step of k that changes neither the ledger nor how far k is with its artifacts.
LEMMA OpenStill ==
  ASSUME TypeOK, StoreInv, StoreInv', Kept, OpenInv, NEW k \in Call, NEW l,
         Goto(k, l) \/ (UNCHANGED pc /\ l = pc[k]),
         l \in Working => pc[k] \in Working \/ Status(k) = "none",
         l = "commitLedger" => pc[k] = l, UNCHANGED <<ledger, stage>>
  PROVE  OpenInv'
<1>1. pc'[k] = l /\ Only(k)  BY GotoAt, OnlyGoto
<1>2. Alone(k)  BY <1>1 DEF Alone, OpenInv, CommitPublished
<1> QED  BY <1>2, OpenStep

\* One that takes an artifact a step further while k has its command to itself.
LEMMA OpenFurther ==
  ASSUME TypeOK, StoreInv, StoreInv', Kept, OpenInv, NEW k \in Call, NEW l,
         Goto(k, l) \/ (UNCHANGED pc /\ l = pc[k]),
         NEW a \in Artifact, NEW s \in Stages, SetStage(k, a, s), UNCHANGED ledger,
         pc[k] \in Working \/ (stage[k][a] # "none" /\ s # "restored"),
         l \in Working => pc[k] \in Working, s = "restored" => l \in Working,
         l = "commitLedger" => a = "projection" /\ stage[k]["source"] = "published"
  PROVE  OpenInv'
<1>1. pc'[k] = l /\ Only(k)  BY GotoAt, OnlyGoto
<1>2. stage'[k][a] = s /\ \A b \in Artifact : b # a => stage'[k][b] = stage[k][b]
  BY DEF SetStage, TypeOK
<1>3. "source" \in Artifact /\ "projection" # "source"  BY DEF Artifact
<1>4. Alone(k)  BY <1>1, <1>2, <1>3 DEF Alone
<1> QED  BY <1>4, OpenStep

LEMMA OpenNext ==
  ASSUME TypeOK, StoreInv, OpenInv, [Next]_vars
  PROVE  OpenInv'
<1> StoreInv' /\ Kept  BY StoreNext, NextKept
<1> USE DEF stores, images, locals, faults, Working, Publishing
<1>1. ASSUME NEW k \in Call,
             Open(k) \/ Find(k) \/ MarkFound(k) \/ Mark(k) \/ CommitJournal(k) \/ MarkPending(k) \/ ReplayComplete(k)
      PROVE  OpenInv'
  BY <1>1, OpenStill DEF Open, Find, MarkFound, Mark, CommitJournal, MarkPending, ReplayComplete
<1>2. ASSUME NEW k \in Call, RecordIntent(k) PROVE OpenInv'
  BY <1>2, OpenStill DEF RecordIntent
<1>3. ASSUME NEW k \in Call, Begin(k) PROVE OpenInv'
  BY <1>3, OpenStill DEF Begin
<1>4. ASSUME NEW k \in Call, Render(k) PROVE OpenInv'
  BY <1>4, OpenStill DEF Render, Abort
<1>5. ASSUME NEW k \in Call, CompleteCleanup(k) PROVE OpenInv'
  BY <1>5, OpenStill DEF CompleteCleanup, CleanupFails
<1>6. ASSUME NEW k \in Call, Crash(k) \/ FileError(k) PROVE OpenInv'
  BY <1>6, OpenStill DEF Crash, FileError, CleanupFails, ResumeFails
<1>7. ASSUME NEW k \in Call, CommitLedger(k) PROVE OpenInv'
  <2>1. pc[k] = "commitLedger" /\ Goto(k, "commitJournal") /\ UNCHANGED stage  BY <1>7 DEF CommitLedger
  <2>2. pc'[k] = "commitJournal" /\ Only(k)  BY <2>1, GotoAt, OnlyGoto
  <2>3. \A c \in Command : c # CommandOf[k] => ledger'[c] = ledger[c]  BY <1>7 DEF CommitLedger, TypeOK
  <2>4. Alone(k)  BY <2>1, <2>2, <2>3 DEF Alone
  <2> QED  BY <2>4, OpenStep
<1>8. ASSUME NEW k \in Call, NEW a \in Artifact, Stage(k, a) PROVE OpenInv'
  BY <1>8, OpenFurther DEF Stage, Stages
<1>9. ASSUME NEW k \in Call, NEW a \in Artifact, Backup(k, a) PROVE OpenInv'
  <2>1. CASE Abort(k)  BY <1>9, <2>1, OpenStill DEF Backup, PublishTurn, Abort
  <2>2. CASE ~Abort(k)  BY <1>9, <2>2, OpenFurther DEF Backup, PublishTurn, Stages
  <2> QED  BY <2>1, <2>2
<1>10. ASSUME NEW k \in Call, NEW a \in Artifact, Link(k, a) PROVE OpenInv'
  <2>1. CASE Abort(k)  BY <1>10, <2>1, OpenStill DEF Link, PublishTurn, Abort
  <2>2. CASE ~Abort(k)  BY <1>10, <2>2, OpenFurther DEF Link, PublishTurn, Stages
  <2> QED  BY <2>1, <2>2
<1>11. ASSUME NEW k \in Call, NEW a \in Artifact, RestoreTarget(k, a) PROVE OpenInv'
  <2>1. CASE UNCHANGED stage  BY <1>11, <2>1, OpenStill DEF RestoreTarget
  <2>2. CASE ~UNCHANGED stage
    <3>1. \E s \in {"restored", "backed"} : SetStage(k, a, s)  BY <1>11, <2>2 DEF RestoreTarget
    <3>2. \E l \in {"restore", "mark"} : Goto(k, l) \/ (UNCHANGED pc /\ l = pc[k])
      BY <1>11 DEF RestoreTarget
    <3> QED  BY <1>11, <3>1, <3>2, OpenFurther DEF RestoreTarget, Stages
  <2> QED  BY <2>1, <2>2
<1>12. ASSUME NEW k \in Call, NEW a \in Artifact, RestorePreimage(k, a) PROVE OpenInv'
  <2>1. CASE UNCHANGED stage  BY <1>12, <2>1, OpenStill DEF RestorePreimage
  <2>2. CASE ~UNCHANGED stage  BY <1>12, <2>2, OpenFurther DEF RestorePreimage, Stages
  <2> QED  BY <2>1, <2>2
<1>13. ASSUME NEW k \in Call, NEW a \in Artifact, RestoreStaged(k, a) PROVE OpenInv'
  BY <1>13, OpenFurther DEF RestoreStaged, Stages
<1>14. ASSUME NEW k \in Call, NEW a \in Artifact, Finalize(k, a) PROVE OpenInv'
  <2>1. CASE UNCHANGED stage  BY <1>14, <2>1, OpenStill DEF Finalize, CleanupFails
  <2>2. CASE ~UNCHANGED stage  BY <1>14, <2>2, OpenFurther DEF Finalize, Stages
  <2> QED  BY <2>1, <2>2
<1>15. ASSUME NEW k \in Call, NEW a \in Artifact, Resume(k, a) PROVE OpenInv'
  BY <1>15, OpenStill DEF Resume, Resumed, ResumeFails
<1>16. CASE UNCHANGED vars
  BY <1>16 DEF vars, OpenInv, StagedKnown, CommitPublished, RestoredOpen, Status, Admitted
<1> HIDE DEF stores, images, locals, faults, Working, Publishing
<1> QED
  BY <1>1, <1>2, <1>3, <1>4, <1>5, <1>6, <1>7, <1>8, <1>9, <1>10, <1>11, <1>12, <1>13, <1>14, <1>15, <1>16 DEF Next, Step
LEMMA HoldsFacts ==
  /\ \A j \in Call : ~Holds(None, j) /\ ~Holds(<< >>, j)
  /\ \A j, k \in Call : Holds(<<k>>, j) <=> j = k
<1>1. \A k \in Call : <<k>> \in Seq(Call)  OBVIOUS
<1>2. \A k \in Call : <<k>> # None  BY <1>1, ContentFacts
<1> QED  BY <1>2 DEF Holds

LEMMA SourcePath ==
  /\ "source" \in Artifact /\ "projection" \in Artifact /\ Projection \notin Plan
  /\ Plan \subseteq Path
  /\ \A k \in Call : PathOf(k, "source") \in Plan /\ PathOf(k, "projection") = Projection
  /\ \A k \in Call, a \in Artifact : a # "source" => PathOf(k, a) = Projection
BY PlanDraftAssumption DEF PlanDraftAssumption, PathOf, Artifact, Path

\* A step that moves no source, but may remove preimages, finalize or touch the projection.
LEMMA SourceUntouched ==
  ASSUME SourceInv, OwnPost',
         \A p \in Plan : file'[p] = file[p],
         \A j \in Call : rollback'[j]["source"] = rollback[j]["source"] \/ rollback'[j]["source"] = None,
         \A j \in Call : Published(j) => Published(j)'
  PROVE  SourceInv'
<1>1. \A j, k \in Call : Holds(rollback'[j]["source"], k) => Holds(rollback[j]["source"], k)
  BY DEF Holds
<1>2. FileOwn'  BY DEF SourceInv, FileOwn, PathOf
<1>3. AsideOwn'
  <2> SUFFICES ASSUME NEW j \in Call, NEW k \in Call, Holds(rollback'[j]["source"], k)
               PROVE  /\ PathOf(j, "source") = PathOf(k, "source") /\ Published(k)'
                      /\ ~Holds(Target(k, "source")', k)
                      /\ \A i \in Call : Holds(rollback'[i]["source"], k) => i = j
    BY DEF AsideOwn, PathOf
  <2>1. /\ PathOf(j, "source") = PathOf(k, "source") /\ Published(k)
        /\ ~Holds(Target(k, "source"), k)
        /\ \A i \in Call : Holds(rollback[i]["source"], k) => i = j
    BY <1>1 DEF SourceInv, AsideOwn
  <2>2. Target(k, "source")' = Target(k, "source")  BY SourcePath DEF Target, PathOf
  <2> QED  BY <1>1, <2>1, <2>2
<1> QED  BY <1>2, <1>3 DEF SourceInv

\* A step of k that renders nothing.
LEMMA OwnPostStep ==
  ASSUME SourceInv, NEW k \in Call, Only(k), UNCHANGED after,
         pc'[k] = "stage" => pc[k] = "stage",
         stage'[k]["source"] # "none" => stage[k]["source"] # "none" \/ pc[k] = "stage"
  PROVE  OwnPost'
BY DEF SourceInv, OwnPost, Only

\* A step of k that changes no file and no stage.
LEMMA SourceStill ==
  ASSUME TypeOK, SourceInv, NEW k \in Call, NEW l, Goto(k, l) \/ (UNCHANGED pc /\ l = pc[k]),
         l = "stage" => pc[k] = l, UNCHANGED <<file, rollback, after, stage>>
  PROVE  SourceInv'
<1>1. pc'[k] = l /\ Only(k)  BY GotoAt, OnlyGoto
<1>2. OwnPost'  BY <1>1, OwnPostStep
<1> QED  BY <1>2, SourceUntouched DEF Published

LEMMA SourceRender ==
  ASSUME TypeOK, SourceInv, NEW k \in Call, Render(k)
  PROVE  SourceInv'
<1> USE DEF stores, images, locals, faults
<1>1. CASE Abort(k)  BY <1>1, SourceStill DEF Abort
<1>2. CASE ~Abort(k)
  <2>1. /\ after' = [after EXCEPT ![k] = [a \in Artifact |->
              IF a = "source" THEN <<k>> ELSE Append(file[Projection], k)]]
        /\ Goto(k, "stage") /\ UNCHANGED <<file, rollback, stage>>
    BY <1>2 DEF Render
  <2>2. after'[k]["source"] = <<k>> /\ \A j \in Call : j # k => after'[j] = after[j]
    BY <2>1, SourcePath DEF TypeOK
  <2>3. Only(k)  BY <2>1, OnlyGoto
  <2>4. OwnPost'  BY <2>1, <2>2, <2>3 DEF SourceInv, OwnPost, Only
  <2> QED  BY <2>1, <2>4, SourceUntouched DEF Published
<1> QED  BY <1>1, <1>2

\* A step of k on the stage of an artifact whose source does not move.
LEMMA SourceStage ==
  ASSUME TypeOK, SourceInv, NEW k \in Call, NEW l, Goto(k, l) \/ (UNCHANGED pc /\ l = pc[k]),
         l = "stage" => pc[k] = l, UNCHANGED after,
         NEW a \in Artifact, NEW s \in Stages, SetStage(k, a, s),
         stage[k][a] # "none" \/ pc[k] = "stage",
         a = "source" /\ Published(k) => s = "finalized",
         UNCHANGED file \/ (a = "projection" /\ \E c \in Content : SetFile(k, a, c)),
         UNCHANGED rollback \/ (\E c \in Content : SetRollback(k, a, c) /\ (a = "source" => c = None))
  PROVE  SourceInv'
<1>1. pc'[k] = l /\ Only(k)  BY GotoAt, OnlyGoto
<1>2. stage'[k][a] = s /\ \A b \in Artifact : b # a => stage'[k][b] = stage[k][b]
  BY DEF SetStage, TypeOK
<1>3. OwnPost'  BY <1>1, <1>2, OwnPostStep, SourcePath
<1>4. \A p \in Plan : file'[p] = file[p]
  BY SourcePath DEF SetFile, TypeOK
<1>5. \A j \in Call : rollback'[j]["source"] = rollback[j]["source"] \/ rollback'[j]["source"] = None
  <2>1. CASE UNCHANGED rollback  BY <2>1
  <2>2. ASSUME NEW c \in Content, SetRollback(k, a, c), a = "source" => c = None
        PROVE  \A j \in Call : rollback'[j]["source"] \in {rollback[j]["source"], None}
    <3>1. /\ rollback'[k][a] = c /\ \A b \in Artifact : b # a => rollback'[k][b] = rollback[k][b]
          /\ \A j \in Call : j # k => rollback'[j] = rollback[j]
      BY <2>2 DEF SetRollback, TypeOK
    <3> QED  BY <2>2, <3>1, SourcePath
  <2> QED  BY <2>1, <2>2
<1>6. \A j \in Call : Published(j) => Published(j)'
  BY <1>1, <1>2, SourcePath DEF Published, Only
<1> QED  BY <1>3, <1>4, <1>5, <1>6, SourceUntouched
\* What stands in the source file is put aside: whoever it is of was held nowhere else.
LEMMA SourceBackup ==
  ASSUME TypeOK, SourceInv, NEW k \in Call, Backup(k, "source"), ~Abort(k)
  PROVE  SourceInv'
<1> DEFINE s == "source"
           p == PathOf(k, s)
<1>1. /\ stage[k][s] = "staged" /\ Target(k, s) = before[k][s]
      /\ SetRollback(k, s, before[k][s]) /\ SetFile(k, s, None) /\ SetStage(k, s, "backed")
      /\ UNCHANGED <<after, pc>>
  BY DEF Backup
<1>2. /\ rollback'[k][s] = file[p]
      /\ \A j \in Call : j # k => rollback'[j] = rollback[j]
  BY <1>1, SourcePath DEF SetRollback, Target, TypeOK
<1>3. file'[p] = None /\ \A q \in Path : q # p => file'[q] = file[q]
  BY <1>1, SourcePath DEF SetFile, TypeOK
<1>4. stage'[k][s] = "backed" /\ \A j \in Call : j # k => stage'[j] = stage[j]
  BY <1>1, SourcePath DEF SetStage, TypeOK
<1>5. Only(k)  BY <1>1, <1>4 DEF Only
<1>6. OwnPost'  BY <1>1, <1>5, OwnPostStep
<1>7. ~Published(k) /\ \A j \in Call : Published(j) => Published(j)'
  BY <1>1, <1>4 DEF Published
<1>8. FileOwn'
  BY <1>3, <1>7, SourcePath, HoldsFacts DEF SourceInv, FileOwn, PathOf
<1>9. \A i, j \in Call : i # k /\ Holds(rollback[i][s], j) => ~Holds(file[p], j)
  <2> SUFFICES ASSUME NEW i \in Call, NEW j \in Call, Holds(rollback[i][s], j), Holds(file[p], j) PROVE FALSE
    OBVIOUS
  <2>1. p = PathOf(j, s)  BY SourcePath DEF SourceInv, FileOwn
  <2> QED  BY <2>1 DEF SourceInv, AsideOwn, Target
<1>10. AsideOwn'
  <2> SUFFICES ASSUME NEW i \in Call, NEW j \in Call, Holds(rollback'[i][s], j)
               PROVE  /\ PathOf(i, s) = PathOf(j, s) /\ Published(j)'
                      /\ ~Holds(file'[PathOf(j, s)], j)
                      /\ \A h \in Call : Holds(rollback'[h][s], j) => h = i
    BY DEF AsideOwn, PathOf, Target
  <2>1. CASE i = k
    <3>1. Holds(file[p], j)  BY <1>2, <2>1
    <3>2. p = PathOf(j, s) /\ Published(j)  BY <3>1, SourcePath DEF SourceInv, FileOwn
    <3> QED  BY <1>2, <1>3, <1>7, <1>9, <2>1, <3>1, <3>2, HoldsFacts
  <2>2. CASE i # k
    <3>1. Holds(rollback[i][s], j)  BY <1>2, <2>2
    <3>2. /\ PathOf(i, s) = PathOf(j, s) /\ Published(j) /\ ~Holds(file[PathOf(j, s)], j)
          /\ \A h \in Call : Holds(rollback[h][s], j) => h = i
      BY <3>1 DEF SourceInv, AsideOwn, Target
    <3>3. ~Holds(file'[PathOf(j, s)], j)  BY <1>3, <3>2, SourcePath, HoldsFacts
    <3> QED  BY <1>2, <1>7, <1>9, <2>2, <3>1, <3>2, <3>3
  <2> QED  BY <2>1, <2>2
<1> QED  BY <1>6, <1>8, <1>10 DEF SourceInv

\* The call's own source is linked: nobody held it before.
LEMMA SourceLink ==
  ASSUME TypeOK, SourceInv, NEW k \in Call, Link(k, "source"), ~Abort(k)
  PROVE  SourceInv'
<1> DEFINE s == "source"
           p == PathOf(k, s)
<1>1. /\ stage[k][s] \in {"staged", "backed"}
      /\ SetFile(k, s, after[k][s]) /\ SetStage(k, s, "published")
      /\ UNCHANGED <<rollback, after, pc>>
  BY DEF Link
<1>2. after[k][s] = <<k>>  BY <1>1 DEF SourceInv, OwnPost
<1>3. \A j \in Call : Holds(<<k>>, j) => j = k  BY HoldsFacts
<1>4. file'[p] = <<k>> /\ \A q \in Path : q # p => file'[q] = file[q]
  BY <1>1, <1>2, SourcePath DEF SetFile, TypeOK
<1>5. stage'[k][s] = "published" /\ \A j \in Call : j # k => stage'[j] = stage[j]
  BY <1>1, SourcePath DEF SetStage, TypeOK
<1>6. Only(k)  BY <1>1, <1>5 DEF Only
<1>7. OwnPost'  BY <1>1, <1>6, OwnPostStep
<1>8. ~Published(k) /\ Published(k)' /\ \A j \in Call : Published(j) => Published(j)'
  BY <1>1, <1>5 DEF Published
<1>9. FileOwn'
  <2> SUFFICES ASSUME NEW j \in Call, NEW q \in Plan, Holds(file'[q], j)
               PROVE  q = PathOf(j, s) /\ Published(j)'
    BY DEF FileOwn, PathOf
  <2>1. CASE q = p
    <3>1. j = k  BY <1>4, <1>3, <2>1
    <3> QED  BY <1>8, <2>1, <3>1
  <2>2. CASE q # p  BY <1>4, <1>8, <2>2, SourcePath DEF SourceInv, FileOwn
  <2> QED  BY <2>1, <2>2
<1>10. AsideOwn'
  <2> SUFFICES ASSUME NEW i \in Call, NEW j \in Call, Holds(rollback[i][s], j)
               PROVE  /\ PathOf(i, s) = PathOf(j, s) /\ Published(j)'
                      /\ ~Holds(file'[PathOf(j, s)], j)
                      /\ \A h \in Call : Holds(rollback[h][s], j) => h = i
    BY <1>1 DEF AsideOwn, PathOf, Target
  <2>1. /\ PathOf(i, s) = PathOf(j, s) /\ Published(j) /\ ~Holds(file[PathOf(j, s)], j)
        /\ \A h \in Call : Holds(rollback[h][s], j) => h = i
    BY DEF SourceInv, AsideOwn, Target
  <2>2. j # k  BY <1>8, <2>1
  <2>3. ~Holds(file'[PathOf(j, s)], j)  BY <1>4, <1>3, <2>1, <2>2, SourcePath
  <2> QED  BY <1>8, <2>1, <2>3
<1> QED  BY <1>7, <1>9, <1>10 DEF SourceInv

\* The call's own source is removed: it stood in the file and so nowhere else.
LEMMA SourceUnlink ==
  ASSUME TypeOK, SourceInv, NEW k \in Call, RestoreTarget(k, "source"), ~UNCHANGED stage
  PROVE  SourceInv'
<1> DEFINE s == "source"
           p == PathOf(k, s)
<1>1. /\ stage[k][s] = "published" /\ file[p] = after[k][s]
      /\ SetFile(k, s, None) /\ UNCHANGED <<rollback, after>> /\ pc[k] = "restore"
      /\ \E l \in {"mark", "restore"} : Goto(k, l) \/ (UNCHANGED pc /\ pc[k] = l)
      /\ \E t \in {"restored", "backed"} : SetStage(k, s, t)
  BY DEF RestoreTarget, TurnBack, Target
<1>2. Holds(file[p], k)
  <2>1. file[p] = <<k>>  BY <1>1 DEF SourceInv, OwnPost
  <2>2. Holds(<<k>>, k)  BY HoldsFacts
  <2> QED  BY <2>1, <2>2
<1>3. file'[p] = None /\ \A q \in Path : q # p => file'[q] = file[q]
  BY <1>1, SourcePath DEF SetFile, TypeOK
<1>4. stage'[k][s] \in {"restored", "backed"} /\ \A j \in Call : j # k => stage'[j] = stage[j]
  BY <1>1, SourcePath DEF SetStage, TypeOK
<1>5. pc'[k] # "stage" /\ Only(k)  BY <1>1, <1>4, GotoAt DEF Only
<1>6. OwnPost'  BY <1>1, <1>5, OwnPostStep
<1>7. \A j \in Call : j # k /\ Published(j) => Published(j)'
  BY <1>4 DEF Published
<1>8. FileOwn'
  <2> SUFFICES ASSUME NEW j \in Call, NEW q \in Plan, Holds(file'[q], j)
               PROVE  q = PathOf(j, s) /\ Published(j)'
    BY DEF FileOwn, PathOf
  <2>1. q # p /\ Holds(file[q], j)  BY <1>3, SourcePath, HoldsFacts
  <2>2. q = PathOf(j, s) /\ Published(j)  BY <2>1 DEF SourceInv, FileOwn
  <2> QED  BY <1>7, <2>1, <2>2
<1>9. AsideOwn'
  <2> SUFFICES ASSUME NEW i \in Call, NEW j \in Call, Holds(rollback[i][s], j)
               PROVE  /\ PathOf(i, s) = PathOf(j, s) /\ Published(j)'
                      /\ ~Holds(file'[PathOf(j, s)], j)
                      /\ \A h \in Call : Holds(rollback[h][s], j) => h = i
    BY <1>1 DEF AsideOwn, PathOf, Target
  <2>1. /\ PathOf(i, s) = PathOf(j, s) /\ Published(j) /\ ~Holds(file[PathOf(j, s)], j)
        /\ \A h \in Call : Holds(rollback[h][s], j) => h = i
    BY DEF SourceInv, AsideOwn, Target
  <2>2. j # k  BY <1>2, <2>1
  <2> QED  BY <1>3, <1>7, <2>1, <2>2, SourcePath, HoldsFacts
<1> QED  BY <1>6, <1>8, <1>9 DEF SourceInv

\* The preimage goes back to the file: whoever it is of is held there alone again.
LEMMA SourceRelink ==
  ASSUME TypeOK, SourceInv, NEW k \in Call, RestorePreimage(k, "source"), ~UNCHANGED stage
  PROVE  SourceInv'
<1> DEFINE s == "source"
           p == PathOf(k, s)
<1>1. /\ stage[k][s] = "backed"
      /\ SetFile(k, s, rollback[k][s]) /\ SetRollback(k, s, None) /\ SetStage(k, s, "restored")
      /\ UNCHANGED after /\ Goto(k, "mark")
  BY DEF RestorePreimage, TurnBack
<1>2. /\ rollback'[k][s] = None
      /\ \A j \in Call : j # k => rollback'[j] = rollback[j]
  BY <1>1, SourcePath DEF SetRollback, TypeOK
<1>3. file'[p] = rollback[k][s] /\ \A q \in Path : q # p => file'[q] = file[q]
  BY <1>1, SourcePath DEF SetFile, TypeOK
<1>4. stage'[k][s] = "restored" /\ \A j \in Call : j # k => stage'[j] = stage[j]
  BY <1>1, SourcePath DEF SetStage, TypeOK
<1>5. pc'[k] = "mark" /\ Only(k)  BY <1>1, <1>4, GotoAt DEF Only
<1>6. OwnPost'  BY <1>1, <1>5, OwnPostStep
<1>7. \A j \in Call : Published(j) => Published(j)'
  BY <1>1, <1>4 DEF Published
<1>8. FileOwn'
  <2> SUFFICES ASSUME NEW j \in Call, NEW q \in Plan, Holds(file'[q], j)
               PROVE  q = PathOf(j, s) /\ Published(j)'
    BY DEF FileOwn, PathOf
  <2>1. CASE q = p  BY <1>3, <1>7, <2>1 DEF SourceInv, AsideOwn
  <2>2. CASE q # p  BY <1>3, <1>7, <2>2, SourcePath DEF SourceInv, FileOwn
  <2> QED  BY <2>1, <2>2
<1>9. AsideOwn'
  <2> SUFFICES ASSUME NEW i \in Call, NEW j \in Call, Holds(rollback'[i][s], j)
               PROVE  /\ PathOf(i, s) = PathOf(j, s) /\ Published(j)'
                      /\ ~Holds(file'[PathOf(j, s)], j)
                      /\ \A h \in Call : Holds(rollback'[h][s], j) => h = i
    BY DEF AsideOwn, PathOf, Target
  <2>1. i # k /\ Holds(rollback[i][s], j)  BY <1>2, HoldsFacts
  <2>2. /\ PathOf(i, s) = PathOf(j, s) /\ Published(j) /\ ~Holds(file[PathOf(j, s)], j)
        /\ \A h \in Call : Holds(rollback[h][s], j) => h = i
    BY <2>1 DEF SourceInv, AsideOwn, Target
  <2>3. ~Holds(file'[PathOf(j, s)], j)  BY <1>3, <2>1, <2>2, SourcePath
  <2> QED  BY <1>2, <1>7, <2>2, <2>3, HoldsFacts
<1> QED  BY <1>6, <1>8, <1>9 DEF SourceInv
LEMMA SourceNext ==
  ASSUME TypeOK, SourceInv, [Next]_vars
  PROVE  SourceInv'
<1> USE DEF stores, images, locals, faults
<1>1. ASSUME NEW k \in Call,
             \/ Open(k) \/ Find(k) \/ MarkFound(k) \/ RecordIntent(k) \/ Begin(k) \/ Mark(k)
             \/ CommitLedger(k) \/ CommitJournal(k) \/ MarkPending(k) \/ ReplayComplete(k)
      PROVE  SourceInv'
  BY <1>1, SourceStill DEF Open, Find, MarkFound, RecordIntent, Begin, Mark, CommitLedger, CommitJournal,
    MarkPending, ReplayComplete
<1>2. ASSUME NEW k \in Call, CompleteCleanup(k) \/ Crash(k) \/ FileError(k) PROVE SourceInv'
  BY <1>2, SourceStill DEF CompleteCleanup, Crash, FileError, CleanupFails, ResumeFails
<1>3. ASSUME NEW k \in Call, Render(k) PROVE SourceInv'
  BY <1>3, SourceRender
<1>4. ASSUME NEW k \in Call, NEW a \in Artifact, Stage(k, a) PROVE SourceInv'
  <2>1. ~(a = "source" /\ Published(k))  BY <1>4 DEF Stage, Turn, Published
  <2> QED  BY <1>4, <2>1, SourceStage DEF Stage, Stages
<1>5. ASSUME NEW k \in Call, NEW a \in Artifact, Backup(k, a) PROVE SourceInv'
  <2>1. CASE Abort(k)  BY <2>1, SourceStill DEF Abort
  <2>2. CASE ~Abort(k) /\ a = "source"  BY <1>5, <2>2, SourceBackup
  <2>3. CASE ~Abort(k) /\ a = "projection"
    <3>1. before[k][a] \in Content /\ None \in Content  BY ContentFacts DEF TypeOK
    <3> QED  BY <1>5, <2>3, <3>1, SourceStage DEF Backup, PublishTurn, Stages
  <2> QED  BY <2>1, <2>2, <2>3 DEF Artifact
<1>6. ASSUME NEW k \in Call, NEW a \in Artifact, Link(k, a) PROVE SourceInv'
  <2>1. CASE Abort(k)  BY <2>1, SourceStill DEF Abort
  <2>2. CASE ~Abort(k) /\ a = "source"  BY <1>6, <2>2, SourceLink
  <2>3. CASE ~Abort(k) /\ a = "projection"
    <3>1. after[k][a] \in Content  BY ContentFacts DEF TypeOK
    <3> QED  BY <1>6, <2>3, <3>1, SourceStage DEF Link, Stages
  <2> QED  BY <2>1, <2>2, <2>3 DEF Artifact
<1>7. ASSUME NEW k \in Call, NEW a \in Artifact, RestoreTarget(k, a) PROVE SourceInv'
  <2>1. CASE UNCHANGED <<stage, file>>  BY <1>7, <2>1, SourceStill DEF RestoreTarget
  <2>2. CASE ~UNCHANGED stage /\ a = "source"  BY <1>7, <2>2, SourceUnlink
  <2>3. CASE ~UNCHANGED <<stage, file>> /\ a = "projection"
    <3>1. \E t \in {"restored", "backed"} : SetStage(k, a, t)  BY <1>7, <2>3 DEF RestoreTarget
    <3>2. stage[k][a] = "published" /\ UNCHANGED <<after, rollback, pc>> /\ pc[k] = "restore"
      BY <1>7, <2>3 DEF RestoreTarget, TurnBack
    <3>3. \E c \in Content : SetFile(k, a, c)  BY <1>7, <2>3, ContentFacts DEF RestoreTarget
    <3> QED  BY <2>3, <3>1, <3>2, <3>3, SourceStage DEF Stages
  <2>4. ~UNCHANGED <<stage, file>> => ~UNCHANGED stage
    <3> SUFFICES ASSUME ~UNCHANGED <<stage, file>> PROVE ~UNCHANGED stage
      OBVIOUS
    <3>1. stage[k][a] = "published" /\ \E t \in {"restored", "backed"} : SetStage(k, a, t)
      BY <1>7 DEF RestoreTarget, TurnBack
    <3>2. stage'[k][a] # "published"  BY <3>1 DEF SetStage, TypeOK
    <3> QED  BY <3>1, <3>2
  <2> QED  BY <2>1, <2>2, <2>3, <2>4 DEF Artifact
<1>8. ASSUME NEW k \in Call, NEW a \in Artifact, RestorePreimage(k, a) PROVE SourceInv'
  <2>1. CASE UNCHANGED <<stage, file, rollback>>  BY <1>8, <2>1, SourceStill DEF RestorePreimage
  <2>2. CASE ~UNCHANGED stage /\ a = "source"  BY <1>8, <2>2, SourceRelink
  <2>3. CASE ~UNCHANGED <<stage, file, rollback>> /\ a = "projection"
    <3>1. rollback[k][a] \in Content /\ None \in Content  BY ContentFacts DEF TypeOK
    <3> QED  BY <1>8, <2>3, <3>1, SourceStage DEF RestorePreimage, TurnBack, Stages
  <2>4. ~UNCHANGED <<stage, file, rollback>> => ~UNCHANGED stage
    <3> SUFFICES ASSUME ~UNCHANGED <<stage, file, rollback>> PROVE ~UNCHANGED stage
      OBVIOUS
    <3>1. stage[k][a] = "backed" /\ SetStage(k, a, "restored")
      BY <1>8 DEF RestorePreimage, TurnBack
    <3>2. stage'[k][a] # "backed"  BY <3>1 DEF SetStage, TypeOK
    <3> QED  BY <3>1, <3>2
  <2> QED  BY <2>1, <2>2, <2>3, <2>4 DEF Artifact
<1>9. ASSUME NEW k \in Call, NEW a \in Artifact, RestoreStaged(k, a) PROVE SourceInv'
  <2>1. ~(a = "source" /\ Published(k))  BY <1>9 DEF RestoreStaged, TurnBack, Published
  <2> QED  BY <1>9, <2>1, SourceStage DEF RestoreStaged, TurnBack, Stages
<1>10. ASSUME NEW k \in Call, NEW a \in Artifact, Finalize(k, a) PROVE SourceInv'
  <2>1. CASE UNCHANGED <<stage, rollback>>  BY <1>10, <2>1, SourceStill DEF Finalize, CleanupFails
  <2>2. CASE ~UNCHANGED <<stage, rollback>>
    BY SMTT(30), <1>10, <2>2, SourceStage, ContentFacts DEF Finalize, Stages
  <2> QED  BY <2>1, <2>2
<1>11. ASSUME NEW k \in Call, NEW a \in Artifact, Resume(k, a) PROVE SourceInv'
  <2>1. CASE UNCHANGED rollback  BY <1>11, <2>1, SourceStill DEF Resume, Resumed, ResumeFails
  <2>2. ASSUME NEW o, SetRollback(o, a, None)
        PROVE  \A j \in Call : rollback'[j]["source"] \in {rollback[j]["source"], None}
    BY <2>2, SourcePath DEF SetRollback, TypeOK
  <2>3. UNCHANGED <<file, after, stage>> /\ \E l : Goto(k, l) /\ l # "stage"
    BY <1>11 DEF Resume, Resumed, ResumeFails
  <2>4. Only(k) /\ pc'[k] # "stage"  BY <2>3, GotoAt, OnlyGoto
  <2>5. OwnPost'  BY <2>3, <2>4, OwnPostStep
  <2>6. \A j \in Call : rollback'[j]["source"] \in {rollback[j]["source"], None}
    BY <1>11, <2>2 DEF Resume
  <2> QED  BY <2>3, <2>5, <2>6, SourceUntouched DEF Published
<1>12. CASE UNCHANGED vars
  BY <1>12 DEF vars, SourceInv, OwnPost, FileOwn, AsideOwn, Published, Target
<1> HIDE DEF stores, images, locals, faults
<1> QED
  BY <1>1, <1>2, <1>3, <1>4, <1>5, <1>6, <1>7, <1>8, <1>9, <1>10, <1>11, <1>12 DEF Next, Step

LEMMA SourceInit == Init => SourceInv /\ OpenInv
<1> SUFFICES ASSUME Init PROVE SourceInv /\ OpenInv
  OBVIOUS
<1>1. \A p \in Plan : file[p] \in {None, << >>}  BY SourcePath DEF Init
<1>2. \A k \in Call : rollback[k]["source"] = None /\ stage[k]["source"] = "none" /\ pc[k] = "idle"
  BY SourcePath DEF Init
<1>3. SourceInv  BY <1>1, <1>2, HoldsFacts DEF SourceInv, OwnPost, FileOwn, AsideOwn
<1>4. OpenInv  BY <1>2 DEF OpenInv, StagedKnown, CommitPublished, RestoredOpen
<1> QED  BY <1>3, <1>4

\* A draft that failed and says that its files are restored has left no source in place and
\* its command not admitted, under an entry that refuses every later call.  It says nothing
\* of the projection: another draft may have rendered from it before it was restored
\* (node-atomic-draft-publisher.ts: restore; plan-draft-service.ts: recover).
RestoredMeansGone == \A k \in Call :
  pc[k] = "failed" /\ (\A a \in Artifact : stage[k][a] = "restored") =>
    /\ ~Holds(Target(k, "source"), k)
    /\ Status(k) \in {"intent", "recovery"} /\ ~Admitted(CommandOf[k])

\* A restored draft has left no source and no admission, however calls overlap and fail.
THEOREM RestoredSourceGone == Spec => []RestoredMeansGone
<1>1. Init => TypeOK /\ StoreInv /\ SourceInv /\ OpenInv  BY TypeInit, StoreInit, SourceInit
<1>2. TypeOK /\ StoreInv /\ SourceInv /\ OpenInv /\ [Next]_vars
        => (TypeOK /\ StoreInv /\ SourceInv /\ OpenInv)'
  BY TypeNext, StoreNext, SourceNext, OpenNext
<1>3. TypeOK /\ StoreInv /\ SourceInv /\ OpenInv => RestoredMeansGone
  <2> SUFFICES ASSUME TypeOK, StoreInv, SourceInv, OpenInv, NEW k \in Call, stage[k]["source"] = "restored"
               PROVE  /\ ~Holds(Target(k, "source"), k)
                      /\ Status(k) \in {"intent", "recovery"} /\ ~Admitted(CommandOf[k])
    BY SourcePath DEF RestoredMeansGone
  <2>1. ~Holds(Target(k, "source"), k)
    BY SourcePath DEF SourceInv, FileOwn, Published, Target
  <2>2. CommandOf[k] \in Command /\ journal[CommandOf[k]] \in Entry  BY ContentFacts DEF TypeOK
  <2>3. ~Admitted(CommandOf[k])  BY DEF OpenInv, RestoredOpen
  <2>4. Status(k) \notin {"none", "committed"}
    BY <2>2, <2>3 DEF OpenInv, StagedKnown, StoreInv, Commitment, Status
  <2> QED  BY <2>1, <2>2, <2>3, <2>4 DEF Entry, Status
<1> QED  BY <1>1, <1>2, <1>3, PTL DEF Spec

-----------------------------------------------------------------------------
(* What stands on disk of an admitted plan. *)

\* What a call has published of its source stays until its transaction ends.
PublishedStands == \A k \in Call : pc[k] \in Publishing /\ stage[k]["source"] = "published" =>
  Target(k, "source") = <<k>>

StandInv == PublishedStands /\ SourceStands

\* Who may take a source file away or put one in a free place: the call that is publishing
\* there, or one that restores what is still its own.
LEMMA SourceMoves ==
  ASSUME TypeOK, SourceInv, [Next]_vars, NEW p \in Plan, file'[p] # file[p]
  PROVE  \E k \in Call : p = PathOf(k, "source") /\
           \/ pc[k] = "publish" /\ stage[k]["source"] # "published"
           \/ pc[k] = "restore" /\ file[p] \in {None, <<k>>}
<1> USE DEF stores, images, locals, faults
<1>1. file' # file  OBVIOUS
<1>2. ASSUME NEW k \in Call, NEW a \in Artifact, NEW c, SetFile(k, a, c)
      PROVE  a = "source" /\ p = PathOf(k, "source")
  BY <1>2, SourcePath DEF SetFile, TypeOK
<1>3. ASSUME NEW k \in Call, NEW a \in Artifact, Backup(k, a) \/ Link(k, a)
      PROVE  p = PathOf(k, "source") /\ pc[k] = "publish" /\ stage[k]["source"] # "published"
  <2>1. \E c : SetFile(k, a, c)  BY <1>1, <1>3 DEF Backup, Link, Abort
  <2>2. a = "source" /\ p = PathOf(k, "source")  BY <1>2, <2>1
  <2> QED  BY <1>3, <2>2 DEF Backup, Link, PublishTurn
<1>4. ASSUME NEW k \in Call, NEW a \in Artifact, RestoreTarget(k, a)
      PROVE  p = PathOf(k, "source") /\ pc[k] = "restore" /\ file[p] = <<k>>
  <2>1. SetFile(k, a, None) /\ Target(k, a) = after[k][a]  BY <1>1, <1>4 DEF RestoreTarget
  <2>2. a = "source" /\ p = PathOf(k, "source")  BY <1>2, <2>1
  <2>3. pc[k] = "restore" /\ stage[k]["source"] = "published"
    BY <1>4, <2>2 DEF RestoreTarget, TurnBack
  <2> QED  BY <2>1, <2>2, <2>3 DEF SourceInv, OwnPost, Target
<1>5. ASSUME NEW k \in Call, NEW a \in Artifact, RestorePreimage(k, a)
      PROVE  p = PathOf(k, "source") /\ pc[k] = "restore" /\ file[p] = None
  <2>1. SetFile(k, a, rollback[k][a]) /\ Vacant(k, a)  BY <1>1, <1>5 DEF RestorePreimage
  <2>2. a = "source" /\ p = PathOf(k, "source")  BY <1>2, <2>1
  <2> QED  BY <1>5, <2>1, <2>2 DEF RestorePreimage, Vacant, Target
<1>6. \E k \in Call, a \in Artifact :
        Backup(k, a) \/ Link(k, a) \/ RestoreTarget(k, a) \/ RestorePreimage(k, a)
  <2>1. ASSUME NEW k \in Call, Open(k) \/ Find(k) \/ MarkFound(k) \/ RecordIntent(k) \/ Begin(k) \/ Render(k)
        PROVE  FALSE
    BY <1>1, <2>1 DEF Open, Find, MarkFound, RecordIntent, Begin, Render, Abort
  <2>2. ASSUME NEW k \in Call, \/ CommitLedger(k) \/ Mark(k) \/ CommitJournal(k) \/ CompleteCleanup(k)
                               \/ MarkPending(k) \/ ReplayComplete(k) \/ FileError(k) \/ Crash(k)
        PROVE  FALSE
    BY <1>1, <2>2 DEF CommitLedger, Mark, CommitJournal, CompleteCleanup, MarkPending, ReplayComplete,
      FileError, Crash
  <2>3. ASSUME NEW k \in Call, NEW a \in Artifact,
               Stage(k, a) \/ RestoreStaged(k, a) \/ Finalize(k, a) \/ Resume(k, a)
        PROVE  FALSE
    BY <1>1, <2>3 DEF Stage, RestoreStaged, Finalize, Resume
  <2>4. ~UNCHANGED vars
    BY <1>1 DEF vars
  <2> HIDE DEF stores, images, locals, faults
  <2> QED
    BY <2>1, <2>2, <2>3, <2>4 DEF Next, Step
<1> QED  BY <1>3, <1>4, <1>5, <1>6

\* A call comes to have published its source only by linking it.
LEMMA SourceAppears ==
  ASSUME TypeOK, SourceInv, NothingStaged, [Next]_vars, NEW j \in Call,
         pc'[j] \in Publishing, stage'[j]["source"] = "published",
         ~(pc[j] \in Publishing /\ stage[j]["source"] = "published")
  PROVE  file'[PathOf(j, "source")] = <<j>>
<1> USE DEF stores, images, locals, faults
<1>1. ASSUME NEW k \in Call, Only(k) PROVE j = k
  BY <1>1 DEF Only
<1>2. ASSUME NEW k \in Call, NEW l, Goto(k, l), l \in Publishing => pc[k] \in Publishing \cup {"begin"},
             UNCHANGED stage
      PROVE  FALSE
  <2>1. j = k /\ pc'[k] = l  BY <1>1, <1>2, OnlyGoto, GotoAt
  <2>2. pc[j] = "begin"  BY <1>2, <2>1
  <2>3. stage[j]["source"] = "none"  BY <2>2, SourcePath DEF NothingStaged, Fresh
  <2> QED  BY <1>2, <2>3
<1>3. ASSUME NEW k \in Call, Open(k) \/ Find(k) \/ MarkFound(k) \/ RecordIntent(k) \/ Begin(k)
      PROVE  FALSE
  BY <1>2, <1>3 DEF Open, Find, MarkFound, RecordIntent, Begin, Publishing
<1>4. ASSUME NEW k \in Call, Render(k) PROVE FALSE
  BY <1>2, <1>4 DEF Render, Abort, Publishing
<1>5. ASSUME NEW k \in Call, CommitLedger(k) \/ Mark(k) \/ CommitJournal(k) \/ CompleteCleanup(k)
             \/ MarkPending(k) \/ ReplayComplete(k)
      PROVE  FALSE
  BY <1>2, <1>5 DEF CommitLedger, Mark, CommitJournal, CompleteCleanup, CleanupFails, MarkPending,
    ReplayComplete, Publishing
<1>6. ASSUME NEW k \in Call, FileError(k) \/ Crash(k) PROVE FALSE
  BY <1>2, <1>6 DEF FileError, CleanupFails, ResumeFails, Crash, Publishing
<1>7. ASSUME NEW k \in Call, NEW a \in Artifact, NEW s \in Stages, NEW l, SetStage(k, a, s),
             Goto(k, l) \/ (UNCHANGED pc /\ l = pc[k]), l \in Publishing => pc[k] \in Publishing
      PROVE  j = k /\ a = "source" /\ s = "published"
  <2>1. j = k /\ pc'[k] = l  BY <1>1, <1>7, OnlyGoto, GotoAt
  <2>2. stage'[k][a] = s /\ \A b \in Artifact : b # a => stage'[k][b] = stage[k][b]
    BY <1>7 DEF SetStage, TypeOK
  <2> QED  BY <1>7, <2>1, <2>2, SourcePath
<1>8. ASSUME NEW k \in Call, NEW a \in Artifact, Stage(k, a) PROVE FALSE
  BY <1>7, <1>8 DEF Stage, Publishing, Stages
<1>9. ASSUME NEW k \in Call, NEW a \in Artifact, Backup(k, a) PROVE FALSE
  <2>1. CASE Abort(k)  BY <1>2, <2>1 DEF Abort, Publishing
  <2>2. CASE ~Abort(k)  BY <1>7, <1>9, <2>2 DEF Backup, PublishTurn, Publishing, Stages
  <2> QED  BY <2>1, <2>2
<1>10. ASSUME NEW k \in Call, NEW a \in Artifact, Link(k, a)
       PROVE  file'[PathOf(j, "source")] = <<j>>
  <2>1. CASE Abort(k)  BY <1>2, <2>1 DEF Abort, Publishing
  <2>2. CASE ~Abort(k)
    <3>1. j = k /\ a = "source"
      BY <1>7, <1>10, <2>2 DEF Link, PublishTurn, Publishing, Stages
    <3>2. SetFile(k, a, after[k][a]) /\ stage[k][a] # "none"  BY <1>10, <2>2 DEF Link
    <3>3. after[k]["source"] = <<k>>  BY <3>1, <3>2 DEF SourceInv, OwnPost
    <3> QED  BY <3>1, <3>2, <3>3, SourcePath DEF SetFile, TypeOK
  <2> QED  BY <2>1, <2>2
<1>11. ASSUME NEW k \in Call, NEW a \in Artifact, RestoreTarget(k, a) PROVE FALSE
  <2>1. CASE UNCHANGED stage
    BY <1>2, <1>11, <2>1 DEF RestoreTarget, Publishing
  <2>2. CASE \E s \in {"restored", "backed"} : SetStage(k, a, s)
    BY <1>7, <1>11, <2>2 DEF RestoreTarget, Publishing, Stages
  <2> QED  BY <1>11, <2>1, <2>2 DEF RestoreTarget
<1>12. ASSUME NEW k \in Call, NEW a \in Artifact, RestorePreimage(k, a) PROVE FALSE
  BY <1>2, <1>7, <1>12 DEF RestorePreimage, Publishing, Stages
<1>13. ASSUME NEW k \in Call, NEW a \in Artifact, RestoreStaged(k, a) PROVE FALSE
  BY <1>7, <1>13 DEF RestoreStaged, Publishing, Stages
<1>14. ASSUME NEW k \in Call, NEW a \in Artifact, Finalize(k, a) PROVE FALSE
  <2>1. CASE CleanupFails(k) /\ UNCHANGED stage
    BY <1>2, <1>14, <2>1 DEF Finalize, CleanupFails, Publishing
  <2>2. CASE SetStage(k, a, "finalized")
    <3>1. \E l \in {"finalize", "complete", "pending"} : Goto(k, l) \/ (UNCHANGED pc /\ l = pc[k])
      BY <1>14 DEF Finalize, CleanupFails
    <3>2. /\ "finalized" \in Stages
          /\ "finalize" \notin Publishing /\ "complete" \notin Publishing /\ "pending" \notin Publishing
      BY DEF Stages, Publishing
    <3> QED  BY <1>7, <2>2, <3>1, <3>2
  <2> QED  BY <1>14, <2>1, <2>2 DEF Finalize
<1>15. ASSUME NEW k \in Call, NEW a \in Artifact, Resume(k, a) PROVE FALSE
  BY <1>2, <1>15 DEF Resume, Resumed, ResumeFails, Publishing
<1>16. CASE UNCHANGED vars
  BY <1>16 DEF vars
<1> HIDE DEF stores, images, locals, faults
<1> QED
  BY <1>3, <1>4, <1>5, <1>6, <1>8, <1>9, <1>10, <1>11, <1>12, <1>13, <1>14, <1>15, <1>16 DEF Next, Step

\* A command is admitted only by the COMMIT of a call of it.
LEMMA AdmittedBy ==
  ASSUME TypeOK, [Next]_vars, NEW c \in Command, ledger'[c] # ledger[c]
  PROVE  \E k \in Call : CommitLedger(k) /\ c = CommandOf[k] /\ ledger'[c] = k /\ file' = file
<1> USE DEF stores, images, locals, faults
<1>1. \E k \in Call : CommitLedger(k)
  <2>1. ledger' # ledger
    OBVIOUS
  <2>2. ASSUME NEW k \in Call, Open(k) \/ Find(k) \/ MarkFound(k) \/ RecordIntent(k) \/ Begin(k) \/ Render(k)
        PROVE  FALSE
    BY <2>1, <2>2 DEF Open, Find, MarkFound, RecordIntent, Begin, Render, Abort
  <2>3. ASSUME NEW k \in Call, \/ Mark(k) \/ CommitJournal(k) \/ CompleteCleanup(k)
                               \/ MarkPending(k) \/ ReplayComplete(k) \/ FileError(k) \/ Crash(k)
        PROVE  FALSE
    BY <2>1, <2>3 DEF Mark, CommitJournal, CompleteCleanup, MarkPending, ReplayComplete, FileError, Crash
  <2>4. ASSUME NEW k \in Call, NEW a \in Artifact,
               \/ Stage(k, a) \/ Backup(k, a) \/ Link(k, a) \/ RestoreTarget(k, a)
               \/ RestorePreimage(k, a) \/ RestoreStaged(k, a) \/ Finalize(k, a) \/ Resume(k, a)
        PROVE  FALSE
    BY <2>1, <2>4 DEF Stage, Backup, Link, Abort, RestoreTarget, RestorePreimage, RestoreStaged,
      Finalize, Resume
  <2>5. ~UNCHANGED vars
    BY <2>1 DEF vars
  <2> HIDE DEF stores, images, locals, faults
  <2> QED
    BY <2>2, <2>3, <2>4, <2>5 DEF Next, Step
<1> QED  BY <1>1 DEF CommitLedger, TypeOK

LEMMA StandNext ==
  ASSUME TypeOK, StoreInv, NothingStaged, SourceInv, OpenInv, StandInv, [Next]_vars
  PROVE  StandInv'
<1>1. \A k \in Call : <<k>> # None
  BY ContentFacts, HoldsFacts
<1>2. \A j, k \in Call : <<j>> = <<k>> => j = k
  OBVIOUS
<1>3. PublishedStands'
  <2> SUFFICES ASSUME NEW j \in Call, pc'[j] \in Publishing, stage'[j]["source"] = "published"
               PROVE  file'[PathOf(j, "source")] = <<j>>
    BY DEF PublishedStands, Target, PathOf
  <2> DEFINE p == PathOf(j, "source")
  <2>1. CASE pc[j] \in Publishing /\ stage[j]["source"] = "published"
    <3>1. file[p] = <<j>>  BY <2>1 DEF StandInv, PublishedStands, Target
    <3>2. CASE file'[p] # file[p]
      <4>1. PICK k \in Call : \/ pc[k] = "publish" /\ stage[k]["source"] # "published"
                              \/ pc[k] = "restore" /\ file[p] \in {None, <<k>>}
        BY <3>2, SourceMoves, SourcePath
      <4>2. CASE pc[k] = "publish" /\ stage[k]["source"] # "published"
        BY <2>1, <4>2, PublisherAlone DEF Publishing
      <4>3. CASE pc[k] = "restore" /\ file[p] \in {None, <<k>>}
        BY <1>1, <1>2, <2>1, <3>1, <4>3 DEF Publishing
      <4> QED  BY <4>1, <4>2, <4>3
    <3> QED  BY <3>1, <3>2
  <2>2. CASE ~(pc[j] \in Publishing /\ stage[j]["source"] = "published")
    BY <2>2, SourceAppears
  <2> QED  BY <2>1, <2>2
<1>4. SourceStands'
  <2> SUFFICES ASSUME NEW c \in Command, ledger'[c] # None
               PROVE  file'[PlanOf[c]] = <<ledger'[c]>>
    BY DEF SourceStands, Admitted
  <2>1. CASE ledger'[c] = ledger[c]
    <3>1. Admitted(c) /\ file[PlanOf[c]] = <<ledger[c]>> /\ ledger[c] \in Call
      BY <2>1 DEF StandInv, SourceStands, Admitted, TypeOK
    <3>2. CASE file'[PlanOf[c]] # file[PlanOf[c]]
      <4>1. PlanOf[c] \in Plan  BY PlanDraftAssumption DEF PlanDraftAssumption
      <4>2. PICK k \in Call : PlanOf[c] = PathOf(k, "source") /\
                 \/ pc[k] = "publish" /\ stage[k]["source"] # "published"
                 \/ pc[k] = "restore" /\ file[PlanOf[c]] \in {None, <<k>>}
        BY <3>2, <4>1, SourceMoves
      <4>3. CASE pc[k] = "publish"
        BY <3>1, <4>2, <4>3 DEF StoreInv, PlanFree, PlanTaken, PathOf, Publishing, Admitted
      <4>4. CASE pc[k] = "restore" /\ file[PlanOf[c]] \in {None, <<k>>}
        <5>1. ledger[c] = k  BY <1>1, <1>2, <3>1, <4>4
        <5>2. CommandOf[k] = c  BY <3>1, <5>1 DEF StoreInv, Admission
        <5> QED  BY <3>1, <4>4, <5>2 DEF StoreInv, OwnIntent, Working
      <4> QED  BY <4>2, <4>3, <4>4
    <3> QED  BY <2>1, <3>1, <3>2
  <2>2. CASE ledger'[c] # ledger[c]
    <3>1. PICK k \in Call : CommitLedger(k) /\ c = CommandOf[k] /\ ledger'[c] = k /\ file' = file
      BY <2>2, AdmittedBy
    <3>2. pc[k] = "commitLedger"  BY <3>1 DEF CommitLedger
    <3>3. Target(k, "source") = <<k>>
      BY <3>2 DEF OpenInv, CommitPublished, StandInv, PublishedStands, Publishing
    <3> QED  BY <3>1, <3>3 DEF Target, PathOf
  <2> QED  BY <2>1, <2>2
<1> QED  BY <1>3, <1>4 DEF StandInv

\* The source of an admitted plan stays as its draft published it, however many drafts
\* fail, restore outside the write lock, and die.
THEOREM SourceAlwaysStands == Spec => []SourceStands
<1>1. Init => TypeOK /\ StoreInv /\ LossInv /\ SourceInv /\ OpenInv
  BY TypeInit, StoreInit, LossInit, SourceInit
<1>2. Init => StandInv
  BY DEF Init, StandInv, PublishedStands, SourceStands, Admitted, Publishing
<1>3. LossInv => NothingStaged  BY DEF LossInv
<1>4. TypeOK /\ StoreInv /\ LossInv /\ SourceInv /\ OpenInv /\ StandInv /\ [Next]_vars
        => (TypeOK /\ StoreInv /\ LossInv /\ SourceInv /\ OpenInv /\ StandInv)'
  BY <1>3, TypeNext, StoreNext, LossNext, SourceNext, OpenNext, StandNext
<1>5. StandInv => SourceStands  BY DEF StandInv
<1> QED  BY <1>1, <1>2, <1>4, <1>5, PTL DEF Spec
=============================================================================
