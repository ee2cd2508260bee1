------------------------- MODULE StopRefreshProofs -------------------------
(***************************************************************************)
(* Proofs about StopRefresh, for any number of generations: types; that no *)
(* demand is lost on one machine; and what the lease keeps apart as long   *)
(* as no two hooks stand between moveActiveGeneration's comparison and its *)
(* rename together (two slots always satisfy that).                        *)
(***************************************************************************)
EXTENDS StopRefresh, TLAPS

USE StopRefreshAssumption DEF StopRefreshAssumption

-----------------------------------------------------------------------------
(* Type correctness.                                                       *)

\* A process is a role of a generation.
LEMMA ProcTypes ==
  /\ \A r \in Roles, g \in Gen : <<r, g>> \in Proc
  /\ \A p \in Proc : p[1] \in Roles /\ p[2] \in Gen /\ p = <<p[1], p[2]>>
BY DEF Proc, Roles

\* Nothing exists before the first Stop.
LEMMA TypeInit == Init => TypeOK
<1> SUFFICES ASSUME Init PROVE TypeOK
  OBVIOUS
<1> USE DEF Init
<1>1. pc \in [Proc -> {"idle", "unborn"}]
  OBVIOUS
<1>2. \A g \in Gen : pc[<<"hook", g>>] = "idle" /\ pc[<<"worker", g>>] = "unborn"
  BY ProcTypes DEF Roles
<1>3. pc \in [Proc -> PC]
  BY <1>1 DEF PC, HookPC, WorkerPC
<1>4. claims \in [Gen -> SUBSET Record] /\ mishaps \in 0..MaxMishaps
  OBVIOUS
<1>5. /\ target \in [Gen -> Gen \cup {None}] /\ moved \in [Proc -> Gen \cup {None}]
      /\ attempt \in [Gen -> 0..1]
  OBVIOUS
<1>6. \A g \in Gen : pc[<<"hook", g>>] \notin WorkerPC /\ pc[<<"worker", g>>] \notin HookPC
  BY <1>2 DEF PC, HookPC, WorkerPC
<1> QED
  BY <1>3, <1>4, <1>5, <1>6 DEF TypeOK

\* Giving up leaves the directory, the records, the target and pc well typed.
LEMMA CoalesceTypes ==
  ASSUME TypeOK, NEW g \in Gen, Coalesce(g)
  PROVE  /\ anchor' \in SUBSET Gen
         /\ claims' \in [Gen -> SUBSET Record]
         /\ target' \in [Gen -> Gen \cup {None}]
         /\ pc' \in [Proc -> PC]
         /\ \A h \in Gen : /\ pc'[<<"hook", h>>] \notin WorkerPC
                           /\ pc'[<<"worker", h>>] \notin HookPC
BY ProcTypes DEF TypeOK, Coalesce, RemoveGeneration, Goto, Roles,
                 PC, HookPC, WorkerPC, ReleasePC

\* No file operation, crash or recycling leaves the types.
LEMMA TypeStep == TypeOK /\ [Next]_vars => TypeOK'
<1> SUFFICES ASSUME TypeOK, [Next]_vars PROVE TypeOK'
  OBVIOUS
<1> USE ProcTypes DEF TypeOK, PC, HookPC, WorkerPC, ReleasePC, Goto, Mishap,
       files, environment, demand, local
<1>1. ASSUME NEW g \in Gen, StopEvent(g) PROVE TypeOK'
  BY <1>1 DEF StopEvent, Record, Roles, HookClaim
<1>2. ASSUME NEW g \in Gen, LinkActive(g) PROVE TypeOK'
  BY ZenonT(40), <1>2 DEF LinkActive, Roles
<1>3. ASSUME NEW g \in Gen, InspectOwner(g) PROVE TypeOK'
  <2>1. CASE Coalesce(g)
    <3> HIDE DEF PC, HookPC, WorkerPC, ReleasePC, Goto
    <3> QED BY <1>3, <2>1, CoalesceTypes DEF InspectOwner
  <2>2. CASE ~Coalesce(g)
    <3>1. /\ ActiveOwner \in Gen
          /\ target' = [target EXCEPT ![g] = ActiveOwner]
          /\ Goto(<<"hook", g>>, "restoreMark")
          /\ UNCHANGED <<anchor, claims, dirty, active, claimed, moved, attempt,
                         environment, demand>>
      <4> HIDE DEF Goto
      <4> QED BY <1>3, <2>2 DEF InspectOwner, ActiveOwner
    <3> QED BY <3>1 DEF Roles
  <2> QED BY <2>1, <2>2
<1>4. ASSUME NEW g \in Gen, RestoreMark(g) PROVE TypeOK'
  BY ZenonT(40), <1>4 DEF RestoreMark, Roles
<1>5. ASSUME NEW g \in Gen, RestoreRemove(g) PROVE TypeOK'
  BY <1>5 DEF RestoreRemove, Roles
<1>6. ASSUME NEW g \in Gen, TakeoverCheck(g) PROVE TypeOK'
  BY ZenonT(40), <1>6 DEF TakeoverCheck, Roles, Coalesce, RemoveGeneration
<1>7. ASSUME NEW g \in Gen, TakeoverRename(g) PROVE TypeOK'
  <2>1. CASE active = None
    <3> HIDE DEF PC, HookPC, WorkerPC, ReleasePC, Goto
    <3>1. Coalesce(g) /\ UNCHANGED <<active, moved, dirty, claimed, attempt,
                                     environment, demand>>
      BY <1>7, <2>1 DEF TakeoverRename
    <3> QED BY <3>1, CoalesceTypes
  <2>2. CASE active # None
    <3>1. /\ active' = None
          /\ moved' = [moved EXCEPT ![<<"hook", g>>] = active]
          /\ Goto(<<"hook", g>>, "takeoverVerify")
          /\ UNCHANGED <<anchor, claims, target, dirty, claimed, attempt,
                         environment, demand>>
      <4> HIDE DEF Goto
      <4> QED BY <1>7, <2>2 DEF TakeoverRename
    <3> QED BY <3>1 DEF Roles
  <2> QED BY <2>1, <2>2
<1>8. ASSUME NEW g \in Gen, TakeoverVerify(g) PROVE TypeOK'
  <2>1. moved' \in [Proc -> Gen \cup {None}]
    BY <1>8 DEF TakeoverVerify
  <2>2. CASE Coalesce(g)
    <3> HIDE DEF PC, HookPC, WorkerPC, ReleasePC, Goto
    <3> QED BY <1>8, <2>1, <2>2, CoalesceTypes DEF TakeoverVerify
  <2>3. CASE ~Coalesce(g)
    <3>1. target[g] \in Gen /\ RemoveGeneration(target[g])
      BY <1>8, <2>3 DEF TakeoverVerify
    <3>2. anchor' \in SUBSET Gen /\ claims' \in [Gen -> SUBSET Record]
      BY <3>1 DEF RemoveGeneration
    <3> QED
      BY ZenonT(40), <1>8, <2>1, <2>3, <3>2 DEF TakeoverVerify, Roles
  <2> QED BY <2>2, <2>3
<1>9. ASSUME NEW g \in Gen, Relink(g) PROVE TypeOK'
  BY ZenonT(40), <1>9 DEF Relink, Roles, Coalesce, RemoveGeneration
<1>10. ASSUME NEW g \in Gen, SpawnWorker(g) PROVE TypeOK'
  BY ZenonT(40), <1>10 DEF SpawnWorker, Roles
<1>11. ASSUME NEW g \in Gen, SpawnRefused(g) PROVE TypeOK'
  BY <1>11 DEF SpawnRefused, Roles
<1>12. ASSUME NEW g \in Gen, Transfer(g) PROVE TypeOK'
  <2>1. WorkerClaim(BirthProbe /\ Running(<<"worker", g>>)) \in Record
    BY DEF Record, Roles, Running, WorkerClaim
  <2>2. claims' \in [Gen -> SUBSET Record]
    BY <1>12, <2>1 DEF Transfer
  <2> QED
    BY ZenonT(40), <1>12, <2>2 DEF Transfer, Roles
<1>13. ASSUME NEW g \in Gen, HookExit(g) PROVE TypeOK'
  BY <1>13 DEF HookExit, Roles
<1>14. ASSUME NEW g \in Gen, Join(g) PROVE TypeOK'
  <2>1. WorkerAck \in Record
    BY DEF Record, Roles, WorkerAck
  <2>2. claims' \in [Gen -> SUBSET Record]
    BY <1>14, <2>1 DEF Join
  <2> QED
    BY <1>14, <2>2 DEF Join, Roles
<1>15. ASSUME NEW g \in Gen, JoinRefused(g) PROVE TypeOK'
  BY <1>15 DEF JoinRefused, Roles
<1>16. ASSUME NEW g \in Gen, RetireClaims(g) PROVE TypeOK'
  BY <1>16 DEF RetireClaims, Roles
<1>17. ASSUME NEW g \in Gen, Joined(g) PROVE TypeOK'
  BY <1>17 DEF Joined, Roles
<1>18. ASSUME NEW g \in Gen, RefuseBun(g) PROVE TypeOK'
  BY <1>18 DEF RefuseBun, Roles
<1>19. ASSUME NEW g \in Gen, ClaimCheck(g) PROVE TypeOK'
  BY <1>19 DEF ClaimCheck, Roles
<1>20. ASSUME NEW g \in Gen, ClaimRename(g) PROVE TypeOK'
  BY ZenonT(40), <1>20 DEF ClaimRename, Roles
<1>21. ASSUME NEW g \in Gen, ClaimVerify(g) PROVE TypeOK'
  BY <1>21 DEF ClaimVerify, Roles
<1>22. ASSUME NEW g \in Gen, RefreshOk(g) PROVE TypeOK'
  BY <1>22 DEF RefreshOk, Roles
<1>23. ASSUME NEW g \in Gen, RefreshFailed(g) PROVE TypeOK'
  BY <1>23 DEF RefreshFailed, Roles
<1>24. ASSUME NEW g \in Gen, CompleteDemand(g) PROVE TypeOK'
  BY <1>24 DEF CompleteDemand, Roles
<1>25. ASSUME NEW g \in Gen, RetryMark(g) PROVE TypeOK'
  BY ZenonT(40), <1>25 DEF RetryMark, Roles
<1>26. ASSUME NEW g \in Gen, RetryRemove(g) PROVE TypeOK'
  <2>1. mishaps' \in 0..MaxMishaps
    BY <1>26 DEF RetryRemove
  <2> QED
    BY ZenonT(40), <1>26, <2>1 DEF RetryRemove, Roles
<1>27. ASSUME NEW g \in Gen, Age(g) PROVE TypeOK'
  BY <1>27 DEF Age, Roles
<1>28. ASSUME NEW g \in Gen, Recycle(g) PROVE TypeOK'
  <2>1. pc' \in [Proc -> PC]
    BY <1>28 DEF Recycle
  <2>2. \A h \in Gen : pc'[<<"hook", h>>] \notin WorkerPC
                      /\ pc'[<<"worker", h>>] \notin HookPC
    BY ZenonT(40), <1>28 DEF Recycle, Roles
  <2>3. /\ anchor' \in SUBSET Gen /\ claims' \in [Gen -> SUBSET Record]
        /\ target' \in [Gen -> Gen \cup {None}]
        /\ attempt' \in [Gen -> 0..1]
    BY <1>28 DEF Recycle, RemoveGeneration
  <2>4. moved' \in [Proc -> Gen \cup {None}]
    BY <1>28 DEF Recycle, Roles
  <2>5. /\ claimed' \in SUBSET Gen /\ covering' \in SUBSET Gen
        /\ reused' \in SUBSET Proc /\ aged' \in SUBSET Gen
        /\ stranded' \in BOOLEAN
    BY <1>28 DEF Recycle
  <2> HIDE DEF PC, HookPC, WorkerPC, ReleasePC
  <2> QED
    BY <1>28, <2>1, <2>2, <2>3, <2>4, <2>5 DEF Recycle
<1>29. ASSUME NEW p \in Proc, ReleaseCheck(p) PROVE TypeOK'
  BY <1>29 DEF ReleaseCheck, Roles, AfterRelease
<1>30. ASSUME NEW p \in Proc, ReleaseRename(p) PROVE TypeOK'
  BY <1>30 DEF ReleaseRename, Roles, AfterRelease
<1>31. ASSUME NEW p \in Proc, ReleaseVerify(p) PROVE TypeOK'
  BY <1>31 DEF ReleaseVerify, Roles, AfterRelease, RemoveGeneration
<1>32. ASSUME NEW p \in Proc, Crash(p) PROVE TypeOK'
  BY <1>32 DEF Crash, Roles
<1>33. ASSUME NEW p \in Proc, PidReused(p) PROVE TypeOK'
  BY <1>33 DEF PidReused, Roles
<1>34. ASSUME NEW p \in Proc, PidFreed(p) PROVE TypeOK'
  BY <1>34 DEF PidFreed, Roles
<1>35. CASE UNCHANGED vars
  BY <1>35 DEF vars
<1> HIDE DEF TypeOK, PC, HookPC, WorkerPC, ReleasePC, Goto, Mishap
<1> QED
  BY <1>1, <1>2, <1>3, <1>4, <1>5, <1>6, <1>7, <1>8, <1>9, <1>10, <1>11,
     <1>12, <1>13, <1>14, <1>15, <1>16, <1>17, <1>18, <1>19, <1>20, <1>21,
     <1>22, <1>23, <1>24, <1>25, <1>26, <1>27, <1>28, <1>29, <1>30, <1>31,
     <1>32, <1>33, <1>34, <1>35, ProcTypes
  DEF Next, HookStep, WorkerStep, NextStop, Release, Roles
-----------------------------------------------------------------------------
(* The inductive invariant.                                                *)

\* The processes of a generation.
LEMMA ProcMember ==
  \A g \in Gen : <<"hook", g>> \in Proc /\ <<"worker", g>> \in Proc
BY DEF Proc, Roles

\* Every process is the hook or the worker of a generation.
LEMMA ProcSplit ==
  \A p \in Proc : \E g \in Gen : p = <<"hook", g>> \/ p = <<"worker", g>>
BY DEF Proc, Roles

\* The part of type correctness that the case splits on pc use.
LEMMA PcDomain == TypeOK => pc \in [Proc -> PC]
BY DEF TypeOK

\* A worker exists only once its hook has spawned it, and only a generation
\* that has been marked is ever linked.
LEMMA LifecycleStep ==
  ASSUME TypeOK, Lifecycle, [Next]_vars
  PROVE  Lifecycle'
<1> USE ProcMember, PcDomain DEF Lifecycle, BeforeSpawn, HookPC, environment, demand, local, files, Goto
<1>1. ASSUME NEW g \in Gen, StopEvent(g) PROVE Lifecycle'
  BY <1>1 DEF StopEvent
<1>2. ASSUME NEW g \in Gen, LinkActive(g) PROVE Lifecycle'
  BY <1>2 DEF LinkActive
<1>3. ASSUME NEW g \in Gen, InspectOwner(g) PROVE Lifecycle'
  BY <1>3 DEF InspectOwner, Coalesce, RemoveGeneration
<1>4. ASSUME NEW g \in Gen, RestoreMark(g) PROVE Lifecycle'
  BY <1>4 DEF RestoreMark
<1>5. ASSUME NEW g \in Gen, RestoreRemove(g) PROVE Lifecycle'
  BY <1>5 DEF RestoreRemove
<1>6. ASSUME NEW g \in Gen, TakeoverCheck(g) PROVE Lifecycle'
  BY <1>6 DEF TakeoverCheck, Coalesce, RemoveGeneration
<1>7. ASSUME NEW g \in Gen, TakeoverRename(g) PROVE Lifecycle'
  BY <1>7 DEF TakeoverRename, Coalesce, RemoveGeneration
<1>8. ASSUME NEW g \in Gen, TakeoverVerify(g) PROVE Lifecycle'
  BY <1>8 DEF TakeoverVerify, Coalesce, RemoveGeneration
<1>9. ASSUME NEW g \in Gen, Relink(g) PROVE Lifecycle'
  BY <1>9 DEF Relink, Coalesce, RemoveGeneration
<1>10. ASSUME NEW g \in Gen, SpawnWorker(g) PROVE Lifecycle'
  BY <1>10 DEF SpawnWorker
<1>11. ASSUME NEW g \in Gen, SpawnRefused(g) PROVE Lifecycle'
  BY <1>11 DEF SpawnRefused
<1>12. ASSUME NEW g \in Gen, Transfer(g) PROVE Lifecycle'
  BY <1>12 DEF Transfer
<1>13. ASSUME NEW g \in Gen, HookExit(g) PROVE Lifecycle'
  BY <1>13 DEF HookExit
<1>14. ASSUME NEW g \in Gen, Join(g) PROVE Lifecycle'
  BY <1>14 DEF Join
<1>15. ASSUME NEW g \in Gen, JoinRefused(g) PROVE Lifecycle'
  BY <1>15 DEF JoinRefused
<1>16. ASSUME NEW g \in Gen, RetireClaims(g) PROVE Lifecycle'
  BY <1>16 DEF RetireClaims
<1>17. ASSUME NEW g \in Gen, Joined(g) PROVE Lifecycle'
  BY <1>17 DEF Joined
<1>18. ASSUME NEW g \in Gen, RefuseBun(g) PROVE Lifecycle'
  BY <1>18 DEF RefuseBun
<1>19. ASSUME NEW g \in Gen, ClaimCheck(g) PROVE Lifecycle'
  BY <1>19 DEF ClaimCheck
<1>20. ASSUME NEW g \in Gen, ClaimRename(g) PROVE Lifecycle'
  BY <1>20 DEF ClaimRename
<1>21. ASSUME NEW g \in Gen, ClaimVerify(g) PROVE Lifecycle'
  BY <1>21 DEF ClaimVerify
<1>22. ASSUME NEW g \in Gen, RefreshOk(g) PROVE Lifecycle'
  BY <1>22 DEF RefreshOk
<1>23. ASSUME NEW g \in Gen, RefreshFailed(g) PROVE Lifecycle'
  BY <1>23 DEF RefreshFailed
<1>24. ASSUME NEW g \in Gen, CompleteDemand(g) PROVE Lifecycle'
  BY <1>24 DEF CompleteDemand
<1>25. ASSUME NEW g \in Gen, RetryMark(g) PROVE Lifecycle'
  BY <1>25 DEF RetryMark
<1>26. ASSUME NEW g \in Gen, RetryRemove(g) PROVE Lifecycle'
  BY <1>26 DEF RetryRemove
<1>27. ASSUME NEW g \in Gen, Age(g) PROVE Lifecycle'
  BY <1>27 DEF Age
<1>28. ASSUME NEW g \in Gen, Recycle(g) PROVE Lifecycle'
  BY <1>28 DEF Recycle, RemoveGeneration
<1>29. ASSUME NEW g \in Gen, ReleaseCheck(<<"hook", g>>) PROVE Lifecycle'
  BY <1>29 DEF ReleaseCheck, AfterRelease
<1>30. ASSUME NEW g \in Gen, ReleaseRename(<<"hook", g>>) PROVE Lifecycle'
  <2>1. active' = active \/ active' = None
    BY <1>30 DEF ReleaseRename
  <2> QED BY <1>30, <2>1 DEF ReleaseRename, AfterRelease
<1>31. ASSUME NEW g \in Gen, ReleaseVerify(<<"hook", g>>) PROVE Lifecycle'
  BY <1>31 DEF ReleaseVerify, AfterRelease, RemoveGeneration
<1>32. ASSUME NEW g \in Gen, Crash(<<"hook", g>>) PROVE Lifecycle'
  BY <1>32 DEF Crash, Running
<1>33. ASSUME NEW g \in Gen, ReleaseCheck(<<"worker", g>>) PROVE Lifecycle'
  BY <1>33 DEF ReleaseCheck, AfterRelease
<1>34. ASSUME NEW g \in Gen, ReleaseRename(<<"worker", g>>) PROVE Lifecycle'
  <2>1. active' = active \/ active' = None
    BY <1>34 DEF ReleaseRename
  <2> QED BY <1>34, <2>1 DEF ReleaseRename, AfterRelease
<1>35. ASSUME NEW g \in Gen, ReleaseVerify(<<"worker", g>>) PROVE Lifecycle'
  BY <1>35 DEF ReleaseVerify, AfterRelease, RemoveGeneration
<1>36. ASSUME NEW g \in Gen, Crash(<<"worker", g>>) PROVE Lifecycle'
  BY <1>36 DEF Crash, Running
<1>37. ASSUME NEW p \in Proc, PidReused(p) PROVE Lifecycle'
  BY <1>37 DEF PidReused
<1>38. ASSUME NEW p \in Proc, PidFreed(p) PROVE Lifecycle'
  BY <1>38 DEF PidFreed
<1>39. CASE UNCHANGED vars
  BY <1>39 DEF vars
<1>40. ASSUME NEW p \in Proc, Crash(p) PROVE Lifecycle'
  BY <1>40, <1>32, <1>36, ProcSplit
<1> HIDE DEF Lifecycle, BeforeSpawn, HookPC, environment, demand, local, files, Goto
<1> QED
  BY <1>1, <1>2, <1>3, <1>4, <1>5, <1>6, <1>7, <1>8, <1>9, <1>10, <1>11,
     <1>12, <1>13, <1>14, <1>15, <1>16, <1>17, <1>18, <1>19, <1>20, <1>21,
     <1>22, <1>23, <1>24, <1>25, <1>26, <1>27, <1>28, <1>29, <1>30, <1>31,
     <1>32, <1>33, <1>34, <1>35, <1>36, <1>37, <1>38, <1>39, <1>40
  DEF Next, HookStep, WorkerStep, NextStop, Release

\* The roles of the owner records that the code writes.
LEMMA RecordRoles ==
  /\ HookClaim.role = "hook" /\ HookClaim.kind = "claim"
  /\ WorkerAck.role = "worker" /\ WorkerAck.kind = "ack"
BY DEF HookClaim, WorkerAck

\* A role is among the holders of a lease exactly if a record names it.
LEMMA HoldersRecorded ==
  ASSUME NEW g \in Gen, "worker" \in Holders(g)
  PROVE  ~Workerless(g)
BY DEF Holders, Canonical, Workerless

\* A claim that the parent writes for its child is the worker's.
LEMMA WorkerClaimRole ==
  ASSUME NEW g
  PROVE  WorkerClaim(BirthProbe /\ Running(<<"worker", g>>)).role = "worker"
BY DEF WorkerClaim

\* The part of type correctness that reasoning about records uses.
LEMMA ClaimsType == TypeOK => claims \in [Gen -> SUBSET Record]
BY DEF TypeOK

\* Whoever runs for a generation stays among its recorded owners: records are
\* written before they are needed and retired only after their successor.
LEMMA RunnersStep ==
  ASSUME TypeOK, Lifecycle, RunnersRecorded, [Next]_vars
  PROVE  RunnersRecorded'
<1> USE ProcMember, PcDomain, ClaimsType, RecordRoles DEF RunnersRecorded, Workerless, Finished, environment, demand, local, files, Goto
<1>1. ASSUME NEW g \in Gen, StopEvent(g) PROVE RunnersRecorded'
  <2>1. pc[<<"worker", g>>] = "unborn"
    BY <1>1 DEF StopEvent, Lifecycle, BeforeSpawn, HookPC
  <2> QED BY <1>1, <2>1 DEF StopEvent
<1>2. ASSUME NEW g \in Gen, LinkActive(g) PROVE RunnersRecorded'
  BY <1>2 DEF LinkActive
<1>3. ASSUME NEW g \in Gen, InspectOwner(g) PROVE RunnersRecorded'
  BY ZenonT(40), <1>3 DEF InspectOwner, Coalesce, RemoveGeneration
<1>4. ASSUME NEW g \in Gen, RestoreMark(g) PROVE RunnersRecorded'
  BY <1>4 DEF RestoreMark
<1>5. ASSUME NEW g \in Gen, RestoreRemove(g) PROVE RunnersRecorded'
  BY <1>5 DEF RestoreRemove
<1>6. ASSUME NEW g \in Gen, TakeoverCheck(g) PROVE RunnersRecorded'
  BY ZenonT(40), <1>6 DEF TakeoverCheck, Coalesce, RemoveGeneration
<1>7. ASSUME NEW g \in Gen, TakeoverRename(g) PROVE RunnersRecorded'
  BY ZenonT(40), <1>7 DEF TakeoverRename, Coalesce, RemoveGeneration
<1>8. ASSUME NEW g \in Gen, TakeoverVerify(g) PROVE RunnersRecorded'
  BY ZenonT(40), <1>8 DEF TakeoverVerify, Coalesce, RemoveGeneration
<1>9. ASSUME NEW g \in Gen, Relink(g) PROVE RunnersRecorded'
  BY ZenonT(40), <1>9 DEF Relink, Coalesce, RemoveGeneration
<1>10. ASSUME NEW g \in Gen, SpawnWorker(g) PROVE RunnersRecorded'
  BY <1>10 DEF SpawnWorker
<1>11. ASSUME NEW g \in Gen, SpawnRefused(g) PROVE RunnersRecorded'
  BY <1>11 DEF SpawnRefused
<1>12. ASSUME NEW g \in Gen, Transfer(g) PROVE RunnersRecorded'
  <2>1. CASE UNCHANGED claims
    BY <1>12, <2>1 DEF Transfer
  <2>2. CASE ~UNCHANGED claims
    <3>1. PICK r : r.role = "worker" /\ claims' = [claims EXCEPT ![g] = @ \cup {r}]
      BY <1>12, <2>2, WorkerClaimRole DEF Transfer
    <3>2. pc' = [pc EXCEPT ![<<"hook", g>>] = "returned"] /\ anchor' = anchor
      BY <1>12, <2>2 DEF Transfer
    <3> QED BY <1>12, <3>1, <3>2 DEF Transfer
  <2> QED BY <2>1, <2>2
<1>13. ASSUME NEW g \in Gen, HookExit(g) PROVE RunnersRecorded'
  BY <1>13 DEF HookExit
<1>14. ASSUME NEW g \in Gen, Join(g) PROVE RunnersRecorded'
  BY <1>14, HoldersRecorded DEF Join
<1>15. ASSUME NEW g \in Gen, JoinRefused(g) PROVE RunnersRecorded'
  BY <1>15 DEF JoinRefused
<1>16. ASSUME NEW g \in Gen, RetireClaims(g) PROVE RunnersRecorded'
  BY <1>16 DEF RetireClaims
<1>17. ASSUME NEW g \in Gen, Joined(g) PROVE RunnersRecorded'
  BY <1>17 DEF Joined
<1>18. ASSUME NEW g \in Gen, RefuseBun(g) PROVE RunnersRecorded'
  BY <1>18 DEF RefuseBun
<1>19. ASSUME NEW g \in Gen, ClaimCheck(g) PROVE RunnersRecorded'
  BY <1>19 DEF ClaimCheck
<1>20. ASSUME NEW g \in Gen, ClaimRename(g) PROVE RunnersRecorded'
  BY <1>20 DEF ClaimRename
<1>21. ASSUME NEW g \in Gen, ClaimVerify(g) PROVE RunnersRecorded'
  BY <1>21 DEF ClaimVerify
<1>22. ASSUME NEW g \in Gen, RefreshOk(g) PROVE RunnersRecorded'
  BY <1>22 DEF RefreshOk
<1>23. ASSUME NEW g \in Gen, RefreshFailed(g) PROVE RunnersRecorded'
  BY <1>23 DEF RefreshFailed
<1>24. ASSUME NEW g \in Gen, CompleteDemand(g) PROVE RunnersRecorded'
  BY <1>24 DEF CompleteDemand
<1>25. ASSUME NEW g \in Gen, RetryMark(g) PROVE RunnersRecorded'
  BY <1>25 DEF RetryMark
<1>26. ASSUME NEW g \in Gen, RetryRemove(g) PROVE RunnersRecorded'
  BY <1>26 DEF RetryRemove
<1>27. ASSUME NEW g \in Gen, Age(g) PROVE RunnersRecorded'
  BY <1>27 DEF Age
<1>28. ASSUME NEW g \in Gen, Recycle(g) PROVE RunnersRecorded'
  BY <1>28 DEF Recycle, RemoveGeneration
<1>29. ASSUME NEW g \in Gen, ReleaseCheck(<<"hook", g>>) PROVE RunnersRecorded'
  BY <1>29 DEF ReleaseCheck, AfterRelease
<1>30. ASSUME NEW g \in Gen, ReleaseRename(<<"hook", g>>) PROVE RunnersRecorded'
  BY <1>30 DEF ReleaseRename, AfterRelease
<1>31. ASSUME NEW g \in Gen, ReleaseVerify(<<"hook", g>>) PROVE RunnersRecorded'
  BY <1>31 DEF ReleaseVerify, AfterRelease, RemoveGeneration
<1>32. ASSUME NEW g \in Gen, Crash(<<"hook", g>>) PROVE RunnersRecorded'
  BY <1>32 DEF Crash, Running
<1>33. ASSUME NEW g \in Gen, ReleaseCheck(<<"worker", g>>) PROVE RunnersRecorded'
  BY <1>33 DEF ReleaseCheck, AfterRelease
<1>34. ASSUME NEW g \in Gen, ReleaseRename(<<"worker", g>>) PROVE RunnersRecorded'
  BY <1>34 DEF ReleaseRename, AfterRelease
<1>35. ASSUME NEW g \in Gen, ReleaseVerify(<<"worker", g>>) PROVE RunnersRecorded'
  BY <1>35 DEF ReleaseVerify, AfterRelease, RemoveGeneration
<1>36. ASSUME NEW g \in Gen, Crash(<<"worker", g>>) PROVE RunnersRecorded'
  BY <1>36 DEF Crash, Running
<1>37. ASSUME NEW p \in Proc, PidReused(p) PROVE RunnersRecorded'
  BY <1>37 DEF PidReused
<1>38. ASSUME NEW p \in Proc, PidFreed(p) PROVE RunnersRecorded'
  BY <1>38 DEF PidFreed
<1>39. CASE UNCHANGED vars
  BY <1>39 DEF vars
<1>40. ASSUME NEW p \in Proc, Crash(p) PROVE RunnersRecorded'
  BY ZenonT(40), <1>40, <1>32, <1>36, ProcSplit
<1> HIDE DEF RunnersRecorded, Workerless, Finished, environment, demand, local, files, Goto
<1> QED
  BY <1>1, <1>2, <1>3, <1>4, <1>5, <1>6, <1>7, <1>8, <1>9, <1>10, <1>11,
     <1>12, <1>13, <1>14, <1>15, <1>16, <1>17, <1>18, <1>19, <1>20, <1>21,
     <1>22, <1>23, <1>24, <1>25, <1>26, <1>27, <1>28, <1>29, <1>30, <1>31,
     <1>32, <1>33, <1>34, <1>35, <1>36, <1>37, <1>38, <1>39, <1>40
  DEF Next, HookStep, WorkerStep, NextStop, Release

\* The part of type correctness that reasoning about takeovers uses.
LEMMA TargetType == TypeOK => /\ target \in [Gen -> Gen \cup {None}]
                              /\ active \in Gen \cup {None}
                              /\ anchor \subseteq Gen
BY DEF TypeOK

\* The test that lets a hook take a lease over is sound: on one machine an
\* owner found inactive has no process that could still claim the demand.
LEMMA InactiveIsSpent ==
  ASSUME SingleHost, TypeOK, Lifecycle, RunnersRecorded,
         NEW k \in Gen, NEW g \in Gen, active = k, k \in anchor,
         ~OwnerStillActive(k, g)
  PROVE  Spent(k)
<1>1. \A r \in Canonical(k) : ~Running(<<r.role, k>>)
  BY DEF OwnerStillActive, SingleHost, PidAlive, BirthMatches
<1>2. pc[<<"hook", k>>] \in Finished
  <2> SUFFICES ASSUME pc[<<"hook", k>>] \notin Finished PROVE FALSE
    OBVIOUS
  <2>1. HookClaim \in claims[k] /\ Workerless(k)
    BY DEF RunnersRecorded, Lifecycle
  <2>2. HookClaim \in Canonical(k)
    BY <2>1, RecordRoles DEF Canonical, RunnersRecorded
  <2>3. Running(<<"hook", k>>)
    BY TypeOK DEF Running, Finished, Lifecycle, TypeOK, WorkerPC
  <2> QED BY <1>1, <2>2, <2>3, RecordRoles
<1>3. CASE pc[<<"worker", k>>] = "join"
  <2> SUFFICES ASSUME NEW r \in claims[k], r.role = "worker" PROVE FALSE
    BY <1>2, <1>3 DEF Spent, Workerless
  <2>1. PICK c \in Canonical(k) : c.role = "worker"
    BY DEF Canonical
  <2> QED BY <1>1, <1>3, <2>1 DEF Running
<1>4. CASE pc[<<"worker", k>>] \notin {"join", "unborn", "gone"}
  <2>1. WorkerAck \in Canonical(k)
    BY <1>4, RecordRoles DEF RunnersRecorded, Canonical
  <2>2. Running(<<"worker", k>>)
    BY <1>4 DEF Running, TypeOK, HookPC
  <2> QED BY <1>1, <2>1, <2>2, RecordRoles
<1> QED BY <1>2, <1>3, <1>4 DEF Spent

\* A hook that moves on without a new target disturbs no other takeover.
LEMMA RetreatStep ==
  ASSUME TypeOK, TakeoverOfSpent, NEW g \in Gen, pc[<<"hook", g>>] \notin Finished,
         NEW l, l \notin {"restoreMark", "restoreRemove"}, Goto(<<"hook", g>>, l),
         \A k \in Gen : claims'[k] \subseteq claims[k],
         \A k \in Gen \ {g} : target'[k] = target[k]
  PROVE  TakeoverOfSpent'
<1> USE ProcMember, PcDomain DEF Goto
<1> SUFFICES ASSUME NEW h \in Gen, pc'[<<"hook", h>>] \in {"restoreMark", "restoreRemove"}
             PROVE  target'[h] \in Gen /\ Spent(target[h])'
  BY DEF TakeoverOfSpent
<1>1. pc'[<<"hook", g>>] = l
  OBVIOUS
<1>2. h # g
  BY <1>1
<1>3. pc'[<<"hook", h>>] = pc[<<"hook", h>>] /\ target'[h] = target[h]
  BY <1>2
<1>4. target[h] \in Gen /\ Spent(target[h])
  BY <1>3 DEF TakeoverOfSpent
<1>5. target[h] # g
  BY <1>4 DEF Spent
<1>6. /\ pc'[<<"hook", target[h]>>] = pc[<<"hook", target[h]>>]
      /\ pc'[<<"worker", target[h]>>] = pc[<<"worker", target[h]>>]
  BY <1>4, <1>5
<1>7. Workerless(target[h]) => Workerless(target[h])'
  BY <1>3, <1>4 DEF Workerless
<1> QED
  BY <1>3, <1>4, <1>6, <1>7 DEF Spent

\* The owner a hook is taking over has no process left that could claim the
\* demand, and none comes back while the restoration lasts.
LEMMA TakeoverStep ==
  ASSUME SingleHost, TypeOK, Lifecycle, RunnersRecorded, TakeoverOfSpent, [Next]_vars
  PROVE  TakeoverOfSpent'
<1> USE ProcMember, PcDomain, ClaimsType, TargetType, RecordRoles DEF TakeoverOfSpent, Spent, Workerless, Finished, environment, demand, local, files, Goto
<1>1. ASSUME NEW g \in Gen, StopEvent(g) PROVE TakeoverOfSpent'
  BY <1>1 DEF StopEvent
<1>2. ASSUME NEW g \in Gen, LinkActive(g) PROVE TakeoverOfSpent'
  BY ZenonT(40), <1>2 DEF LinkActive
<1>3. ASSUME NEW g \in Gen, InspectOwner(g) PROVE TakeoverOfSpent'
  <2>1. CASE ~Goto(<<"hook", g>>, "restoreMark")
    <3>1. \A k \in Gen : claims'[k] \subseteq claims[k]
      BY <1>3, <2>1 DEF InspectOwner, Coalesce, RemoveGeneration
    <3>2. /\ pc[<<"hook", g>>] \notin Finished
         /\ \A k \in Gen \ {g} : target'[k] = target[k]
      BY <1>3, <2>1 DEF InspectOwner, Coalesce, RemoveGeneration
    <3>3. \E l \in PC \ {"restoreMark", "restoreRemove"} : Goto(<<"hook", g>>, l)
      BY <1>3, <2>1 DEF InspectOwner, Coalesce, RemoveGeneration, PC, HookPC
    <3> QED BY <3>1, <3>2, <3>3, RetreatStep
  <2>2. CASE Goto(<<"hook", g>>, "restoreMark")
    <3>1. /\ ActiveOwner # None /\ ~OwnerStillActive(ActiveOwner, g)
          /\ target' = [target EXCEPT ![g] = ActiveOwner]
          /\ UNCHANGED claims
      BY <1>3, <2>2 DEF InspectOwner, Coalesce
    <3>2. ActiveOwner = active /\ active \in Gen /\ active \in anchor
      BY <3>1 DEF ActiveOwner
    <3>3. Spent(active)
      BY <3>1, <3>2, InactiveIsSpent
    <3>4. pc[<<"hook", g>>] \notin Finished
      BY <1>3 DEF InspectOwner
    <3>5. /\ target'[g] = active
          /\ \A h \in Gen \ {g} : target'[h] = target[h]
      BY <3>1, <3>2
    <3>6. \A k \in Gen : Spent(k) => Spent(k)'
      <4> SUFFICES ASSUME NEW k \in Gen, Spent(k) PROVE Spent(k)'
        OBVIOUS
      <4>1. k # g
        BY <3>4
      <4> QED BY <2>2, <3>1, <4>1
    <3> SUFFICES ASSUME NEW h \in Gen, pc'[<<"hook", h>>] \in {"restoreMark", "restoreRemove"}
                 PROVE  target'[h] \in Gen /\ Spent(target[h])'
      OBVIOUS
    <3>7. CASE h = g
      BY <3>2, <3>3, <3>5, <3>6, <3>7
    <3>8. CASE h # g
      <4>1. pc[<<"hook", h>>] \in {"restoreMark", "restoreRemove"}
        BY <2>2, <3>8
      <4>2. target[h] \in Gen /\ Spent(target[h])
        BY <4>1
      <4> QED BY <3>5, <3>6, <3>8, <4>2
    <3> QED BY <3>7, <3>8
  <2> QED BY <1>3, <2>1, <2>2 DEF InspectOwner, Coalesce
<1>4. ASSUME NEW g \in Gen, RestoreMark(g) PROVE TakeoverOfSpent'
  BY ZenonT(40), <1>4 DEF RestoreMark
<1>5. ASSUME NEW g \in Gen, RestoreRemove(g) PROVE TakeoverOfSpent'
  BY <1>5 DEF RestoreRemove
<1>6. ASSUME NEW g \in Gen, TakeoverCheck(g) PROVE TakeoverOfSpent'
  <2>1. \A k \in Gen : claims'[k] \subseteq claims[k]
    BY <1>6 DEF TakeoverCheck, Coalesce, RemoveGeneration
  <2>2. /\ pc[<<"hook", g>>] \notin Finished
       /\ \A k \in Gen \ {g} : target'[k] = target[k]
    BY <1>6 DEF TakeoverCheck, Coalesce, RemoveGeneration
  <2>3. \E l \in PC \ {"restoreMark", "restoreRemove"} : Goto(<<"hook", g>>, l)
    BY <1>6 DEF TakeoverCheck, Coalesce, RemoveGeneration, PC, HookPC
  <2> QED BY <2>1, <2>2, <2>3, RetreatStep
<1>7. ASSUME NEW g \in Gen, TakeoverRename(g) PROVE TakeoverOfSpent'
  <2>1. \A k \in Gen : claims'[k] \subseteq claims[k]
    BY <1>7 DEF TakeoverRename, Coalesce, RemoveGeneration
  <2>2. /\ pc[<<"hook", g>>] \notin Finished
       /\ \A k \in Gen \ {g} : target'[k] = target[k]
    BY <1>7 DEF TakeoverRename, Coalesce, RemoveGeneration
  <2>3. \E l \in PC \ {"restoreMark", "restoreRemove"} : Goto(<<"hook", g>>, l)
    BY <1>7 DEF TakeoverRename, Coalesce, RemoveGeneration, PC, HookPC
  <2> QED BY <2>1, <2>2, <2>3, RetreatStep
<1>8. ASSUME NEW g \in Gen, TakeoverVerify(g) PROVE TakeoverOfSpent'
  <2>1. \A k \in Gen : claims'[k] \subseteq claims[k]
    BY <1>8 DEF TakeoverVerify, Coalesce, RemoveGeneration
  <2>2. /\ pc[<<"hook", g>>] \notin Finished
       /\ \A k \in Gen \ {g} : target'[k] = target[k]
    BY <1>8 DEF TakeoverVerify, Coalesce, RemoveGeneration
  <2>3. \E l \in PC \ {"restoreMark", "restoreRemove"} : Goto(<<"hook", g>>, l)
    BY <1>8 DEF TakeoverVerify, Coalesce, RemoveGeneration, PC, HookPC
  <2> QED BY <2>1, <2>2, <2>3, RetreatStep
<1>9. ASSUME NEW g \in Gen, Relink(g) PROVE TakeoverOfSpent'
  <2>1. \A k \in Gen : claims'[k] \subseteq claims[k]
    BY <1>9 DEF Relink, Coalesce, RemoveGeneration
  <2>2. /\ pc[<<"hook", g>>] \notin Finished
       /\ \A k \in Gen \ {g} : target'[k] = target[k]
    BY <1>9 DEF Relink, Coalesce, RemoveGeneration
  <2>3. \E l \in PC \ {"restoreMark", "restoreRemove"} : Goto(<<"hook", g>>, l)
    BY <1>9 DEF Relink, Coalesce, RemoveGeneration, PC, HookPC
  <2> QED BY <2>1, <2>2, <2>3, RetreatStep
<1>10. ASSUME NEW g \in Gen, SpawnWorker(g) PROVE TakeoverOfSpent'
  BY <1>10 DEF SpawnWorker
<1>11. ASSUME NEW g \in Gen, SpawnRefused(g) PROVE TakeoverOfSpent'
  BY <1>11 DEF SpawnRefused
<1>12. ASSUME NEW g \in Gen, Transfer(g) PROVE TakeoverOfSpent'
  BY ZenonT(40), <1>12 DEF Transfer
<1>13. ASSUME NEW g \in Gen, HookExit(g) PROVE TakeoverOfSpent'
  BY <1>13 DEF HookExit
<1>14. ASSUME NEW g \in Gen, Join(g) PROVE TakeoverOfSpent'
  <2>1. pc[<<"worker", g>>] = "join" /\ ~Workerless(g)
    BY <1>14 DEF Join, Holders, Canonical
  <2>2. ~Spent(g)
    BY <2>1
  <2> QED BY <1>14, <2>2 DEF Join
<1>15. ASSUME NEW g \in Gen, JoinRefused(g) PROVE TakeoverOfSpent'
  BY <1>15 DEF JoinRefused
<1>16. ASSUME NEW g \in Gen, RetireClaims(g) PROVE TakeoverOfSpent'
  BY <1>16 DEF RetireClaims
<1>17. ASSUME NEW g \in Gen, Joined(g) PROVE TakeoverOfSpent'
  BY <1>17 DEF Joined
<1>18. ASSUME NEW g \in Gen, RefuseBun(g) PROVE TakeoverOfSpent'
  BY <1>18 DEF RefuseBun
<1>19. ASSUME NEW g \in Gen, ClaimCheck(g) PROVE TakeoverOfSpent'
  BY <1>19 DEF ClaimCheck
<1>20. ASSUME NEW g \in Gen, ClaimRename(g) PROVE TakeoverOfSpent'
  BY ZenonT(40), <1>20 DEF ClaimRename
<1>21. ASSUME NEW g \in Gen, ClaimVerify(g) PROVE TakeoverOfSpent'
  BY <1>21 DEF ClaimVerify
<1>22. ASSUME NEW g \in Gen, RefreshOk(g) PROVE TakeoverOfSpent'
  BY <1>22 DEF RefreshOk
<1>23. ASSUME NEW g \in Gen, RefreshFailed(g) PROVE TakeoverOfSpent'
  BY <1>23 DEF RefreshFailed
<1>24. ASSUME NEW g \in Gen, CompleteDemand(g) PROVE TakeoverOfSpent'
  BY <1>24 DEF CompleteDemand
<1>25. ASSUME NEW g \in Gen, RetryMark(g) PROVE TakeoverOfSpent'
  BY ZenonT(40), <1>25 DEF RetryMark
<1>26. ASSUME NEW g \in Gen, RetryRemove(g) PROVE TakeoverOfSpent'
  BY ZenonT(40), <1>26 DEF RetryRemove
<1>27. ASSUME NEW g \in Gen, Age(g) PROVE TakeoverOfSpent'
  BY <1>27 DEF Age
<1>28. ASSUME NEW g \in Gen, Recycle(g) PROVE TakeoverOfSpent'
  BY ZenonT(40), <1>28 DEF Recycle, RemoveGeneration
<1>29. ASSUME NEW g \in Gen, ReleaseCheck(<<"hook", g>>) PROVE TakeoverOfSpent'
  BY <1>29 DEF ReleaseCheck, AfterRelease
<1>30. ASSUME NEW g \in Gen, ReleaseRename(<<"hook", g>>) PROVE TakeoverOfSpent'
  BY ZenonT(40), <1>30 DEF ReleaseRename, AfterRelease
<1>31. ASSUME NEW g \in Gen, ReleaseVerify(<<"hook", g>>) PROVE TakeoverOfSpent'
  BY <1>31 DEF ReleaseVerify, AfterRelease, RemoveGeneration
<1>32. ASSUME NEW g \in Gen, Crash(<<"hook", g>>) PROVE TakeoverOfSpent'
  BY <1>32 DEF Crash, Running
<1>33. ASSUME NEW g \in Gen, ReleaseCheck(<<"worker", g>>) PROVE TakeoverOfSpent'
  BY <1>33 DEF ReleaseCheck, AfterRelease
<1>34. ASSUME NEW g \in Gen, ReleaseRename(<<"worker", g>>) PROVE TakeoverOfSpent'
  BY ZenonT(40), <1>34 DEF ReleaseRename, AfterRelease
<1>35. ASSUME NEW g \in Gen, ReleaseVerify(<<"worker", g>>) PROVE TakeoverOfSpent'
  BY <1>35 DEF ReleaseVerify, AfterRelease, RemoveGeneration
<1>36. ASSUME NEW g \in Gen, Crash(<<"worker", g>>) PROVE TakeoverOfSpent'
  BY <1>36 DEF Crash, Running
<1>37. ASSUME NEW p \in Proc, PidReused(p) PROVE TakeoverOfSpent'
  BY <1>37 DEF PidReused
<1>38. ASSUME NEW p \in Proc, PidFreed(p) PROVE TakeoverOfSpent'
  BY <1>38 DEF PidFreed
<1>39. CASE UNCHANGED vars
  BY <1>39 DEF vars
<1>40. ASSUME NEW p \in Proc, Crash(p) PROVE TakeoverOfSpent'
  BY ZenonT(40), <1>40, <1>32, <1>36, ProcSplit
<1> HIDE DEF TakeoverOfSpent, Spent, Workerless, Finished, environment, demand, local, files, Goto
<1> QED
  BY <1>1, <1>2, <1>3, <1>4, <1>5, <1>6, <1>7, <1>8, <1>9, <1>10, <1>11,
     <1>12, <1>13, <1>14, <1>15, <1>16, <1>17, <1>18, <1>19, <1>20, <1>21,
     <1>22, <1>23, <1>24, <1>25, <1>26, <1>27, <1>28, <1>29, <1>30, <1>31,
     <1>32, <1>33, <1>34, <1>35, <1>36, <1>37, <1>38, <1>39, <1>40
  DEF Next, HookStep, WorkerStep, NextStop, Release

\* A step that starts no removal and ends no rebuild spares the marker.
LEMMA QuietStep ==
  ASSUME TypeOK, SpareMarker, NEW p \in Proc,
         NEW l \in PC \ {"restoreRemove", "retryRemove", "complete"}, Goto(p, l),
         \A k \in Gen : target'[k] = target[k] \/ p = <<"hook", k>>,
         UNCHANGED <<claimed, demand>>, dirty => dirty'
  PROVE  SpareMarker'
<1> USE ProcMember, PcDomain DEF Goto
<1>1. \A k \in Gen : pc'[<<"worker", k>>] = "complete" => pc[<<"worker", k>>] = "complete"
  OBVIOUS
<1>2. ASSUME NEW k \in Gen, Removing(k)' PROVE Removing(k)
  <2>1. CASE pc'[<<"worker", k>>] = "retryRemove"
    BY <2>1 DEF Removing
  <2>2. ASSUME NEW h \in Gen, pc'[<<"hook", h>>] = "restoreRemove", target'[h] = k
        PROVE  Removing(k)
    <3>1. p # <<"hook", h>>
      BY <2>2
    <3> QED BY <2>2, <3>1 DEF Removing
  <2> QED BY <1>2, <2>1, <2>2 DEF Removing
<1> HIDE DEF Goto
<1> QED BY <1>1, <1>2 DEF SpareMarker, demand, TypeOK

\* No step removes the last marker of an unserved demand.
LEMMA SpareMarkerStep ==
  ASSUME TypeOK, TakeoverOfSpent, SpareMarker, [Next]_vars
  PROVE  SpareMarker'
<1> USE ProcMember, PcDomain, TargetType DEF environment, demand, local, files
<1>1. ASSUME NEW g \in Gen, StopEvent(g) PROVE SpareMarker'
  BY <1>1 DEF StopEvent, SpareMarker, Goto
<1>2. ASSUME NEW g \in Gen, LinkActive(g) PROVE SpareMarker'
  <2>1. \E l \in PC \ {"restoreRemove", "retryRemove", "complete"} : Goto(<<"hook", g>>, l)
    BY <1>2 DEF LinkActive, PC, HookPC, WorkerPC, ReleasePC
  <2>2. /\ \A k \in Gen : target'[k] = target[k] \/ <<"hook", g>> = <<"hook", k>>
        /\ UNCHANGED <<claimed, demand>>
        /\ dirty => dirty'
    BY <1>2 DEF LinkActive
  <2> QED BY <2>1, <2>2, QuietStep
<1>3. ASSUME NEW g \in Gen, InspectOwner(g) PROVE SpareMarker'
  <2>1. \E l \in PC \ {"restoreRemove", "retryRemove", "complete"} : Goto(<<"hook", g>>, l)
    BY <1>3 DEF InspectOwner, Coalesce, RemoveGeneration, PC, HookPC, WorkerPC, ReleasePC
  <2>2. /\ \A k \in Gen : target'[k] = target[k] \/ <<"hook", g>> = <<"hook", k>>
        /\ UNCHANGED <<claimed, demand>>
        /\ dirty => dirty'
    BY <1>3 DEF InspectOwner, Coalesce, RemoveGeneration
  <2> QED BY <2>1, <2>2, QuietStep
<1>4. ASSUME NEW g \in Gen, RestoreMark(g) PROVE SpareMarker'
  <2>1. CASE target[g] \in claimed
    <3>1. dirty' /\ UNCHANGED demand
      BY <1>4, <2>1 DEF RestoreMark
    <3>2. \A k \in Gen : pc'[<<"worker", k>>] = "complete" => pc[<<"worker", k>>] = "complete"
      BY <1>4, <2>1 DEF RestoreMark, Goto
    <3> QED BY <3>1, <3>2 DEF SpareMarker, TypeOK
  <2>2. CASE target[g] \notin claimed
    <3>1. \E l \in PC \ {"restoreRemove", "retryRemove", "complete"} : Goto(<<"hook", g>>, l)
      BY <1>4, <2>2 DEF RestoreMark, PC, HookPC, WorkerPC, ReleasePC
    <3>2. /\ \A k \in Gen : target'[k] = target[k] \/ <<"hook", g>> = <<"hook", k>>
          /\ UNCHANGED <<claimed, demand>>
          /\ dirty => dirty'
      BY <1>4, <2>2 DEF RestoreMark
    <3> QED BY <3>1, <3>2, QuietStep
  <2> QED BY <2>1, <2>2
<1>5. ASSUME NEW g \in Gen, RestoreRemove(g) PROVE SpareMarker'
  <2>1. Removing(target[g]) \/ target[g] \notin Gen
    BY <1>5 DEF RestoreRemove, Removing
  <2>2. \A k \in Gen : Removing(k)' => Removing(k)
    BY <1>5 DEF RestoreRemove, Removing, Goto
  <2>3. \A k \in Gen : pc'[<<"worker", k>>] = pc[<<"worker", k>>]
    BY <1>5 DEF RestoreRemove, Goto
  <2>4. UNCHANGED <<dirty, demand>> /\ claimed' = claimed \ {target[g]}
    BY <1>5 DEF RestoreRemove
  <2> QED BY <2>1, <2>2, <2>3, <2>4 DEF SpareMarker, TypeOK
<1>6. ASSUME NEW g \in Gen, TakeoverCheck(g) PROVE SpareMarker'
  <2>1. \E l \in PC \ {"restoreRemove", "retryRemove", "complete"} : Goto(<<"hook", g>>, l)
    BY <1>6 DEF TakeoverCheck, Coalesce, RemoveGeneration, PC, HookPC, WorkerPC, ReleasePC
  <2>2. /\ \A k \in Gen : target'[k] = target[k] \/ <<"hook", g>> = <<"hook", k>>
        /\ UNCHANGED <<claimed, demand>>
        /\ dirty => dirty'
    BY <1>6 DEF TakeoverCheck, Coalesce, RemoveGeneration
  <2> QED BY <2>1, <2>2, QuietStep
<1>7. ASSUME NEW g \in Gen, TakeoverRename(g) PROVE SpareMarker'
  <2>1. \E l \in PC \ {"restoreRemove", "retryRemove", "complete"} : Goto(<<"hook", g>>, l)
    BY <1>7 DEF TakeoverRename, Coalesce, RemoveGeneration, PC, HookPC, WorkerPC, ReleasePC
  <2>2. /\ \A k \in Gen : target'[k] = target[k] \/ <<"hook", g>> = <<"hook", k>>
        /\ UNCHANGED <<claimed, demand>>
        /\ dirty => dirty'
    BY <1>7 DEF TakeoverRename, Coalesce, RemoveGeneration
  <2> QED BY <2>1, <2>2, QuietStep
<1>8. ASSUME NEW g \in Gen, TakeoverVerify(g) PROVE SpareMarker'
  <2>1. \E l \in PC \ {"restoreRemove", "retryRemove", "complete"} : Goto(<<"hook", g>>, l)
    BY <1>8 DEF TakeoverVerify, Coalesce, RemoveGeneration, PC, HookPC, WorkerPC, ReleasePC
  <2>2. /\ \A k \in Gen : target'[k] = target[k] \/ <<"hook", g>> = <<"hook", k>>
        /\ UNCHANGED <<claimed, demand>>
        /\ dirty => dirty'
    BY <1>8 DEF TakeoverVerify, Coalesce, RemoveGeneration
  <2> QED BY <2>1, <2>2, QuietStep
<1>9. ASSUME NEW g \in Gen, Relink(g) PROVE SpareMarker'
  <2>1. \E l \in PC \ {"restoreRemove", "retryRemove", "complete"} : Goto(<<"hook", g>>, l)
    BY <1>9 DEF Relink, Coalesce, RemoveGeneration, PC, HookPC, WorkerPC, ReleasePC
  <2>2. /\ \A k \in Gen : target'[k] = target[k] \/ <<"hook", g>> = <<"hook", k>>
        /\ UNCHANGED <<claimed, demand>>
        /\ dirty => dirty'
    BY <1>9 DEF Relink, Coalesce, RemoveGeneration
  <2> QED BY <2>1, <2>2, QuietStep
<1>10. ASSUME NEW g \in Gen, SpawnWorker(g) PROVE SpareMarker'
  <2>1. \A k \in Gen : Removing(k)' => Removing(k)
    BY <1>10 DEF SpawnWorker, Removing
  <2>2. \A k \in Gen : pc'[<<"worker", k>>] = "complete" => pc[<<"worker", k>>] = "complete"
    BY <1>10 DEF SpawnWorker
  <2>3. UNCHANGED <<dirty, claimed, demand>>
    BY <1>10 DEF SpawnWorker
  <2> QED BY <2>1, <2>2, <2>3 DEF SpareMarker, TypeOK
<1>11. ASSUME NEW g \in Gen, SpawnRefused(g) PROVE SpareMarker'
  <2>1. \E l \in PC \ {"restoreRemove", "retryRemove", "complete"} : Goto(<<"hook", g>>, l)
    BY <1>11 DEF SpawnRefused, PC, HookPC, WorkerPC, ReleasePC
  <2>2. /\ \A k \in Gen : target'[k] = target[k] \/ <<"hook", g>> = <<"hook", k>>
        /\ UNCHANGED <<claimed, demand>>
        /\ dirty => dirty'
    BY <1>11 DEF SpawnRefused
  <2> QED BY <2>1, <2>2, QuietStep
<1>12. ASSUME NEW g \in Gen, Transfer(g) PROVE SpareMarker'
  <2>1. \E l \in PC \ {"restoreRemove", "retryRemove", "complete"} : Goto(<<"hook", g>>, l)
    BY <1>12 DEF Transfer, PC, HookPC, WorkerPC, ReleasePC
  <2>2. /\ \A k \in Gen : target'[k] = target[k] \/ <<"hook", g>> = <<"hook", k>>
        /\ UNCHANGED <<claimed, demand>>
        /\ dirty => dirty'
    BY <1>12 DEF Transfer
  <2> QED BY <2>1, <2>2, QuietStep
<1>13. ASSUME NEW g \in Gen, HookExit(g) PROVE SpareMarker'
  <2>1. \E l \in PC \ {"restoreRemove", "retryRemove", "complete"} : Goto(<<"hook", g>>, l)
    BY <1>13 DEF HookExit, PC, HookPC, WorkerPC, ReleasePC
  <2>2. /\ \A k \in Gen : target'[k] = target[k] \/ <<"hook", g>> = <<"hook", k>>
        /\ UNCHANGED <<claimed, demand>>
        /\ dirty => dirty'
    BY <1>13 DEF HookExit
  <2> QED BY <2>1, <2>2, QuietStep
<1>14. ASSUME NEW g \in Gen, Join(g) PROVE SpareMarker'
  <2>1. \E l \in PC \ {"restoreRemove", "retryRemove", "complete"} : Goto(<<"worker", g>>, l)
    BY <1>14 DEF Join, PC, HookPC, WorkerPC, ReleasePC
  <2>2. /\ \A k \in Gen : target'[k] = target[k] \/ <<"worker", g>> = <<"hook", k>>
        /\ UNCHANGED <<claimed, demand>>
        /\ dirty => dirty'
    BY <1>14 DEF Join
  <2> QED BY <2>1, <2>2, QuietStep
<1>15. ASSUME NEW g \in Gen, JoinRefused(g) PROVE SpareMarker'
  <2>1. \E l \in PC \ {"restoreRemove", "retryRemove", "complete"} : Goto(<<"worker", g>>, l)
    BY <1>15 DEF JoinRefused, PC, HookPC, WorkerPC, ReleasePC
  <2>2. /\ \A k \in Gen : target'[k] = target[k] \/ <<"worker", g>> = <<"hook", k>>
        /\ UNCHANGED <<claimed, demand>>
        /\ dirty => dirty'
    BY <1>15 DEF JoinRefused
  <2> QED BY <2>1, <2>2, QuietStep
<1>16. ASSUME NEW g \in Gen, RetireClaims(g) PROVE SpareMarker'
  <2>1. \E l \in PC \ {"restoreRemove", "retryRemove", "complete"} : Goto(<<"worker", g>>, l)
    BY <1>16 DEF RetireClaims, PC, HookPC, WorkerPC, ReleasePC
  <2>2. /\ \A k \in Gen : target'[k] = target[k] \/ <<"worker", g>> = <<"hook", k>>
        /\ UNCHANGED <<claimed, demand>>
        /\ dirty => dirty'
    BY <1>16 DEF RetireClaims
  <2> QED BY <2>1, <2>2, QuietStep
<1>17. ASSUME NEW g \in Gen, Joined(g) PROVE SpareMarker'
  <2>1. \E l \in PC \ {"restoreRemove", "retryRemove", "complete"} : Goto(<<"worker", g>>, l)
    BY <1>17 DEF Joined, PC, HookPC, WorkerPC, ReleasePC
  <2>2. /\ \A k \in Gen : target'[k] = target[k] \/ <<"worker", g>> = <<"hook", k>>
        /\ UNCHANGED <<claimed, demand>>
        /\ dirty => dirty'
    BY <1>17 DEF Joined
  <2> QED BY <2>1, <2>2, QuietStep
<1>18. ASSUME NEW g \in Gen, RefuseBun(g) PROVE SpareMarker'
  <2>1. \E l \in PC \ {"restoreRemove", "retryRemove", "complete"} : Goto(<<"worker", g>>, l)
    BY <1>18 DEF RefuseBun, PC, HookPC, WorkerPC, ReleasePC
  <2>2. /\ \A k \in Gen : target'[k] = target[k] \/ <<"worker", g>> = <<"hook", k>>
        /\ UNCHANGED <<claimed, demand>>
        /\ dirty => dirty'
    BY <1>18 DEF RefuseBun
  <2> QED BY <2>1, <2>2, QuietStep
<1>19. ASSUME NEW g \in Gen, ClaimCheck(g) PROVE SpareMarker'
  <2>1. \E l \in PC \ {"restoreRemove", "retryRemove", "complete"} : Goto(<<"worker", g>>, l)
    BY <1>19 DEF ClaimCheck, PC, HookPC, WorkerPC, ReleasePC
  <2>2. /\ \A k \in Gen : target'[k] = target[k] \/ <<"worker", g>> = <<"hook", k>>
        /\ UNCHANGED <<claimed, demand>>
        /\ dirty => dirty'
    BY <1>19 DEF ClaimCheck
  <2> QED BY <2>1, <2>2, QuietStep
<1>20. ASSUME NEW g \in Gen, ClaimRename(g) PROVE SpareMarker'
  <2>1. CASE ~dirty
    <3>1. \E l \in PC \ {"restoreRemove", "retryRemove", "complete"} : Goto(<<"worker", g>>, l)
      BY <1>20, <2>1 DEF ClaimRename, PC, HookPC, WorkerPC, ReleasePC
    <3>2. /\ \A k \in Gen : target'[k] = target[k] \/ <<"worker", g>> = <<"hook", k>>
          /\ UNCHANGED <<claimed, demand>>
          /\ dirty => dirty'
      BY <1>20, <2>1 DEF ClaimRename
    <3> QED BY <3>1, <3>2, QuietStep
  <2>2. CASE dirty
    <3>1. /\ pc[<<"worker", g>>] = "claimRename"
          /\ pc' = [pc EXCEPT ![<<"worker", g>>] = "claimVerify"]
          /\ UNCHANGED <<target, watch, stranded>>
          /\ claimed' = claimed \cup {g}
          /\ covering' = IF watch = "pending" THEN covering \cup {g} ELSE covering \ {g}
      BY <1>20, <2>2 DEF ClaimRename, Goto
    <3>2. \A h \in Gen : ~(pc[<<"hook", h>>] = "restoreRemove" /\ target[h] = g)
      BY <3>1 DEF TakeoverOfSpent, Spent
    <3>3. ~Removing(g)'
      BY <3>1, <3>2 DEF Removing
    <3>4. /\ pc'[<<"worker", g>>] # "complete"
          /\ \A k \in Gen \ {g} : pc'[<<"worker", k>>] = pc[<<"worker", k>>]
      BY <3>1
    <3> QED BY <3>1, <3>3, <3>4 DEF SpareMarker, TypeOK
  <2> QED BY <2>1, <2>2
<1>21. ASSUME NEW g \in Gen, ClaimVerify(g) PROVE SpareMarker'
  <2>1. \E l \in PC \ {"restoreRemove", "retryRemove", "complete"} : Goto(<<"worker", g>>, l)
    BY <1>21 DEF ClaimVerify, PC, HookPC, WorkerPC, ReleasePC
  <2>2. /\ \A k \in Gen : target'[k] = target[k] \/ <<"worker", g>> = <<"hook", k>>
        /\ UNCHANGED <<claimed, demand>>
        /\ dirty => dirty'
    BY <1>21 DEF ClaimVerify
  <2> QED BY <2>1, <2>2, QuietStep
<1>22. ASSUME NEW g \in Gen, RefreshOk(g) PROVE SpareMarker'
  <2>1. \A k \in Gen : Removing(k)' => Removing(k)
    BY <1>22 DEF RefreshOk, Removing, Goto
  <2>2. \A k \in Gen \ {g} : pc'[<<"worker", k>>] = pc[<<"worker", k>>]
    BY <1>22 DEF RefreshOk, Goto
  <2>3. /\ UNCHANGED <<dirty, claimed, covering, stranded>>
        /\ watch' = IF g \in covering /\ watch = "pending" THEN "served" ELSE watch
    BY <1>22 DEF RefreshOk
  <2> QED BY <2>1, <2>2, <2>3 DEF SpareMarker, TypeOK
<1>23. ASSUME NEW g \in Gen, RefreshFailed(g) PROVE SpareMarker'
  <2>1. \E l \in PC \ {"restoreRemove", "retryRemove", "complete"} : Goto(<<"worker", g>>, l)
    BY <1>23 DEF RefreshFailed, PC, HookPC, WorkerPC, ReleasePC
  <2>2. /\ \A k \in Gen : target'[k] = target[k] \/ <<"worker", g>> = <<"hook", k>>
        /\ UNCHANGED <<claimed, demand>>
        /\ dirty => dirty'
    BY <1>23 DEF RefreshFailed
  <2> QED BY <2>1, <2>2, QuietStep
<1>24. ASSUME NEW g \in Gen, CompleteDemand(g) PROVE SpareMarker'
  <2>1. \A k \in Gen : Removing(k)' => Removing(k)
    BY <1>24 DEF CompleteDemand, Removing, Goto
  <2>2. \A k \in Gen : pc'[<<"worker", k>>] = "complete" => pc[<<"worker", k>>] = "complete"
    BY <1>24 DEF CompleteDemand, Goto
  <2>3. /\ UNCHANGED <<dirty, demand>>
        /\ claimed' = claimed \/ claimed' = claimed \ {g}
        /\ pc[<<"worker", g>>] = "complete"
    BY <1>24 DEF CompleteDemand
  <2>4. watch = "pending" => g \notin covering
    BY <2>3 DEF SpareMarker
  <2> QED BY <2>1, <2>2, <2>3, <2>4 DEF SpareMarker, TypeOK
<1>25. ASSUME NEW g \in Gen, RetryMark(g) PROVE SpareMarker'
  <2>1. CASE Owns(g) /\ g \in claimed
    <3>1. dirty' /\ UNCHANGED demand
      BY <1>25, <2>1 DEF RetryMark
    <3>2. \A k \in Gen : pc'[<<"worker", k>>] = "complete" => pc[<<"worker", k>>] = "complete"
      BY <1>25, <2>1 DEF RetryMark, Goto
    <3> QED BY <3>1, <3>2 DEF SpareMarker, TypeOK
  <2>2. CASE ~(Owns(g) /\ g \in claimed)
    <3>1. \E l \in PC \ {"restoreRemove", "retryRemove", "complete"} : Goto(<<"worker", g>>, l)
      BY <1>25, <2>2 DEF RetryMark, PC, HookPC, WorkerPC, ReleasePC
    <3>2. /\ \A k \in Gen : target'[k] = target[k] \/ <<"worker", g>> = <<"hook", k>>
          /\ UNCHANGED <<claimed, demand>>
          /\ dirty => dirty'
      BY <1>25, <2>2 DEF RetryMark
    <3> QED BY <3>1, <3>2, QuietStep
  <2> QED BY <2>1, <2>2
<1>26. ASSUME NEW g \in Gen, RetryRemove(g) PROVE SpareMarker'
  <2>1. Removing(g)
    BY <1>26 DEF RetryRemove, Removing
  <2>2. \A k \in Gen : Removing(k)' => Removing(k)
    BY <1>26 DEF RetryRemove, Removing, Goto
  <2>3. \A k \in Gen : pc'[<<"worker", k>>] = "complete" => pc[<<"worker", k>>] = "complete"
    BY <1>26 DEF RetryRemove, Goto
  <2>4. UNCHANGED <<dirty, demand>> /\ claimed' = claimed \ {g}
    BY <1>26 DEF RetryRemove
  <2> QED BY <2>1, <2>2, <2>3, <2>4 DEF SpareMarker, TypeOK
<1>27. ASSUME NEW g \in Gen, Age(g) PROVE SpareMarker'
  BY ZenonT(40), <1>27 DEF Age, SpareMarker, Removing
<1>28. ASSUME NEW g \in Gen, Recycle(g) PROVE SpareMarker'
  <2>1. \A k \in Gen : Removing(k)' => Removing(k)
    BY <1>28 DEF Recycle, Removing
  <2>2. \A k \in Gen : pc'[<<"worker", k>>] = "complete" => pc[<<"worker", k>>] = "complete"
    BY <1>28 DEF Recycle
  <2>3. /\ UNCHANGED <<dirty, watch>>
        /\ claimed' = claimed \ {g} /\ covering' = covering \ {g}
        /\ stranded' = (stranded \/ g \in claimed \cap covering)
    BY <1>28 DEF Recycle
  <2> QED BY <2>1, <2>2, <2>3 DEF SpareMarker, TypeOK
<1>29. ASSUME NEW g \in Gen, ReleaseCheck(<<"hook", g>>) PROVE SpareMarker'
  <2>1. \E l \in PC \ {"restoreRemove", "retryRemove", "complete"} : Goto(<<"hook", g>>, l)
    BY <1>29 DEF ReleaseCheck, AfterRelease, PC, HookPC, WorkerPC, ReleasePC
  <2>2. /\ \A k \in Gen : target'[k] = target[k] \/ <<"hook", g>> = <<"hook", k>>
        /\ UNCHANGED <<claimed, demand>>
        /\ dirty => dirty'
    BY <1>29 DEF ReleaseCheck, AfterRelease
  <2> QED BY <2>1, <2>2, QuietStep
<1>30. ASSUME NEW g \in Gen, ReleaseRename(<<"hook", g>>) PROVE SpareMarker'
  <2>1. \E l \in PC \ {"restoreRemove", "retryRemove", "complete"} : Goto(<<"hook", g>>, l)
    BY <1>30 DEF ReleaseRename, AfterRelease, PC, HookPC, WorkerPC, ReleasePC
  <2>2. /\ \A k \in Gen : target'[k] = target[k] \/ <<"hook", g>> = <<"hook", k>>
        /\ UNCHANGED <<claimed, demand>>
        /\ dirty => dirty'
    BY <1>30 DEF ReleaseRename, AfterRelease
  <2> QED BY <2>1, <2>2, QuietStep
<1>31. ASSUME NEW g \in Gen, ReleaseVerify(<<"hook", g>>) PROVE SpareMarker'
  <2>1. \E l \in PC \ {"restoreRemove", "retryRemove", "complete"} : Goto(<<"hook", g>>, l)
    BY <1>31 DEF ReleaseVerify, AfterRelease, RemoveGeneration, PC, HookPC, WorkerPC, ReleasePC
  <2>2. /\ \A k \in Gen : target'[k] = target[k] \/ <<"hook", g>> = <<"hook", k>>
        /\ UNCHANGED <<claimed, demand>>
        /\ dirty => dirty'
    BY <1>31 DEF ReleaseVerify, AfterRelease, RemoveGeneration
  <2> QED BY <2>1, <2>2, QuietStep
<1>32. ASSUME NEW g \in Gen, Crash(<<"hook", g>>) PROVE SpareMarker'
  <2>1. \E l \in PC \ {"restoreRemove", "retryRemove", "complete"} : Goto(<<"hook", g>>, l)
    BY <1>32 DEF Crash, Running, Goto, PC, HookPC, WorkerPC, ReleasePC
  <2>2. /\ \A k \in Gen : target'[k] = target[k] \/ <<"hook", g>> = <<"hook", k>>
        /\ UNCHANGED <<claimed, demand>>
        /\ dirty => dirty'
    BY <1>32 DEF Crash, Running
  <2> QED BY <2>1, <2>2, QuietStep
<1>33. ASSUME NEW g \in Gen, ReleaseCheck(<<"worker", g>>) PROVE SpareMarker'
  <2>1. \E l \in PC \ {"restoreRemove", "retryRemove", "complete"} : Goto(<<"worker", g>>, l)
    BY <1>33 DEF ReleaseCheck, AfterRelease, PC, HookPC, WorkerPC, ReleasePC
  <2>2. /\ \A k \in Gen : target'[k] = target[k] \/ <<"worker", g>> = <<"hook", k>>
        /\ UNCHANGED <<claimed, demand>>
        /\ dirty => dirty'
    BY <1>33 DEF ReleaseCheck, AfterRelease
  <2> QED BY <2>1, <2>2, QuietStep
<1>34. ASSUME NEW g \in Gen, ReleaseRename(<<"worker", g>>) PROVE SpareMarker'
  <2>1. \E l \in PC \ {"restoreRemove", "retryRemove", "complete"} : Goto(<<"worker", g>>, l)
    BY <1>34 DEF ReleaseRename, AfterRelease, PC, HookPC, WorkerPC, ReleasePC
  <2>2. /\ \A k \in Gen : target'[k] = target[k] \/ <<"worker", g>> = <<"hook", k>>
        /\ UNCHANGED <<claimed, demand>>
        /\ dirty => dirty'
    BY <1>34 DEF ReleaseRename, AfterRelease
  <2> QED BY <2>1, <2>2, QuietStep
<1>35. ASSUME NEW g \in Gen, ReleaseVerify(<<"worker", g>>) PROVE SpareMarker'
  <2>1. \E l \in PC \ {"restoreRemove", "retryRemove", "complete"} : Goto(<<"worker", g>>, l)
    BY <1>35 DEF ReleaseVerify, AfterRelease, RemoveGeneration, PC, HookPC, WorkerPC, ReleasePC
  <2>2. /\ \A k \in Gen : target'[k] = target[k] \/ <<"worker", g>> = <<"hook", k>>
        /\ UNCHANGED <<claimed, demand>>
        /\ dirty => dirty'
    BY <1>35 DEF ReleaseVerify, AfterRelease, RemoveGeneration
  <2> QED BY <2>1, <2>2, QuietStep
<1>36. ASSUME NEW g \in Gen, Crash(<<"worker", g>>) PROVE SpareMarker'
  <2>1. \E l \in PC \ {"restoreRemove", "retryRemove", "complete"} : Goto(<<"worker", g>>, l)
    BY <1>36 DEF Crash, Running, Goto, PC, HookPC, WorkerPC, ReleasePC
  <2>2. /\ \A k \in Gen : target'[k] = target[k] \/ <<"worker", g>> = <<"hook", k>>
        /\ UNCHANGED <<claimed, demand>>
        /\ dirty => dirty'
    BY <1>36 DEF Crash, Running
  <2> QED BY <2>1, <2>2, QuietStep
<1>37. ASSUME NEW p \in Proc, PidReused(p) PROVE SpareMarker'
  BY ZenonT(40), <1>37 DEF PidReused, SpareMarker, Removing
<1>38. ASSUME NEW p \in Proc, PidFreed(p) PROVE SpareMarker'
  BY <1>38 DEF PidFreed, SpareMarker, Removing
<1>39. CASE UNCHANGED vars
  BY <1>39 DEF vars, SpareMarker, Removing
<1>40. ASSUME NEW p \in Proc, Crash(p) PROVE SpareMarker'
  BY <1>40, <1>32, <1>36, ProcSplit
<1> HIDE DEF environment, demand, local, files
<1> QED
  BY <1>1, <1>2, <1>3, <1>4, <1>5, <1>6, <1>7, <1>8, <1>9, <1>10, <1>11,
     <1>12, <1>13, <1>14, <1>15, <1>16, <1>17, <1>18, <1>19, <1>20, <1>21,
     <1>22, <1>23, <1>24, <1>25, <1>26, <1>27, <1>28, <1>29, <1>30, <1>31,
     <1>32, <1>33, <1>34, <1>35, <1>36, <1>37, <1>38, <1>39, <1>40
  DEF Next, HookStep, WorkerStep, NextStop, Release

\* The invariant holds before the first Stop.
LEMMA DurabilityInit == Init => DurabilityInv
<1> SUFFICES ASSUME Init PROVE DurabilityInv
  OBVIOUS
<1> USE ProcMember DEF Init
<1>1. Lifecycle
  BY DEF Lifecycle, BeforeSpawn, HookPC
<1>2. RunnersRecorded
  BY DEF RunnersRecorded, Workerless, Finished
<1>3. TakeoverOfSpent
  BY DEF TakeoverOfSpent
<1>4. SpareMarker
  BY DEF SpareMarker
<1> QED BY <1>1, <1>2, <1>3, <1>4 DEF DurabilityInv

\* The invariant is inductive on one machine.
LEMMA DurabilityStep ==
  ASSUME SingleHost, TypeOK, DurabilityInv, [Next]_vars
  PROVE  DurabilityInv'
<1> USE DEF DurabilityInv
<1>1. Lifecycle'
  BY LifecycleStep
<1>2. RunnersRecorded'
  BY RunnersStep
<1>3. TakeoverOfSpent'
  BY TakeoverStep
<1>4. SpareMarker'
  BY SpareMarkerStep
<1> QED BY <1>1, <1>2, <1>3, <1>4

-----------------------------------------------------------------------------
(* The theorems.                                                           *)

\* Every reachable state of the lease protocol is well typed, for any number
\* of generations, hosts and mishaps.
THEOREM TypeCorrect == Spec => []TypeOK
<1>1. Init => TypeOK
  BY TypeInit
<1>2. TypeOK /\ [Next]_vars => TypeOK'
  BY TypeStep
<1> QED BY <1>1, <1>2, PTL DEF Spec

\* DurabilityInv is inductive when all processes share a machine: whoever runs
\* is recorded, only generations that cannot claim again are taken over, and
\* the marker about to be removed is never the last one.
THEOREM DurabilityInvariant ==
  ASSUME SingleHost
  PROVE  Spec => []DurabilityInv
<1>1. Init => DurabilityInv
  BY DurabilityInit
<1>2. TypeOK /\ DurabilityInv /\ [Next]_vars => DurabilityInv'
  BY DurabilityStep
<1> QED BY <1>1, <1>2, TypeCorrect, PTL DEF Spec

\* On one machine no interleaving of Stop hooks, workers, crashes and pid
\* reuse loses a demand that no finished rebuild has served.
THEOREM DemandIsDurable ==
  ASSUME SingleHost
  PROVE  Spec => []DemandDurable
<1>1. DurabilityInv => DemandDurable
  BY DEF DurabilityInv, SpareMarker, DemandDurable
<1> QED BY <1>1, DurabilityInvariant, PTL
-----------------------------------------------------------------------------
(* The lease.                                                              *)

\* At most one hook stands between moveActiveGeneration's comparison and its
\* rename, which takes whatever "active" names by then.
OneRenames ==
  \A g, h \in Gen :
    pc[<<"hook", g>>] = "takeoverRename" /\ pc[<<"hook", h>>] = "takeoverRename" => g = h

TakingOver == {"restoreMark", "restoreRemove", "takeoverCheck", "takeoverRename", "takeoverVerify"}
Unleased == {"link", "inspect", "relink"} \cup TakingOver
LeasedHook == {"spawn", "transfer", "releaseCheck", "releaseRename"}
LeasedWorker == (WorkerPC \ {"unborn", "join"}) \cup {"releaseCheck", "releaseRename"}
HoldingDemand == {"claimVerify", "refresh", "complete", "retryMark", "retryRemove"}

\* No process that is recorded for g runs, and none of g can claim again.
DeadOwner(g) == Spent(g) /\ \A r \in claims[g] : ~Running(<<r.role, g>>)

TargetsDead ==
  \A g \in Gen : pc[<<"hook", g>>] \in TakingOver => target[g] \in Gen /\ DeadOwner(target[g])

\* A hook that is past the link and a worker that has joined hold the lease.
LeaseKept ==
  \A g \in Gen :
    /\ pc[<<"hook", g>>] \in LeasedHook \/ pc[<<"worker", g>>] \in LeasedWorker
         => active = g /\ g \in anchor
    /\ pc[<<"hook", g>>] \in Unleased => g \in anchor
    /\ pc[<<"hook", g>>] \in ReleasePC => pc[<<"worker", g>>] = "unborn"

\* The rename takes the lease it was meant for, whose demand has been restored.
RenameSure ==
  \A g \in Gen :
    /\ pc[<<"hook", g>>] = "takeoverRename" => active = target[g]
    /\ pc[<<"hook", g>>] \in {"takeoverCheck", "takeoverRename"} => target[g] \notin claimed

\* A claimed marker is the lease holder's, from the rename that made it until the
\* rebuild is over or somebody takes it back.
ClaimedHeld ==
  /\ \A g \in claimed : active = g /\ pc[<<"worker", g>>] \in HoldingDemand \cup {"gone"}
  /\ \A g \in Gen : pc[<<"worker", g>>] \in HoldingDemand => g \in claimed
  /\ ~stranded

LeaseInv == TargetsDead /\ LeaseKept /\ RenameSure /\ ClaimedHeld
\* Nothing of a dead owner holds a lease, joins or is given one.
LEMMA DeadIsIdle ==
  ASSUME NEW k \in Gen, DeadOwner(k)
  PROVE  /\ pc[<<"hook", k>>] \in {"returned", "gone"}
         /\ pc[<<"worker", k>>] \in {"unborn", "gone", "join"}
         /\ pc[<<"worker", k>>] = "join" => "worker" \notin Holders(k)
BY HoldersRecorded DEF DeadOwner, Spent, Finished

\* On one machine an owner found inactive is dead: its records are the proof.
LEMMA InactiveIsDead ==
  ASSUME SingleHost, TypeOK, Lifecycle, RunnersRecorded,
         NEW k \in Gen, NEW g \in Gen, active = k, k \in anchor, ~OwnerStillActive(k, g)
  PROVE  DeadOwner(k)
<1>1. Spent(k)  BY InactiveIsSpent
<1>2. ASSUME NEW r \in claims[k] PROVE ~Running(<<r.role, k>>)
  <2>1. \E c \in Canonical(k) : c.role = r.role
    BY <1>2 DEF Canonical
  <2> QED BY <2>1 DEF OwnerStillActive, SingleHost, PidAlive, BirthMatches
<1> QED BY <1>1, <1>2 DEF DeadOwner

\* A dead owner that some hook is looking at stays dead.
LEMMA DeadStays ==
  ASSUME TypeOK, [Next]_vars, NEW k \in Gen, DeadOwner(k),
         NEW h \in Gen, pc[<<"hook", h>>] # "gone", target[h] = k
  PROVE  DeadOwner(k)'
<1> DEFINE Still == /\ \A r \in Roles : pc'[<<r, k>>] \in {pc[<<r, k>>], "gone"}
                    /\ claims'[k] \subseteq claims[k]
<1> USE ProcMember, PcDomain, ClaimsType DEF Still, Roles, Goto, environment, demand, local, files
<1>1. /\ pc[<<"hook", k>>] \in {"returned", "gone"}
      /\ pc[<<"worker", k>>] \in {"unborn", "gone", "join"}
      /\ pc[<<"worker", k>>] = "join" => "worker" \notin Holders(k)
  BY DeadIsIdle
<1>2. ASSUME NEW g \in Gen, StopEvent(g) \/ LinkActive(g) \/ InspectOwner(g) \/ RestoreMark(g) \/ RestoreRemove(g)
      PROVE  Still
  BY <1>1, <1>2 DEF StopEvent, LinkActive, InspectOwner, Coalesce, RemoveGeneration, RestoreMark, RestoreRemove
<1>3. ASSUME NEW g \in Gen, TakeoverCheck(g) \/ TakeoverRename(g) \/ TakeoverVerify(g) \/ Relink(g)
      PROVE  Still
  BY <1>1, <1>3 DEF TakeoverCheck, TakeoverRename, TakeoverVerify, Relink, Coalesce, RemoveGeneration
<1>4. ASSUME NEW g \in Gen, SpawnWorker(g) \/ SpawnRefused(g) \/ Transfer(g) \/ HookExit(g)
      PROVE  Still
  BY <1>1, <1>4 DEF SpawnWorker, SpawnRefused, Transfer, HookExit
<1>5. ASSUME NEW g \in Gen, Join(g) \/ JoinRefused(g) \/ RetireClaims(g) \/ Joined(g) \/ RefuseBun(g)
      PROVE  Still
  BY <1>1, <1>5 DEF Join, JoinRefused, RetireClaims, Joined, RefuseBun
<1>6. ASSUME NEW g \in Gen, ClaimCheck(g) \/ ClaimRename(g) \/ ClaimVerify(g) \/ RefreshOk(g)
      PROVE  Still
  BY <1>1, <1>6 DEF ClaimCheck, ClaimRename, ClaimVerify, RefreshOk
<1>7. ASSUME NEW g \in Gen, RefreshFailed(g) \/ CompleteDemand(g) \/ RetryMark(g) \/ RetryRemove(g)
      PROVE  Still
  BY <1>1, <1>7 DEF RefreshFailed, CompleteDemand, RetryMark, RetryRemove
<1>8. ASSUME NEW g \in Gen, Recycle(g) PROVE Still
  <2>1. g # k  BY <1>8 DEF Recycle
  <2> QED  BY <1>8, <2>1 DEF Recycle, RemoveGeneration
<1>9. ASSUME NEW g \in Gen, NEW r \in Roles, Release(<<r, g>>) PROVE Still
  BY <1>1, <1>9 DEF Release, ReleaseCheck, ReleaseRename, ReleaseVerify, RemoveGeneration, AfterRelease
<1>10. ASSUME NEW p \in Proc, Crash(p) \/ PidReused(p) \/ PidFreed(p) PROVE Still
  BY <1>10 DEF Crash, PidReused, PidFreed
<1>11. ASSUME NEW g \in Gen, Age(g) PROVE Still
  BY <1>11 DEF Age
<1>12. ASSUME UNCHANGED vars PROVE Still
  BY <1>12 DEF vars
<1> HIDE DEF Still, Goto, environment, demand, local, files
<1>13. Still
  BY <1>2, <1>3, <1>4, <1>5, <1>6, <1>7, <1>8, <1>9, <1>10, <1>11, <1>12
  DEF Next, HookStep, WorkerStep, NextStop
<1>14. \A r \in claims[k] : r.role \in Roles
  BY DEF Record
<1> QED  BY <1>1, <1>13, <1>14 DEF Still, DeadOwner, Spent, Finished, Workerless, Running
\* A hook takes over the owner it found dead, and no other until it is through.
LEMMA TargetKept ==
  ASSUME TypeOK, [Next]_vars, NEW h \in Gen, pc'[<<"hook", h>>] \in TakingOver
  PROVE  \/ pc[<<"hook", h>>] \in TakingOver /\ target'[h] = target[h]
         \/ /\ InspectOwner(h) /\ target'[h] = active
            /\ active \in anchor /\ ~OwnerStillActive(active, h)
<1> DEFINE Kept == pc[<<"hook", h>>] \in TakingOver /\ target'[h] = target[h]
           Found == /\ InspectOwner(h) /\ target'[h] = active
                    /\ active \in anchor /\ ~OwnerStillActive(active, h)
<1> USE ProcMember, PcDomain, TargetType DEF TakingOver, Goto, environment, demand, local, files
<1>1. ASSUME NEW g \in Gen, StopEvent(g) \/ LinkActive(g) \/ RestoreMark(g) \/ RestoreRemove(g)
      PROVE  Kept
  BY <1>1 DEF StopEvent, LinkActive, RestoreMark, RestoreRemove
<1>2. ASSUME NEW g \in Gen, InspectOwner(g) PROVE Kept \/ Found
  <2>1. CASE g # h
    <3>1. pc'[<<"hook", h>>] = pc[<<"hook", h>>] /\ target'[h] = target[h]
      BY <1>2, <2>1 DEF InspectOwner, Coalesce
    <3> QED  BY <3>1
  <2>2. CASE g = h
    <3>1. /\ target' = [target EXCEPT ![h] = ActiveOwner]
          /\ ActiveOwner # None /\ ~OwnerStillActive(ActiveOwner, h)
      BY <1>2, <2>2 DEF InspectOwner, Coalesce
    <3>2. active \in anchor /\ ActiveOwner = active  BY <3>1 DEF ActiveOwner
    <3> QED  BY <1>2, <2>2, <3>1, <3>2
  <2> QED  BY <2>1, <2>2
<1>3. ASSUME NEW g \in Gen, TakeoverCheck(g) \/ TakeoverRename(g) \/ TakeoverVerify(g) \/ Relink(g)
      PROVE  Kept
  BY <1>3 DEF TakeoverCheck, TakeoverRename, TakeoverVerify, Relink, Coalesce
<1>4. ASSUME NEW g \in Gen, SpawnWorker(g) \/ SpawnRefused(g) \/ Transfer(g) \/ HookExit(g) \/ Age(g)
      PROVE  Kept
  BY <1>4 DEF SpawnWorker, SpawnRefused, Transfer, HookExit, Age
<1>5. ASSUME NEW g \in Gen, Join(g) \/ JoinRefused(g) \/ RetireClaims(g) \/ Joined(g) \/ RefuseBun(g)
      PROVE  Kept
  BY <1>5 DEF Join, JoinRefused, RetireClaims, Joined, RefuseBun
<1>6. ASSUME NEW g \in Gen, ClaimCheck(g) \/ ClaimRename(g) \/ ClaimVerify(g) \/ RefreshOk(g)
      PROVE  Kept
  BY <1>6 DEF ClaimCheck, ClaimRename, ClaimVerify, RefreshOk
<1>7. ASSUME NEW g \in Gen, RefreshFailed(g) \/ CompleteDemand(g) \/ RetryMark(g) \/ RetryRemove(g)
      PROVE  Kept
  BY <1>7 DEF RefreshFailed, CompleteDemand, RetryMark, RetryRemove
<1>8. ASSUME NEW g \in Gen, Recycle(g) PROVE Kept
  BY <1>8 DEF Recycle
<1>9. ASSUME NEW g \in Gen, Release(<<"hook", g>>) \/ Release(<<"worker", g>>) PROVE Kept
  BY <1>9 DEF Release, ReleaseCheck, ReleaseRename, ReleaseVerify, AfterRelease
<1>10. ASSUME NEW p \in Proc, Crash(p) \/ PidReused(p) \/ PidFreed(p) PROVE Kept
  BY <1>10 DEF Crash, PidReused, PidFreed
<1>11. ASSUME UNCHANGED vars PROVE Kept
  BY <1>11 DEF vars
<1> HIDE DEF Kept, Found, Goto, environment, demand, local, files
<1>12. Kept \/ Found
  BY <1>1, <1>2, <1>3, <1>4, <1>5, <1>6, <1>7, <1>8, <1>9, <1>10, <1>11
  DEF Next, HookStep, WorkerStep, NextStop
<1> QED  BY <1>12 DEF Kept, Found

\* The owner a hook is taking over is dead and stays so.
LEMMA TargetsDeadStep ==
  ASSUME SingleHost, TypeOK, Lifecycle, RunnersRecorded, TargetsDead, [Next]_vars
  PROVE  TargetsDead'
<1> SUFFICES ASSUME NEW h \in Gen, pc'[<<"hook", h>>] \in TakingOver
             PROVE  target'[h] \in Gen /\ DeadOwner(target[h])'
  BY DEF TargetsDead
<1>1. CASE pc[<<"hook", h>>] \in TakingOver /\ target'[h] = target[h]
  <2>1. target[h] \in Gen /\ DeadOwner(target[h])  BY <1>1 DEF TargetsDead
  <2>2. pc[<<"hook", h>>] # "gone"  BY <1>1 DEF TakingOver
  <2>3. DeadOwner(target[h])'
    <3>1. \A k \in Gen : DeadOwner(k) /\ target[h] = k => DeadOwner(k)'  BY <2>2, DeadStays
    <3> QED  BY <1>1, <2>1, <3>1
  <2> QED  BY <1>1, <2>1, <2>3
<1>2. CASE /\ InspectOwner(h) /\ target'[h] = active
           /\ active \in anchor /\ ~OwnerStillActive(active, h)
  <2>1. active \in Gen  BY <1>2, TargetType
  <2>2. DeadOwner(active)  BY <1>2, <2>1, InactiveIsDead
  <2>3. DeadOwner(active)' /\ active' = active
    <3>1. pc[<<"hook", h>>] = "inspect" /\ UNCHANGED active  BY <1>2 DEF InspectOwner
    <3>2. active # h  BY <2>1, <2>2, <3>1, DeadIsIdle
    <3>3. /\ pc'[<<"hook", active>>] = pc[<<"hook", active>>]
          /\ pc'[<<"worker", active>>] = pc[<<"worker", active>>]
          /\ claims'[active] = claims[active]
      BY <1>2, <2>1, <3>2, ProcMember, PcDomain, ClaimsType
      DEF InspectOwner, Coalesce, RemoveGeneration, Goto
    <3>4. \A r \in claims[active] : r.role \in Roles  BY <2>1, ClaimsType DEF Record
    <3> QED  BY <2>2, <3>1, <3>3, <3>4 DEF DeadOwner, Spent, Workerless, Running, Roles
  <2> QED  BY <1>2, <2>1, <2>3
<1> QED  BY <1>1, <1>2, TargetKept
\* Nobody loses the lease while a process of it is at work: only its own processes
\* release it, and a takeover takes it from the dead owner it was meant for.
LEMMA LeaseKeptStep ==
  ASSUME TypeOK, Lifecycle, RunnersRecorded, TargetsDead, LeaseKept, RenameSure, [Next]_vars
  PROVE  LeaseKept'
<1> USE ProcMember, PcDomain, TargetType
    DEF LeaseKept, LeasedHook, LeasedWorker, Unleased, TakingOver, WorkerPC, ReleasePC, Goto,
        environment, demand, local, files
<1>0. \A g \in Gen : /\ pc[<<"hook", g>>] \in BeforeSpawn => pc[<<"worker", g>>] = "unborn"
                     /\ pc[<<"worker", g>>] \notin {"unborn", "join", "gone"}
                          => pc[<<"hook", g>>] \in Finished
  BY DEF Lifecycle, RunnersRecorded
<1>1. ASSUME NEW g \in Gen, StopEvent(g) PROVE LeaseKept'
  BY <1>0, <1>1 DEF StopEvent, BeforeSpawn, HookPC
<1>2. ASSUME NEW g \in Gen, LinkActive(g) PROVE LeaseKept'
  BY ZenonT(40), <1>2 DEF LinkActive
<1>3. ASSUME NEW g \in Gen, InspectOwner(g) PROVE LeaseKept'
  BY ZenonT(40), <1>0, <1>3 DEF InspectOwner, Coalesce, RemoveGeneration, BeforeSpawn, HookPC
<1>4. ASSUME NEW g \in Gen, RestoreMark(g) \/ RestoreRemove(g) \/ HookExit(g) \/ SpawnWorker(g) PROVE LeaseKept'
  <2>1. CASE RestoreMark(g)  BY ZenonT(40), <2>1 DEF RestoreMark
  <2>2. CASE RestoreRemove(g)  BY ZenonT(40), <2>2 DEF RestoreRemove
  <2>3. CASE HookExit(g)  BY ZenonT(40), <2>3 DEF HookExit
  <2>4. CASE SpawnWorker(g)  BY <2>4 DEF SpawnWorker
  <2> QED  BY <1>4, <2>1, <2>2, <2>3, <2>4
<1>5. ASSUME NEW g \in Gen, TakeoverCheck(g) PROVE LeaseKept'
  BY ZenonT(40), <1>0, <1>5 DEF TakeoverCheck, Coalesce, RemoveGeneration, BeforeSpawn, HookPC
<1>6. ASSUME NEW g \in Gen, TakeoverRename(g) PROVE LeaseKept'
  <2>1. active = target[g] /\ target[g] \in Gen /\ DeadOwner(target[g])
    BY <1>6 DEF TakeoverRename, RenameSure, TargetsDead
  <2>2. /\ pc[<<"hook", active>>] \notin LeasedHook \cup Unleased
        /\ pc[<<"worker", active>>] \notin LeasedWorker
    BY <2>1, DeadIsIdle
  <2>3. active # None /\ Goto(<<"hook", g>>, "takeoverVerify") /\ UNCHANGED anchor
    BY <1>6, <2>1 DEF TakeoverRename
  <2> QED  BY <1>6, <2>1, <2>2, <2>3 DEF TakeoverRename
<1>7. ASSUME NEW g \in Gen, TakeoverVerify(g) PROVE LeaseKept'
  <2>1. target[g] \in Gen /\ DeadOwner(target[g])
    BY <1>7 DEF TakeoverVerify, TargetsDead
  <2>2. /\ pc[<<"hook", target[g]>>] \notin LeasedHook \cup Unleased
        /\ pc[<<"worker", target[g]>>] \notin LeasedWorker
    BY <2>1, DeadIsIdle
  <2>3. CASE Goto(<<"hook", g>>, "relink") /\ anchor' = anchor \ {target[g]}
    BY <1>7, <2>1, <2>2, <2>3 DEF TakeoverVerify
  <2>4. CASE Goto(<<"hook", g>>, "returned") /\ anchor' = anchor \ {g}
    BY <1>0, <1>7, <2>4 DEF TakeoverVerify, BeforeSpawn, HookPC
  <2> QED  BY <1>7, <2>3, <2>4 DEF TakeoverVerify, Coalesce, RemoveGeneration
<1>8. ASSUME NEW g \in Gen, Relink(g) PROVE LeaseKept'
  BY ZenonT(40), <1>0, <1>8 DEF Relink, Coalesce, RemoveGeneration, BeforeSpawn, HookPC
<1>9. ASSUME NEW g \in Gen, SpawnRefused(g) PROVE LeaseKept'
  BY <1>0, <1>9 DEF SpawnRefused, BeforeSpawn, HookPC
<1>10. ASSUME NEW g \in Gen, Transfer(g) PROVE LeaseKept'
  <2>1. active = g /\ g \in anchor /\ pc[<<"hook", g>>] = "transfer"
    BY <1>10 DEF Transfer
  <2>2. HookClaim \in claims[g] /\ \A r \in claims[g] : r.role # "hook" \/ r.kind = "claim"
    BY <2>1 DEF RunnersRecorded, Finished
  <2>3. Owns(g) /\ "hook" \in Holders(g)
    BY <2>1, <2>2, RecordRoles DEF Owns, ActiveOwner, Holders, Canonical
  <2> QED  BY <1>10, <2>3 DEF Transfer
<1>11. ASSUME NEW g \in Gen, Join(g) \/ JoinRefused(g) \/ RetireClaims(g) \/ Joined(g) \/ RefuseBun(g)
       PROVE  LeaseKept'
  <2>1. Owns(g) => active = g /\ g \in anchor  BY DEF Owns, ActiveOwner
  <2>2. CASE Join(g)  BY <2>1, <2>2 DEF Join
  <2>3. CASE JoinRefused(g)  BY <2>3 DEF JoinRefused
  <2>4. CASE RetireClaims(g)  BY <2>4 DEF RetireClaims
  <2>5. CASE Joined(g)  BY <2>1, <2>5 DEF Joined
  <2>6. CASE RefuseBun(g)  BY <2>1, <2>6 DEF RefuseBun
  <2> QED  BY <1>11, <2>2, <2>3, <2>4, <2>5, <2>6
<1>12. ASSUME NEW g \in Gen, ClaimCheck(g) \/ ClaimRename(g) \/ ClaimVerify(g) \/ RefreshOk(g)
       PROVE  LeaseKept'
  BY ZenonT(40), <1>12 DEF ClaimCheck, ClaimRename, ClaimVerify, RefreshOk
<1>13. ASSUME NEW g \in Gen, RefreshFailed(g) \/ CompleteDemand(g) \/ RetryMark(g) \/ RetryRemove(g)
       PROVE  LeaseKept'
  BY ZenonT(40), <1>13 DEF RefreshFailed, CompleteDemand, RetryMark, RetryRemove
<1>14. ASSUME NEW g \in Gen, Recycle(g) PROVE LeaseKept'
  BY ZenonT(40), <1>14 DEF Recycle, RemoveGeneration
<1>15. ASSUME NEW g \in Gen, NEW r \in Roles, ReleaseCheck(<<r, g>>) PROVE LeaseKept'
  BY ZenonT(40), <1>0, <1>15 DEF ReleaseCheck, AfterRelease, Roles, Finished
<1>16. ASSUME NEW g \in Gen, NEW r \in Roles, ReleaseRename(<<r, g>>) PROVE LeaseKept'
  <2>1. CASE r = "hook"  BY ZenonT(40), <1>0, <1>16, <2>1 DEF ReleaseRename, AfterRelease, Finished
  <2>2. CASE r = "worker"  BY ZenonT(40), <1>0, <1>16, <2>2 DEF ReleaseRename, AfterRelease, Finished
  <2> QED  BY <2>1, <2>2 DEF Roles
<1>17. ASSUME NEW g \in Gen, NEW r \in Roles, ReleaseVerify(<<r, g>>) PROVE LeaseKept'
  <2>1. CASE r = "hook"
    BY ZenonT(40), <1>0, <1>17, <2>1 DEF ReleaseVerify, AfterRelease, RemoveGeneration, Finished
  <2>2. CASE r = "worker"
    BY ZenonT(40), <1>0, <1>17, <2>2 DEF ReleaseVerify, AfterRelease, RemoveGeneration, Finished
  <2> QED  BY <2>1, <2>2 DEF Roles
<1>18. ASSUME NEW p \in Proc, Crash(p) \/ PidReused(p) \/ PidFreed(p) PROVE LeaseKept'
  <2>1. CASE PidReused(p) \/ PidFreed(p)  BY <2>1 DEF PidReused, PidFreed
  <2>2. ASSUME Crash(p) PROVE LeaseKept'
    <3>1. /\ \A k \in Gen : /\ pc'[<<"hook", k>>] \in {pc[<<"hook", k>>], "gone"}
                            /\ pc'[<<"worker", k>>] \in {pc[<<"worker", k>>], "gone"}
                            /\ pc[<<"worker", k>>] = "unborn" => pc'[<<"worker", k>>] = "unborn"
          /\ UNCHANGED <<active, anchor>>
      BY <2>2 DEF Crash, Running
    <3> QED  BY ZenonT(40), <3>1
  <2> QED  BY <1>18, <2>1, <2>2
<1>19. ASSUME NEW g \in Gen, Age(g) PROVE LeaseKept'
  BY <1>19 DEF Age
<1>20. CASE UNCHANGED vars
  BY <1>20 DEF vars
<1> HIDE DEF LeaseKept, LeasedHook, LeasedWorker, Unleased, TakingOver, WorkerPC, ReleasePC, Goto,
             environment, demand, local, files
<1> QED
  BY <1>1, <1>2, <1>3, <1>4, <1>5, <1>6, <1>7, <1>8, <1>9, <1>10, <1>11, <1>12, <1>13, <1>14, <1>15,
     <1>16, <1>17, <1>18, <1>19, <1>20
  DEF Next, HookStep, WorkerStep, NextStop, Release, Roles

\* Who moves the lease: a linker when it is free, a takeover, or a release.
LEMMA LeaseMoves ==
  ASSUME [Next]_vars, active' # active
  PROVE  \/ active = None
         \/ \E g \in Gen : TakeoverRename(g)
         \/ \E g \in Gen, r \in Roles : ReleaseRename(<<r, g>>)
<1> DEFINE Moves == \/ active = None
                    \/ \E g \in Gen : TakeoverRename(g)
                    \/ \E g \in Gen, r \in Roles : ReleaseRename(<<r, g>>)
<1> USE DEF environment, demand, local, files
<1>1. ASSUME NEW g \in Gen, HookStep(g) PROVE Moves
  <2>1. CASE LinkActive(g)  BY <2>1 DEF LinkActive
  <2>2. CASE InspectOwner(g) \/ RestoreMark(g) \/ RestoreRemove(g)
    BY <2>2 DEF InspectOwner, RestoreMark, RestoreRemove
  <2>3. CASE TakeoverCheck(g) \/ TakeoverRename(g) \/ TakeoverVerify(g) \/ Relink(g)
    BY <2>3 DEF TakeoverCheck, TakeoverVerify, Relink
  <2>4. CASE SpawnWorker(g) \/ SpawnRefused(g) \/ Transfer(g) \/ HookExit(g)
    BY <2>4 DEF SpawnWorker, SpawnRefused, Transfer, HookExit
  <2>5. CASE Release(<<"hook", g>>)
    BY <2>5 DEF Release, ReleaseCheck, ReleaseVerify, Roles
  <2> QED  BY <1>1, <2>1, <2>2, <2>3, <2>4, <2>5 DEF HookStep
<1>2. ASSUME NEW g \in Gen, WorkerStep(g) PROVE Moves
  <2>1. CASE Join(g) \/ JoinRefused(g) \/ RetireClaims(g) \/ Joined(g) \/ RefuseBun(g)
    BY <2>1 DEF Join, JoinRefused, RetireClaims, Joined, RefuseBun
  <2>2. CASE ClaimCheck(g) \/ ClaimRename(g) \/ ClaimVerify(g) \/ RefreshOk(g)
    BY <2>2 DEF ClaimCheck, ClaimRename, ClaimVerify, RefreshOk
  <2>3. CASE RefreshFailed(g) \/ CompleteDemand(g) \/ RetryMark(g) \/ RetryRemove(g)
    BY <2>3 DEF RefreshFailed, CompleteDemand, RetryMark, RetryRemove
  <2>4. CASE Release(<<"worker", g>>)
    BY <2>4 DEF Release, ReleaseCheck, ReleaseVerify, Roles
  <2> QED  BY <1>2, <2>1, <2>2, <2>3, <2>4 DEF WorkerStep
<1>3. ASSUME NEW g \in Gen, NextStop(g) \/ Age(g) PROVE Moves
  BY <1>3 DEF NextStop, StopEvent, Recycle, Age
<1>4. ASSUME NEW p \in Proc, Crash(p) \/ PidReused(p) \/ PidFreed(p) PROVE Moves
  BY <1>4 DEF Crash, PidReused, PidFreed
<1>5. ASSUME UNCHANGED vars PROVE Moves  BY <1>5 DEF vars
<1> HIDE DEF Moves, environment, demand, local, files
<1>6. Moves  BY <1>1, <1>2, <1>3, <1>4, <1>5 DEF Next
<1> QED  BY <1>6 DEF Moves

\* Who touches the claimed markers and the worker that may be using one.
LEMMA ClaimedMoves ==
  ASSUME TypeOK, Lifecycle, [Next]_vars
  PROVE  \/ /\ UNCHANGED <<claimed, stranded>>
            /\ \A k \in Gen : \/ pc'[<<"worker", k>>] = pc[<<"worker", k>>]
                              \/ pc'[<<"worker", k>>] = "gone"
                              \/ /\ pc[<<"worker", k>>] \notin HoldingDemand \cup {"gone"}
                                 /\ pc'[<<"worker", k>>] \notin HoldingDemand
         \/ \E g \in Gen : \/ ClaimRename(g) \/ ClaimVerify(g) \/ RefreshOk(g) \/ RefreshFailed(g)
                           \/ CompleteDemand(g) \/ RetryMark(g) \/ RetryRemove(g)
                           \/ RestoreRemove(g) \/ Recycle(g)
<1> DEFINE Quiet ==
             /\ UNCHANGED <<claimed, stranded>>
             /\ \A k \in Gen : \/ pc'[<<"worker", k>>] = pc[<<"worker", k>>]
                               \/ pc'[<<"worker", k>>] = "gone"
                               \/ /\ pc[<<"worker", k>>] \notin HoldingDemand \cup {"gone"}
                                  /\ pc'[<<"worker", k>>] \notin HoldingDemand
<1> USE ProcMember, PcDomain DEF HoldingDemand, Goto, environment, demand, local, files
<1>1. ASSUME NEW g \in Gen, StopEvent(g) \/ LinkActive(g) \/ InspectOwner(g) \/ RestoreMark(g) PROVE Quiet
  BY <1>1 DEF StopEvent, LinkActive, InspectOwner, RestoreMark, Coalesce
<1>2. ASSUME NEW g \in Gen, TakeoverCheck(g) \/ TakeoverRename(g) \/ TakeoverVerify(g) \/ Relink(g) PROVE Quiet
  BY <1>2 DEF TakeoverCheck, TakeoverRename, TakeoverVerify, Relink, Coalesce
<1>3. ASSUME NEW g \in Gen, SpawnWorker(g) PROVE Quiet
  BY <1>3 DEF SpawnWorker, Lifecycle, BeforeSpawn, HookPC
<1>4. ASSUME NEW g \in Gen, SpawnRefused(g) \/ Transfer(g) \/ HookExit(g) \/ Age(g) PROVE Quiet
  BY <1>4 DEF SpawnRefused, Transfer, HookExit, Age
<1>5. ASSUME NEW g \in Gen, Join(g) \/ JoinRefused(g) \/ RetireClaims(g) \/ Joined(g) \/ RefuseBun(g) PROVE Quiet
  BY <1>5 DEF Join, JoinRefused, RetireClaims, Joined, RefuseBun
<1>6. ASSUME NEW g \in Gen, ClaimCheck(g) PROVE Quiet
  BY <1>6 DEF ClaimCheck
<1>7. ASSUME NEW g \in Gen, NEW r \in Roles, Release(<<r, g>>) PROVE Quiet
  BY <1>7 DEF Release, ReleaseCheck, ReleaseRename, ReleaseVerify, AfterRelease, Roles
<1>8. ASSUME NEW p \in Proc, Crash(p) \/ PidReused(p) \/ PidFreed(p) PROVE Quiet
  BY <1>8 DEF Crash, PidReused, PidFreed
<1>9. ASSUME UNCHANGED vars PROVE Quiet  BY <1>9 DEF vars
<1> HIDE DEF Quiet, HoldingDemand, Goto, environment, demand, local, files
<1>10. \/ Quiet
       \/ \E g \in Gen : \/ ClaimRename(g) \/ ClaimVerify(g) \/ RefreshOk(g) \/ RefreshFailed(g)
                         \/ CompleteDemand(g) \/ RetryMark(g) \/ RetryRemove(g)
                         \/ RestoreRemove(g) \/ Recycle(g)
  BY <1>1, <1>2, <1>3, <1>4, <1>5, <1>6, <1>7, <1>8, <1>9
  DEF Quiet, Next, HookStep, WorkerStep, NextStop, Roles
<1> QED  BY <1>10 DEF Quiet

\* Only the rename of "dirty" makes a claimed marker.
LEMMA ClaimedGrows ==
  ASSUME TypeOK, Lifecycle, [Next]_vars, NEW k \in Gen, k \in claimed', k \notin claimed
  PROVE  ClaimRename(k)
<1> USE DEF files
<1>1. ASSUME NEW g \in Gen, ClaimVerify(g) \/ RefreshOk(g) \/ RefreshFailed(g) \/ CompleteDemand(g)
                            \/ RetryMark(g) \/ RetryRemove(g) \/ RestoreRemove(g) \/ Recycle(g)
      PROVE  FALSE
  BY <1>1 DEF ClaimVerify, RefreshOk, RefreshFailed, CompleteDemand, RetryMark, RetryRemove,
              RestoreRemove, Recycle
<1>2. ASSUME NEW g \in Gen, ClaimRename(g) PROVE g = k
  BY <1>2 DEF ClaimRename
<1> QED  BY <1>1, <1>2, ClaimedMoves

\* How a hook comes to the comparison and to the rename.
LEMMA RenameReached ==
  ASSUME TypeOK, [Next]_vars, NEW h \in Gen,
         pc'[<<"hook", h>>] \in {"takeoverCheck", "takeoverRename"}
  PROVE  \/ pc[<<"hook", h>>] = pc'[<<"hook", h>>]
         \/ /\ RestoreMark(h) \/ RestoreRemove(h)
            /\ pc'[<<"hook", h>>] = "takeoverCheck"
         \/ TakeoverCheck(h) /\ StillLinked(target[h])
<1> DEFINE Reached == \/ pc[<<"hook", h>>] = pc'[<<"hook", h>>]
                      \/ /\ RestoreMark(h) \/ RestoreRemove(h)
                         /\ pc'[<<"hook", h>>] = "takeoverCheck"
                      \/ TakeoverCheck(h) /\ StillLinked(target[h])
<1> USE ProcMember, PcDomain DEF Goto, environment, demand, local, files
<1>1. ASSUME NEW g \in Gen, StopEvent(g) \/ LinkActive(g) \/ InspectOwner(g) PROVE Reached
  BY <1>1 DEF StopEvent, LinkActive, InspectOwner, Coalesce
<1>2. ASSUME NEW g \in Gen, RestoreMark(g) \/ RestoreRemove(g) PROVE Reached
  <2>1. CASE g = h  BY <1>2, <2>1 DEF RestoreMark, RestoreRemove
  <2>2. CASE g # h  BY <1>2, <2>2 DEF RestoreMark, RestoreRemove
  <2> QED  BY <2>1, <2>2
<1>3. ASSUME NEW g \in Gen, TakeoverCheck(g) PROVE Reached
  <2>1. CASE g = h  BY <1>3, <2>1 DEF TakeoverCheck, Coalesce
  <2>2. CASE g # h  BY <1>3, <2>2 DEF TakeoverCheck, Coalesce
  <2> QED  BY <2>1, <2>2
<1>4. ASSUME NEW g \in Gen, TakeoverRename(g) \/ TakeoverVerify(g) \/ Relink(g) PROVE Reached
  BY <1>4 DEF TakeoverRename, TakeoverVerify, Relink, Coalesce
<1>5. ASSUME NEW g \in Gen, SpawnWorker(g) \/ SpawnRefused(g) \/ Transfer(g) \/ HookExit(g) \/ Age(g)
      PROVE  Reached
  BY <1>5 DEF SpawnWorker, SpawnRefused, Transfer, HookExit, Age
<1>6. ASSUME NEW g \in Gen, Join(g) \/ JoinRefused(g) \/ RetireClaims(g) \/ Joined(g) \/ RefuseBun(g)
      PROVE  Reached
  BY <1>6 DEF Join, JoinRefused, RetireClaims, Joined, RefuseBun
<1>7. ASSUME NEW g \in Gen, ClaimCheck(g) \/ ClaimRename(g) \/ ClaimVerify(g) \/ RefreshOk(g) PROVE Reached
  BY <1>7 DEF ClaimCheck, ClaimRename, ClaimVerify, RefreshOk
<1>8. ASSUME NEW g \in Gen, RefreshFailed(g) \/ CompleteDemand(g) \/ RetryMark(g) \/ RetryRemove(g)
      PROVE  Reached
  BY <1>8 DEF RefreshFailed, CompleteDemand, RetryMark, RetryRemove
<1>9. ASSUME NEW g \in Gen, Recycle(g) PROVE Reached
  BY <1>9 DEF Recycle
<1>10. ASSUME NEW g \in Gen, NEW r \in Roles, Release(<<r, g>>) PROVE Reached
  BY <1>10 DEF Release, ReleaseCheck, ReleaseRename, ReleaseVerify, AfterRelease, Roles
<1>11. ASSUME NEW p \in Proc, Crash(p) \/ PidReused(p) \/ PidFreed(p) PROVE Reached
  BY <1>11 DEF Crash, PidReused, PidFreed
<1>12. ASSUME UNCHANGED vars PROVE Reached  BY <1>12 DEF vars
<1> HIDE DEF Reached, Goto, environment, demand, local, files
<1>13. Reached
  BY <1>1, <1>2, <1>3, <1>4, <1>5, <1>6, <1>7, <1>8, <1>9, <1>10, <1>11, <1>12
  DEF Next, HookStep, WorkerStep, NextStop, Roles
<1> QED  BY <1>13 DEF Reached

\* With one hook at its rename, the rename finds the dead owner it compared with,
\* and that owner's demand back in "dirty".
LEMMA RenameSureStep ==
  ASSUME TypeOK, Lifecycle, TargetsDead, LeaseKept, RenameSure, OneRenames, [Next]_vars
  PROVE  RenameSure'
<1> SUFFICES ASSUME NEW h \in Gen, pc'[<<"hook", h>>] \in {"takeoverCheck", "takeoverRename"}
             PROVE  /\ pc'[<<"hook", h>>] = "takeoverRename" => active' = target'[h]
                    /\ target'[h] \notin claimed'
  BY DEF RenameSure
<1> USE ProcMember, PcDomain DEF Goto
<1>1. pc[<<"hook", h>>] \in TakingOver /\ target'[h] = target[h]
  BY TargetKept DEF TakingOver, InspectOwner, Coalesce
<1>2. target[h] \in Gen /\ DeadOwner(target[h])  BY <1>1 DEF TargetsDead
<1>3. /\ pc[<<"hook", target[h]>>] \in {"returned", "gone"}
      /\ pc[<<"worker", target[h]>>] \in {"unborn", "gone", "join"}
  BY <1>2, DeadIsIdle
<1>4. pc'[<<"hook", h>>] = "takeoverRename" => active' = target'[h]
  <2> SUFFICES ASSUME pc'[<<"hook", h>>] = "takeoverRename" PROVE active' = target[h]
    BY <1>1
  <2>1. active = target[h]  BY RenameReached DEF RenameSure, StillLinked
  <2>2. ASSUME NEW g \in Gen, TakeoverRename(g) PROVE FALSE
    <3>1. pc'[<<"hook", g>>] # "takeoverRename" /\ pc[<<"hook", g>>] = "takeoverRename"
      BY <2>2 DEF TakeoverRename, Coalesce
    <3>2. g # h /\ pc'[<<"hook", h>>] = pc[<<"hook", h>>]
      BY <2>2, <3>1 DEF TakeoverRename, Coalesce
    <3> QED  BY <3>1, <3>2 DEF OneRenames
  <2>3. ASSUME NEW g \in Gen, NEW r \in Roles, ReleaseRename(<<r, g>>) PROVE FALSE
    <3>1. pc[<<r, g>>] = "releaseRename"  BY <2>3 DEF ReleaseRename
    <3>2. active = g  BY <3>1 DEF LeaseKept, LeasedHook, LeasedWorker, Roles
    <3> QED  BY <1>3, <2>1, <3>1, <3>2 DEF Roles
  <2> QED  BY <1>2, <2>1, <2>2, <2>3, LeaseMoves
<1>5. target[h] \notin claimed'
  <2>1. CASE target[h] \in claimed
    <3>1. RestoreRemove(h)  BY <2>1, RenameReached DEF RenameSure, RestoreMark, TakeoverCheck
    <3> QED  BY <3>1 DEF RestoreRemove
  <2>2. ASSUME target[h] \notin claimed, target[h] \in claimed' PROVE FALSE
    <3>1. ClaimRename(target[h])  BY <1>2, <2>2, ClaimedGrows
    <3> QED  BY <1>3, <3>1 DEF ClaimRename
  <2> QED  BY <2>1, <2>2
<1> QED  BY <1>1, <1>4, <1>5

\* A claimed marker stays with the lease and with the worker that made it.
LEMMA ClaimedHeldStep ==
  ASSUME TypeOK, Lifecycle, TargetsDead, LeaseKept, RenameSure, ClaimedHeld, [Next]_vars
  PROVE  ClaimedHeld'
<1> USE ProcMember, PcDomain DEF HoldingDemand, Goto
\* The lease of a generation with a claimed marker does not move.
<1>1. ASSUME NEW k \in Gen, k \in claimed PROVE active = k /\ active' = k
  <2>1. active = k /\ pc[<<"worker", k>>] \in HoldingDemand \cup {"gone"}
    BY <1>1 DEF ClaimedHeld
  <2>2. ASSUME NEW g \in Gen, TakeoverRename(g) PROVE FALSE
    <3>1. active = target[g] /\ target[g] \notin claimed
      BY <2>2 DEF TakeoverRename, RenameSure
    <3> QED  BY <1>1, <2>1, <3>1
  <2>3. ASSUME NEW g \in Gen, NEW r \in Roles, ReleaseRename(<<r, g>>) PROVE FALSE
    <3>1. pc[<<r, g>>] = "releaseRename"  BY <2>3 DEF ReleaseRename
    <3>2. g = k  BY <2>1, <3>1 DEF LeaseKept, LeasedHook, LeasedWorker, Roles
    <3>3. r = "hook" => pc[<<"worker", g>>] = "unborn"  BY <3>1 DEF LeaseKept, ReleasePC
    <3> QED  BY <2>1, <3>1, <3>2, <3>3 DEF Roles
  <2> QED  BY <2>1, <2>2, <2>3, LeaseMoves
\* A worker that holds a claimed demand holds the lease.
<1>2. ASSUME NEW k \in Gen, pc[<<"worker", k>>] \in HoldingDemand PROVE Owns(k) /\ k \in claimed
  BY <1>2 DEF ClaimedHeld, LeaseKept, LeasedWorker, WorkerPC, Owns, ActiveOwner
<1> HIDE DEF HoldingDemand
<1>3. CASE /\ UNCHANGED <<claimed, stranded>>
           /\ \A k \in Gen : \/ pc'[<<"worker", k>>] = pc[<<"worker", k>>]
                             \/ pc'[<<"worker", k>>] = "gone"
                             \/ /\ pc[<<"worker", k>>] \notin HoldingDemand \cup {"gone"}
                                /\ pc'[<<"worker", k>>] \notin HoldingDemand
  <2>1. \A k \in claimed : k \in Gen  BY DEF TypeOK
  <2>2. "gone" \notin HoldingDemand  BY DEF HoldingDemand
  <2> QED  BY <1>1, <1>3, <2>1, <2>2 DEF ClaimedHeld
<1>4. ASSUME NEW g \in Gen, ClaimRename(g) PROVE ClaimedHeld'
  <2>1. active = g /\ UNCHANGED <<active, stranded>> /\ pc[<<"worker", g>>] = "claimRename"
    BY <1>4 DEF ClaimRename, LeaseKept, LeasedWorker, WorkerPC
  <2>2. g \notin claimed  BY <2>1 DEF ClaimedHeld, HoldingDemand
  <2>3. claimed = {}  BY <2>1, <2>2 DEF ClaimedHeld
  <2>4. \A k \in Gen : pc[<<"worker", k>>] \notin HoldingDemand  BY <1>2, <2>3
  <2>5. \/ claimed' = {g} /\ Goto(<<"worker", g>>, "claimVerify")
        \/ claimed' = {} /\ Goto(<<"worker", g>>, "releaseCheck")
    BY <1>4, <2>3 DEF ClaimRename
  <2>6. \A k \in Gen : k # g => pc'[<<"worker", k>>] = pc[<<"worker", k>>]
    BY <2>5
  <2>7. \/ claimed' = {g} /\ pc'[<<"worker", g>>] = "claimVerify"
        \/ claimed' = {} /\ pc'[<<"worker", g>>] = "releaseCheck"
    BY <2>5
  <2> QED  BY <2>1, <2>4, <2>6, <2>7 DEF ClaimedHeld, HoldingDemand
<1>5. ASSUME NEW g \in Gen,
             \/ ClaimVerify(g) \/ RefreshOk(g) \/ RefreshFailed(g)
             \/ CompleteDemand(g) \/ RetryMark(g) \/ RetryRemove(g)
      PROVE  ClaimedHeld'
  <2>1. pc[<<"worker", g>>] \in HoldingDemand
    BY <1>5 DEF ClaimVerify, RefreshOk, RefreshFailed, CompleteDemand, RetryMark, RetryRemove, HoldingDemand
  <2>2. Owns(g) /\ g \in claimed /\ active = g  BY <1>1, <1>2, <2>1
  <2>3. claimed = {g}  BY <2>2 DEF ClaimedHeld
  <2>4. \A k \in Gen : k # g => pc[<<"worker", k>>] \notin HoldingDemand
    BY <1>2, <2>3
  <2>5. CASE ClaimVerify(g) \/ RefreshOk(g) \/ RefreshFailed(g)
    <3>1. UNCHANGED <<claimed, stranded, active>>
      BY <2>5 DEF ClaimVerify, RefreshOk, RefreshFailed, files, demand
    <3>2. /\ pc'[<<"worker", g>>] \in HoldingDemand
          /\ \A k \in Gen : k # g => pc'[<<"worker", k>>] = pc[<<"worker", k>>]
      BY <2>2, <2>5 DEF ClaimVerify, RefreshOk, RefreshFailed, HoldingDemand
    <3> QED  BY <2>2, <2>3, <2>4, <3>1, <3>2 DEF ClaimedHeld
  <2>6. CASE CompleteDemand(g)
    BY <2>2, <2>3, <2>4, <2>6 DEF CompleteDemand, ClaimedHeld, HoldingDemand, demand
  <2>7. CASE RetryMark(g)
    BY <2>2, <2>3, <2>4, <2>7 DEF RetryMark, ClaimedHeld, HoldingDemand, demand
  <2>8. CASE RetryRemove(g)
    BY <2>2, <2>3, <2>4, <2>8 DEF RetryRemove, ClaimedHeld, HoldingDemand, demand
  <2> QED  BY <1>5, <2>5, <2>6, <2>7, <2>8
<1>6. ASSUME NEW g \in Gen, RestoreRemove(g) PROVE ClaimedHeld'
  <2>1. target[g] \in Gen /\ DeadOwner(target[g])
    BY <1>6 DEF RestoreRemove, TargetsDead, TakingOver
  <2>2. pc[<<"worker", target[g]>>] \notin HoldingDemand
    BY <2>1, DeadIsIdle DEF HoldingDemand
  <2>3. \A k \in Gen : pc'[<<"worker", k>>] = pc[<<"worker", k>>]
    BY <1>6 DEF RestoreRemove
  <2> QED  BY <1>6, <2>2, <2>3 DEF RestoreRemove, ClaimedHeld, demand
<1>7. ASSUME NEW g \in Gen, Recycle(g) PROVE ClaimedHeld'
  <2>1. active # g /\ g \notin claimed  BY <1>1, <1>7 DEF Recycle
  <2>2. UNCHANGED <<claimed, stranded, active>>
    <3>1. /\ UNCHANGED active /\ claimed' = claimed \ {g}
          /\ stranded' = (stranded \/ g \in claimed \cap covering)
      BY <1>7 DEF Recycle
    <3>2. stranded = FALSE /\ g \notin claimed \cap covering
      BY <2>1 DEF ClaimedHeld, TypeOK
    <3> QED  BY <2>1, <3>1, <3>2
  <2>3. \A k \in Gen : IF k = g THEN pc'[<<"worker", k>>] = "unborn"
                                ELSE pc'[<<"worker", k>>] = pc[<<"worker", k>>]
    BY <1>7 DEF Recycle
  <2> QED  BY <2>1, <2>2, <2>3 DEF ClaimedHeld, HoldingDemand, TypeOK
<1> QED  BY <1>3, <1>4, <1>5, <1>6, <1>7, ClaimedMoves

\* The lease invariant holds before the first Stop.
LEMMA LeaseInit == Init => LeaseInv
<1> SUFFICES ASSUME Init PROVE LeaseInv
  OBVIOUS
<1>1. \A g \in Gen : pc[<<"hook", g>>] = "idle" /\ pc[<<"worker", g>>] = "unborn"
  BY ProcMember DEF Init
<1>2. TargetsDead /\ RenameSure  BY <1>1 DEF TargetsDead, RenameSure, TakingOver
<1>3. LeaseKept
  BY <1>1 DEF LeaseKept, LeasedHook, LeasedWorker, Unleased, TakingOver, ReleasePC
<1>4. ClaimedHeld  BY <1>1 DEF ClaimedHeld, HoldingDemand, Init
<1> QED  BY <1>2, <1>3, <1>4 DEF LeaseInv

\* The lease invariant survives every step of a state in which one hook renames.
LEMMA LeaseStep ==
  ASSUME SingleHost, TypeOK, DurabilityInv, LeaseInv, OneRenames, [Next]_vars
  PROVE  LeaseInv'
<1>1. TargetsDead'  BY TargetsDeadStep DEF DurabilityInv, LeaseInv
<1>2. LeaseKept'  BY LeaseKeptStep DEF DurabilityInv, LeaseInv
<1>3. RenameSure'  BY RenameSureStep DEF DurabilityInv, LeaseInv
<1>4. ClaimedHeld'  BY ClaimedHeldStep DEF DurabilityInv, LeaseInv
<1> QED  BY <1>1, <1>2, <1>3, <1>4 DEF LeaseInv

\* Two slots for Stop hooks.
TwoSlots == \A a, b, c \in Gen : a = b \/ b = c \/ a = c

\* Two hooks at their renames, and the dead owner each of them compared with: that
\* takes three generations.
LEMMA TwoSlotsRename ==
  ASSUME TwoSlots, LeaseInv
  PROVE  OneRenames
<1> SUFFICES ASSUME NEW g \in Gen, NEW h \in Gen, g # h,
                    pc[<<"hook", g>>] = "takeoverRename", pc[<<"hook", h>>] = "takeoverRename"
             PROVE  FALSE
  BY DEF OneRenames
<1>1. target[g] \in Gen /\ DeadOwner(target[g])  BY DEF LeaseInv, TargetsDead, TakingOver
<1>2. target[g] \notin {g, h}  BY <1>1, DeadIsIdle
<1> QED  BY <1>1, <1>2 DEF TwoSlots

\* What the lease invariant says of the demand and of the rebuild.
LEMMA LeaseImplies ==
  ASSUME DurabilityInv, LeaseInv
  PROVE  DemandReachable /\ OneRefreshAtATime /\ RefreshHoldsDemand
<1>1. ASSUME NEW g \in Gen, pc[<<"worker", g>>] = "refresh" PROVE g \in claimed /\ active = g
  BY <1>1 DEF LeaseInv, LeaseKept, LeasedWorker, WorkerPC, ClaimedHeld, HoldingDemand
<1>2. OneRefreshAtATime /\ RefreshHoldsDemand
  BY <1>1 DEF OneRefreshAtATime, RefreshHoldsDemand
<1>3. DemandReachable
  BY DEF LeaseInv, ClaimedHeld, DurabilityInv, SpareMarker, DemandReachable
<1> QED  BY <1>2, <1>3

\* What it says of a step that moves the lease.
LEMMA LeaseMovesByOwner ==
  ASSUME TypeOK, LeaseInv, [Next]_vars,
         NEW g \in Gen, active = g, NEW r \in Holders(g), Running(<<r, g>>), active' # g
  PROVE  \E q \in Roles : pc[<<q, g>>] = "releaseRename" /\ pc'[<<q, g>>] # pc[<<q, g>>]
<1> USE DEF LeaseInv
<1>1. ASSUME NEW h \in Gen, TakeoverRename(h) PROVE FALSE
  <2>1. active = target[h] /\ DeadOwner(target[h])
    BY <1>1 DEF TakeoverRename, RenameSure, TargetsDead, TakingOver
  <2> QED  BY <2>1 DEF DeadOwner, Holders, Canonical
<1>2. ASSUME NEW h \in Gen, NEW q \in Roles, ReleaseRename(<<q, h>>)
      PROVE  /\ h = g /\ pc[<<q, g>>] = "releaseRename"
             /\ pc'[<<q, g>>] # pc[<<q, g>>]
  <2>1. pc[<<q, h>>] = "releaseRename" /\ <<q, h>> \in Proc
    BY <1>2, ProcTypes DEF ReleaseRename
  <2>2. h = g  BY <2>1 DEF LeaseKept, LeasedHook, LeasedWorker, Roles
  <2>3. pc'[<<q, h>>] # "releaseRename"
    BY <1>2, <2>1, PcDomain DEF ReleaseRename, AfterRelease, Goto
  <2> QED  BY <2>1, <2>2, <2>3
<1> QED  BY <1>1, <1>2, LeaseMoves

-----------------------------------------------------------------------------
(* The lease theorems.                                                     *)

\* LeaseInv is inductive on one machine while at most one hook at a time stands
\* between moveActiveGeneration's comparison and its rename.
THEOREM LeaseInvariant ==
  ASSUME SingleHost
  PROVE  Spec /\ []OneRenames => []LeaseInv
<1>1. Init => LeaseInv
  BY LeaseInit
<1>2. TypeOK /\ DurabilityInv /\ LeaseInv /\ OneRenames /\ [Next]_vars => LeaseInv'
  BY LeaseStep
<1> QED  BY <1>1, <1>2, TypeCorrect, DurabilityInvariant, PTL DEF Spec

\* Then an unserved demand is in "dirty" or in the claimed marker of the lease
\* holder, the one restoreClaimedDemand looks at when that holder dies.
THEOREM DemandStaysReachable ==
  ASSUME SingleHost
  PROVE  Spec /\ []OneRenames => []DemandReachable
<1>1. DurabilityInv /\ LeaseInv => DemandReachable
  BY LeaseImplies
<1> QED  BY <1>1, LeaseInvariant, DurabilityInvariant, PTL

\* Then two workers never rebuild harness.db at the same time.
THEOREM OneWorkerRefreshes ==
  ASSUME SingleHost
  PROVE  Spec /\ []OneRenames => []OneRefreshAtATime
<1>1. DurabilityInv /\ LeaseInv => OneRefreshAtATime
  BY LeaseImplies
<1> QED  BY <1>1, LeaseInvariant, DurabilityInvariant, PTL

\* Then whoever rebuilds holds the lease and its claimed marker, so that the
\* demand survives a crash during the rebuild.
THEOREM RefresherHoldsDemand ==
  ASSUME SingleHost
  PROVE  Spec /\ []OneRenames => []RefreshHoldsDemand
<1>1. DurabilityInv /\ LeaseInv => RefreshHoldsDemand
  BY LeaseImplies
<1> QED  BY <1>1, LeaseInvariant, DurabilityInvariant, PTL

\* Then only its own processes take the lease from a generation that runs: "a live
\* owner is never reclaimed".
THEOREM LiveOwnerIsNotReclaimed ==
  ASSUME SingleHost
  PROVE  Spec /\ []OneRenames => LiveOwnerKeepsLease
<1> DEFINE Kept ==
      \A g \in Gen :
        (active = g /\ \E r \in Holders(g) : Running(<<r, g>>)) =>
          \/ active' = g
          \/ \E r \in Roles : pc[<<r, g>>] = "releaseRename" /\ pc'[<<r, g>>] # pc[<<r, g>>]
<1>1. TypeOK /\ LeaseInv /\ [Next]_vars => [Kept]_vars
  BY LeaseMovesByOwner
<1>2. Spec /\ []OneRenames => [][Kept]_vars
  BY <1>1, TypeCorrect, LeaseInvariant, PTL DEF Spec
<1> QED  BY <1>2 DEF LiveOwnerKeepsLease

\* With two slots the condition is met: the dead owner a hook renames away would
\* have to be the other hook at its rename.  With three it is not.
THEOREM TwoSlotsKeepLease ==
  ASSUME SingleHost, TwoSlots
  PROVE  Spec => []OneRenames /\ []LeaseInv
<1>1. Init => LeaseInv
  BY LeaseInit
<1>2. TypeOK /\ DurabilityInv /\ LeaseInv /\ [Next]_vars => LeaseInv'
  BY LeaseStep, TwoSlotsRename
<1>3. LeaseInv => OneRenames
  BY TwoSlotsRename
<1> QED  BY <1>1, <1>2, <1>3, TypeCorrect, DurabilityInvariant, PTL DEF Spec
=============================================================================
