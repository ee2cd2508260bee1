------------------------- MODULE WakeClaimsProofs --------------------------
(***************************************************************************)
(* Theorems about WakeClaims for any watchers, publishers and entries and  *)
(* any number of weeks and deaths.                                         *)
(***************************************************************************)
EXTENDS WakeClaims, TLAPS

(* Types. *)

Holding == Claiming \cup Claimed

\* Whoever claims has an entry in its hand.
HandSet == \A w \in Watcher : pc[w] \in {"check", "open"} \cup Holding => hand[w] \in Entry

Typed == TypeOK /\ HandSet

LEMMA TypedInit == Init => Typed
BY WakeClaimsAssumption
DEF WakeClaimsAssumption, Init, Typed, HandSet, Holding, Claiming, Claimed, TypeOK, PC,
    Over, PubOver

LEMMA TypedNext ==
  ASSUME Typed, [Next]_vars
  PROVE  Typed'
<1> USE DEF files, grant, mind, bounds, history, PC, Over, PubOver, Holding, Claiming,
            Claimed, Kind
<1>1. ASSUME NEW p \in Publisher, Publish(p)
      PROVE  Typed'
  BY <1>1, WakeClaimsAssumption
  DEF Publish, Send, Typed, TypeOK, HandSet, WakeClaimsAssumption
<1>2. ASSUME NEW p \in Publisher, RemoveBinding(p)
      PROVE  Typed'
  BY ZenonT(40), <1>2, WakeClaimsAssumption
  DEF RemoveBinding, Send, Evident, Typed, TypeOK, HandSet, WakeClaimsAssumption
<1>3. ASSUME NEW p \in Publisher, WriteBinding(p)
      PROVE  Typed'
  BY ZenonT(40), <1>3, WakeClaimsAssumption
  DEF WriteBinding, Send, Typed, TypeOK, HandSet, WakeClaimsAssumption
<1>4. ASSUME NEW p \in Publisher, LookForEntry(p)
      PROVE  Typed'
  BY <1>4, WakeClaimsAssumption
  DEF LookForEntry, Send, Typed, TypeOK, HandSet, WakeClaimsAssumption
<1>5. ASSUME NEW p \in Publisher, CreateEntry(p)
      PROVE  Typed'
  BY <1>5, WakeClaimsAssumption
  DEF CreateEntry, Send, Typed, TypeOK, HandSet, WakeClaimsAssumption
<1>6. ASSUME NEW w \in Watcher, Start(w)
      PROVE  Typed'
  BY <1>6, WakeClaimsAssumption
  DEF Start, Goto, Typed, TypeOK, HandSet, WakeClaimsAssumption
<1>7. ASSUME NEW w \in Watcher, PruneOn(w)
      PROVE  Typed'
  BY <1>7, WakeClaimsAssumption
  DEF PruneOn, Goto, Typed, TypeOK, HandSet, WakeClaimsAssumption
<1>8. ASSUME NEW w \in Watcher, BeginActivation(w)
      PROVE  Typed'
  BY <1>8, WakeClaimsAssumption
  DEF BeginActivation, Goto, Typed, TypeOK, HandSet, WakeClaimsAssumption
<1>9. ASSUME NEW w \in Watcher, Activate(w)
      PROVE  Typed'
  BY <1>9, WakeClaimsAssumption
  DEF Activate, Goto, Typed, TypeOK, HandSet, WakeClaimsAssumption
<1>10. ASSUME NEW w \in Watcher, RollBack(w)
      PROVE  Typed'
  BY <1>10, WakeClaimsAssumption
  DEF RollBack, Typed, TypeOK, HandSet, WakeClaimsAssumption
<1>11. ASSUME NEW w \in Watcher, Poll(w)
      PROVE  Typed'
  BY <1>11, WakeClaimsAssumption
  DEF Poll, Goto, Typed, TypeOK, HandSet, WakeClaimsAssumption
<1>12. ASSUME NEW w \in Watcher, Timeout(w)
      PROVE  Typed'
  BY <1>12, WakeClaimsAssumption
  DEF Timeout, Goto, Typed, TypeOK, HandSet, WakeClaimsAssumption
<1>13. ASSUME NEW w \in Watcher, ReadInbox(w)
      PROVE  Typed'
  BY <1>13, WakeClaimsAssumption
  DEF ReadInbox, Goto, Typed, TypeOK, HandSet, WakeClaimsAssumption
<1>14. ASSUME NEW w \in Watcher, Sleep(w)
      PROVE  Typed'
  BY <1>14, WakeClaimsAssumption
  DEF Sleep, Goto, Typed, TypeOK, HandSet, WakeClaimsAssumption
<1>15. ASSUME NEW w \in Watcher, ClaimCheck(w)
      PROVE  Typed'
  BY SMTT(30), <1>15, WakeClaimsAssumption
  DEF ClaimCheck, Goto, GiveUp, Entitled, Typed, TypeOK, HandSet, WakeClaimsAssumption
<1>16. ASSUME NEW w \in Watcher, OpenClaim(w)
      PROVE  Typed'
  BY SMTT(30), <1>16, WakeClaimsAssumption
  DEF OpenClaim, Goto, GiveUp, Typed, TypeOK, HandSet, WakeClaimsAssumption
<1>17. ASSUME NEW w \in Watcher, Recheck(w)
      PROVE  Typed'
  BY <1>17, WakeClaimsAssumption
  DEF Recheck, Goto, Entitled, Typed, TypeOK, HandSet, WakeClaimsAssumption
<1>18. ASSUME NEW w \in Watcher, Withdraw(w)
      PROVE  Typed'
  BY <1>18, WakeClaimsAssumption
  DEF Withdraw, Goto, GiveUp, Typed, TypeOK, HandSet, WakeClaimsAssumption
<1>19. ASSUME NEW w \in Watcher, WriteClaim(w)
      PROVE  Typed'
  BY <1>19, WakeClaimsAssumption
  DEF WriteClaim, Goto, Typed, TypeOK, HandSet, WakeClaimsAssumption
<1>20. ASSUME NEW w \in Watcher, MarkClaimed(w)
      PROVE  Typed'
  BY <1>20, WakeClaimsAssumption
  DEF MarkClaimed, Goto, Mark, Typed, TypeOK, HandSet, WakeClaimsAssumption
<1>21. ASSUME NEW w \in Watcher, Unbind(w)
      PROVE  Typed'
  BY <1>21, WakeClaimsAssumption
  DEF Unbind, Goto, Typed, TypeOK, HandSet, WakeClaimsAssumption
<1>22. ASSUME NEW w \in Watcher, Deliver(w)
      PROVE  Typed'
  <2>1. hand[w] \in Entry
    BY <1>22 DEF Deliver, Typed, HandSet
  <2>2. delivered' \in [Entry -> Nat]
    BY <1>22, <2>1 DEF Deliver, Typed, TypeOK
  <2> QED
    BY <1>22, <2>1, <2>2 DEF Deliver, Goto, Typed, TypeOK, HandSet
<1>23. ASSUME NEW w \in Watcher, NEW e \in Entry, Terminate(w, e)
      PROVE  Typed'
  BY <1>23, WakeClaimsAssumption
  DEF Terminate, Mark, Typed, TypeOK, HandSet, WakeClaimsAssumption
<1>24. ASSUME NEW w \in Watcher, NEW e \in Entry, Choose(w, e)
      PROVE  Typed'
  BY SMTT(30), <1>24, WakeClaimsAssumption
  DEF Choose, Goto, Typed, TypeOK, HandSet, WakeClaimsAssumption
<1>25. ASSUME NEW w \in Watcher, NEW e \in Entry, NEW k \in Kind, Prune(w, e, k)
      PROVE  Typed'
  BY <1>25, WakeClaimsAssumption
  DEF Prune, Expired, Typed, TypeOK, HandSet, WakeClaimsAssumption
<1>26. ASSUME NEW e \in Entry, Recover(e)
      PROVE  Typed'
  BY <1>26, WakeClaimsAssumption
  DEF Recover, Mark, Typed, TypeOK, HandSet, WakeClaimsAssumption
<1>27. CASE Crash
  <2>1. ASSUME NEW w \in Watcher, pc[w] \notin Over \cup {"idle"}, Goto(w, "crashed"), UNCHANGED pub
        PROVE  Typed'
    BY <1>27, <2>1 DEF Crash, Goto, Typed, TypeOK, HandSet
  <2>2. ASSUME NEW p \in Publisher, Send(p, "crashed"), UNCHANGED pc
        PROVE  Typed'
    BY <1>27, <2>2 DEF Crash, Send, Typed, TypeOK, HandSet
  <2> QED
    BY <1>27, <2>1, <2>2 DEF Crash
<1>28. CASE Week
  <2>1. old' \in SUBSET (Entry \X Kind)
    BY <1>28 DEF Week
  <2> QED
    BY <1>28, <2>1 DEF Week, Typed, TypeOK, HandSet
<1>29. CASE UNCHANGED vars
  BY <1>29, WakeClaimsAssumption DEF vars, Typed, TypeOK, HandSet, WakeClaimsAssumption
<1> QED
  BY <1>1, <1>2, <1>3, <1>4, <1>5, <1>6, <1>7, <1>8, <1>9, <1>10, <1>11, <1>12, <1>13,
     <1>14, <1>15, <1>16, <1>17, <1>18, <1>19, <1>20, <1>21, <1>22, <1>23, <1>24,
     <1>25, <1>26, <1>27, <1>28, <1>29
  DEF Next, Publication, Watch

\* For any number of watchers, publishers and entries each variable keeps its type.
THEOREM TypeCorrect == Spec => []TypeOK
<1>1. Init => Typed  BY TypedInit
<1>2. Typed /\ [Next]_vars => Typed'  BY TypedNext
<1>3. Typed => TypeOK  BY DEF Typed
<1> QED  BY <1>1, <1>2, <1>3, PTL DEF Spec

(* Claims. *)

\* The claim file in a watcher's hand is not one that the retention may remove.
FreshClaim == \A w \in Watcher : pc[w] \in Holding => <<hand[w], "claim">> \notin old

ClaimInv == Typed /\ FreshClaim /\ ClaimHeld

LEMMA ClaimInit == Init => ClaimInv
BY TypedInit DEF Init, ClaimInv, FreshClaim, ClaimHeld, Holding, Claiming, Claimed

LEMMA ClaimNext ==
  ASSUME ClaimInv, [Next]_vars
  PROVE  (FreshClaim /\ ClaimHeld)'
<1> USE DEF files, grant, mind, bounds, history, Over, PubOver, Holding, Claiming,
            Claimed, FreshClaim, ClaimHeld, ClaimInv, Typed, TypeOK, HandSet
<1>1. ASSUME NEW p \in Publisher, Publish(p)
      PROVE  (FreshClaim /\ ClaimHeld)'
  BY <1>1 DEF Publish, Send
<1>2. ASSUME NEW p \in Publisher, RemoveBinding(p)
      PROVE  (FreshClaim /\ ClaimHeld)'
  BY <1>2 DEF RemoveBinding, Send, Evident
<1>3. ASSUME NEW p \in Publisher, WriteBinding(p)
      PROVE  (FreshClaim /\ ClaimHeld)'
  BY <1>3 DEF WriteBinding, Send
<1>4. ASSUME NEW p \in Publisher, LookForEntry(p)
      PROVE  (FreshClaim /\ ClaimHeld)'
  BY <1>4 DEF LookForEntry, Send
<1>5. ASSUME NEW p \in Publisher, CreateEntry(p)
      PROVE  (FreshClaim /\ ClaimHeld)'
  BY <1>5 DEF CreateEntry, Send
<1>6. ASSUME NEW w \in Watcher, Start(w)
      PROVE  (FreshClaim /\ ClaimHeld)'
  BY <1>6 DEF Start, Goto
<1>7. ASSUME NEW w \in Watcher, PruneOn(w)
      PROVE  (FreshClaim /\ ClaimHeld)'
  BY <1>7 DEF PruneOn, Goto
<1>8. ASSUME NEW w \in Watcher, BeginActivation(w)
      PROVE  (FreshClaim /\ ClaimHeld)'
  BY <1>8 DEF BeginActivation, Goto
<1>9. ASSUME NEW w \in Watcher, Activate(w)
      PROVE  (FreshClaim /\ ClaimHeld)'
  BY <1>9 DEF Activate, Goto
<1>10. ASSUME NEW w \in Watcher, RollBack(w)
      PROVE  (FreshClaim /\ ClaimHeld)'
  BY <1>10 DEF RollBack
<1>11. ASSUME NEW w \in Watcher, Poll(w)
      PROVE  (FreshClaim /\ ClaimHeld)'
  BY <1>11 DEF Poll, Goto
<1>12. ASSUME NEW w \in Watcher, Timeout(w)
      PROVE  (FreshClaim /\ ClaimHeld)'
  BY <1>12 DEF Timeout, Goto
<1>13. ASSUME NEW w \in Watcher, ReadInbox(w)
      PROVE  (FreshClaim /\ ClaimHeld)'
  BY <1>13 DEF ReadInbox, Goto
<1>14. ASSUME NEW w \in Watcher, Sleep(w)
      PROVE  (FreshClaim /\ ClaimHeld)'
  BY <1>14 DEF Sleep, Goto
<1>15. ASSUME NEW w \in Watcher, ClaimCheck(w)
      PROVE  (FreshClaim /\ ClaimHeld)'
  BY <1>15 DEF ClaimCheck, Goto, GiveUp, Entitled
<1>16. ASSUME NEW w \in Watcher, OpenClaim(w)
      PROVE  (FreshClaim /\ ClaimHeld)'
  BY <1>16 DEF OpenClaim, Goto, GiveUp
<1>17. ASSUME NEW w \in Watcher, Recheck(w)
      PROVE  (FreshClaim /\ ClaimHeld)'
  BY <1>17 DEF Recheck, Goto, Entitled
<1>18. ASSUME NEW w \in Watcher, Withdraw(w)
      PROVE  (FreshClaim /\ ClaimHeld)'
  BY <1>18 DEF Withdraw, Goto, GiveUp
<1>19. ASSUME NEW w \in Watcher, WriteClaim(w)
      PROVE  (FreshClaim /\ ClaimHeld)'
  BY <1>19 DEF WriteClaim, Goto
<1>20. ASSUME NEW w \in Watcher, MarkClaimed(w)
      PROVE  (FreshClaim /\ ClaimHeld)'
  BY <1>20 DEF MarkClaimed, Goto, Mark
<1>21. ASSUME NEW w \in Watcher, Unbind(w)
      PROVE  (FreshClaim /\ ClaimHeld)'
  BY <1>21 DEF Unbind, Goto
<1>22. ASSUME NEW w \in Watcher, Deliver(w)
      PROVE  (FreshClaim /\ ClaimHeld)'
  BY <1>22 DEF Deliver, Goto
<1>23. ASSUME NEW w \in Watcher, NEW e \in Entry, Terminate(w, e)
      PROVE  (FreshClaim /\ ClaimHeld)'
  BY <1>23 DEF Terminate, Mark
<1>24. ASSUME NEW w \in Watcher, NEW e \in Entry, Choose(w, e)
      PROVE  (FreshClaim /\ ClaimHeld)'
  BY <1>24 DEF Choose, Goto
<1>25. ASSUME NEW w \in Watcher, NEW e \in Entry, NEW k \in Kind, Prune(w, e, k)
      PROVE  (FreshClaim /\ ClaimHeld)'
  BY <1>25 DEF Prune, Expired
<1>26. ASSUME NEW e \in Entry, Recover(e)
      PROVE  (FreshClaim /\ ClaimHeld)'
  BY <1>26 DEF Recover, Mark
<1>27. CASE Crash
  <2>1. ASSUME NEW v \in Watcher, pc[v] \notin Over \cup {"idle"}, Goto(v, "crashed"), UNCHANGED pub
        PROVE  (FreshClaim /\ ClaimHeld)'
    BY <1>27, <2>1 DEF Crash, Goto
  <2>2. CASE UNCHANGED pc
    BY <1>27, <2>2 DEF Crash
  <2> QED
    BY <1>27, <2>1, <2>2 DEF Crash
<1>28. CASE Week
  BY <1>28 DEF Week, Exists
<1>29. CASE UNCHANGED vars
  BY <1>29 DEF vars
<1> QED
  BY <1>1, <1>2, <1>3, <1>4, <1>5, <1>6, <1>7, <1>8, <1>9, <1>10, <1>11, <1>12, <1>13,
     <1>14, <1>15, <1>16, <1>17, <1>18, <1>19, <1>20, <1>21, <1>22, <1>23, <1>24,
     <1>25, <1>26, <1>27, <1>28, <1>29
  DEF Next, Publication, Watch

LEMMA ClaimInductive == ClaimInv /\ [Next]_vars => ClaimInv'
BY TypedNext, ClaimNext DEF ClaimInv

\* One watcher at most claims an entry, however many run and die and whatever
\* the retention removes (claude-memory-wake.ts: claim, pruneRuntimeFiles).
THEOREM ClaimsAreHeld == Spec => []ClaimHeld
<1>1. Init => ClaimInv  BY ClaimInit
<1>2. ClaimInv => ClaimHeld  BY DEF ClaimInv
<1> QED  BY <1>1, <1>2, ClaimInductive, PTL DEF Spec

(* Authority. *)

\* Whoever has the authority while its claim is open has been noted.
HeldWhileOpen == \A w \in Watcher : pc[w] \in Claiming /\ authority = w => w \in held

HeldInv == Typed /\ HeldWhileOpen /\ RevokedDeliversNothing

LEMMA HeldInit == Init => HeldInv
BY TypedInit DEF Init, HeldInv, HeldWhileOpen, RevokedDeliversNothing, Claiming, Claimed

LEMMA HeldNext ==
  ASSUME HeldInv, [Next]_vars
  PROVE  (HeldWhileOpen /\ RevokedDeliversNothing)'
<1> USE DEF files, grant, mind, bounds, history, Over, PubOver, Holding, Claiming,
            Claimed, HeldWhileOpen, RevokedDeliversNothing, HeldInv, Typed, TypeOK,
            HandSet
<1>1. ASSUME NEW p \in Publisher, Publish(p)
      PROVE  (HeldWhileOpen /\ RevokedDeliversNothing)'
  BY <1>1, WakeClaimsAssumption DEF Publish, Send
<1>2. ASSUME NEW p \in Publisher, RemoveBinding(p)
      PROVE  (HeldWhileOpen /\ RevokedDeliversNothing)'
  BY <1>2, WakeClaimsAssumption DEF RemoveBinding, Send, Evident
<1>3. ASSUME NEW p \in Publisher, WriteBinding(p)
      PROVE  (HeldWhileOpen /\ RevokedDeliversNothing)'
  BY <1>3, WakeClaimsAssumption DEF WriteBinding, Send
<1>4. ASSUME NEW p \in Publisher, LookForEntry(p)
      PROVE  (HeldWhileOpen /\ RevokedDeliversNothing)'
  BY <1>4, WakeClaimsAssumption DEF LookForEntry, Send
<1>5. ASSUME NEW p \in Publisher, CreateEntry(p)
      PROVE  (HeldWhileOpen /\ RevokedDeliversNothing)'
  BY <1>5, WakeClaimsAssumption DEF CreateEntry, Send
<1>6. ASSUME NEW w \in Watcher, Start(w)
      PROVE  (HeldWhileOpen /\ RevokedDeliversNothing)'
  BY <1>6, WakeClaimsAssumption DEF Start, Goto
<1>7. ASSUME NEW w \in Watcher, PruneOn(w)
      PROVE  (HeldWhileOpen /\ RevokedDeliversNothing)'
  BY <1>7, WakeClaimsAssumption DEF PruneOn, Goto
<1>8. ASSUME NEW w \in Watcher, BeginActivation(w)
      PROVE  (HeldWhileOpen /\ RevokedDeliversNothing)'
  BY <1>8, WakeClaimsAssumption DEF BeginActivation, Goto
<1>9. ASSUME NEW w \in Watcher, Activate(w)
      PROVE  (HeldWhileOpen /\ RevokedDeliversNothing)'
  BY <1>9, WakeClaimsAssumption DEF Activate, Goto
<1>10. ASSUME NEW w \in Watcher, RollBack(w)
      PROVE  (HeldWhileOpen /\ RevokedDeliversNothing)'
  BY <1>10, WakeClaimsAssumption DEF RollBack
<1>11. ASSUME NEW w \in Watcher, Poll(w)
      PROVE  (HeldWhileOpen /\ RevokedDeliversNothing)'
  BY <1>11, WakeClaimsAssumption DEF Poll, Goto
<1>12. ASSUME NEW w \in Watcher, Timeout(w)
      PROVE  (HeldWhileOpen /\ RevokedDeliversNothing)'
  BY <1>12, WakeClaimsAssumption DEF Timeout, Goto
<1>13. ASSUME NEW w \in Watcher, ReadInbox(w)
      PROVE  (HeldWhileOpen /\ RevokedDeliversNothing)'
  BY <1>13, WakeClaimsAssumption DEF ReadInbox, Goto
<1>14. ASSUME NEW w \in Watcher, Sleep(w)
      PROVE  (HeldWhileOpen /\ RevokedDeliversNothing)'
  BY <1>14, WakeClaimsAssumption DEF Sleep, Goto
<1>15. ASSUME NEW w \in Watcher, ClaimCheck(w)
      PROVE  (HeldWhileOpen /\ RevokedDeliversNothing)'
  BY <1>15, WakeClaimsAssumption DEF ClaimCheck, Goto, GiveUp, Entitled
<1>16. ASSUME NEW w \in Watcher, OpenClaim(w)
      PROVE  (HeldWhileOpen /\ RevokedDeliversNothing)'
  BY <1>16, WakeClaimsAssumption DEF OpenClaim, Goto, GiveUp
<1>17. ASSUME NEW w \in Watcher, Recheck(w)
      PROVE  (HeldWhileOpen /\ RevokedDeliversNothing)'
  BY <1>17, WakeClaimsAssumption DEF Recheck, Goto, Entitled
<1>18. ASSUME NEW w \in Watcher, Withdraw(w)
      PROVE  (HeldWhileOpen /\ RevokedDeliversNothing)'
  BY <1>18, WakeClaimsAssumption DEF Withdraw, Goto, GiveUp
<1>19. ASSUME NEW w \in Watcher, WriteClaim(w)
      PROVE  (HeldWhileOpen /\ RevokedDeliversNothing)'
  BY <1>19, WakeClaimsAssumption DEF WriteClaim, Goto
<1>20. ASSUME NEW w \in Watcher, MarkClaimed(w)
      PROVE  (HeldWhileOpen /\ RevokedDeliversNothing)'
  BY <1>20, WakeClaimsAssumption DEF MarkClaimed, Goto, Mark
<1>21. ASSUME NEW w \in Watcher, Unbind(w)
      PROVE  (HeldWhileOpen /\ RevokedDeliversNothing)'
  BY <1>21, WakeClaimsAssumption DEF Unbind, Goto
<1>22. ASSUME NEW w \in Watcher, Deliver(w)
      PROVE  (HeldWhileOpen /\ RevokedDeliversNothing)'
  BY <1>22, WakeClaimsAssumption DEF Deliver, Goto
<1>23. ASSUME NEW w \in Watcher, NEW e \in Entry, Terminate(w, e)
      PROVE  (HeldWhileOpen /\ RevokedDeliversNothing)'
  BY <1>23, WakeClaimsAssumption DEF Terminate, Mark
<1>24. ASSUME NEW w \in Watcher, NEW e \in Entry, Choose(w, e)
      PROVE  (HeldWhileOpen /\ RevokedDeliversNothing)'
  BY <1>24, WakeClaimsAssumption DEF Choose, Goto
<1>25. ASSUME NEW w \in Watcher, NEW e \in Entry, NEW k \in Kind, Prune(w, e, k)
      PROVE  (HeldWhileOpen /\ RevokedDeliversNothing)'
  BY <1>25, WakeClaimsAssumption DEF Prune, Expired
<1>26. ASSUME NEW e \in Entry, Recover(e)
      PROVE  (HeldWhileOpen /\ RevokedDeliversNothing)'
  BY <1>26, WakeClaimsAssumption DEF Recover, Mark
<1>27. CASE Crash
  <2>1. ASSUME NEW v \in Watcher, pc[v] \notin Over \cup {"idle"}, Goto(v, "crashed"), UNCHANGED pub
        PROVE  (HeldWhileOpen /\ RevokedDeliversNothing)'
    BY <1>27, <2>1 DEF Crash, Goto
  <2>2. ASSUME NEW p \in Publisher, pub[p] \notin PubOver \cup {"idle"}, Send(p, "crashed"), UNCHANGED pc
        PROVE  (HeldWhileOpen /\ RevokedDeliversNothing)'
    BY <1>27, <2>2 DEF Crash, Send
  <2> QED
    BY <1>27, <2>1, <2>2 DEF Crash
<1>28. CASE Week
  BY <1>28, WakeClaimsAssumption DEF Week, Exists
<1>29. CASE UNCHANGED vars
  BY <1>29, WakeClaimsAssumption DEF vars
<1> QED
  BY <1>1, <1>2, <1>3, <1>4, <1>5, <1>6, <1>7, <1>8, <1>9, <1>10, <1>11, <1>12, <1>13,
     <1>14, <1>15, <1>16, <1>17, <1>18, <1>19, <1>20, <1>21, <1>22, <1>23, <1>24,
     <1>25, <1>26, <1>27, <1>28, <1>29
  DEF Next, Publication, Watch

LEMMA HeldInductive == HeldInv /\ [Next]_vars => HeldInv'
BY TypedNext, HeldNext DEF HeldInv

\* No watcher, in any number of activations and rollbacks, delivers what it claimed
\* without the authority (claude-memory-wake.ts: claim).
THEOREM NothingDeliveredRevoked == Spec => []RevokedDeliversNothing
<1>1. Init => HeldInv  BY HeldInit
<1>2. HeldInv => RevokedDeliversNothing  BY DEF HeldInv
<1> QED  BY <1>1, <1>2, HeldInductive, PTL DEF Spec

(* Evidence. *)

Looking == {"list", "choose", "check", "open"} \cup Claiming

\* Only a marker that is there can be old.
OldIsThere == \A e \in Entry : <<e, "terminal">> \in old => e \in terminal

\* What a watcher has not found settled has no marker that the retention may remove.
Unseen == \A w \in Watcher :
  /\ pc[w] \in Looking => \A e \in Entry \ known[w] : <<e, "terminal">> \notin old
  /\ pc[w] \in {"check", "open"} \cup Holding => <<hand[w], "terminal">> \notin old

\* The sidecar and the entry are removed under a marker.
Marked == \A w \in Watcher : pc[w] \in {"unbind", "unlist"} => hand[w] \in terminal

\* From the sidecar's publication on there is the sidecar or a marker that stays.
PubBound == \A p \in Publisher : pub[p] \in {"look", "create"} =>
  EntryOf[p] \in bound \cup crossed \/ Evident(EntryOf[p])

Evidence == OldIsThere /\ Unseen /\ Marked /\ PubBound /\ EvidenceFirst

EvidenceInv == Typed /\ Evidence

LEMMA EvidenceInit == Init => EvidenceInv
BY TypedInit
DEF Init, EvidenceInv, Evidence, OldIsThere, Unseen, Looking, Marked, PubBound,
    EvidenceFirst, Evident,
    Holding, Claiming, Claimed

LEMMA EvidenceNext ==
  ASSUME EvidenceInv, [Next]_vars
  PROVE  Evidence'
<1> USE DEF files, grant, mind, bounds, history, Over, PubOver, Holding, Claiming,
            Claimed, Evidence, OldIsThere, Unseen, Looking, Marked, PubBound,
            EvidenceFirst, Evident, EvidenceInv, Typed, TypeOK, HandSet
<1>1. ASSUME NEW p \in Publisher, Publish(p)
      PROVE  Evidence'
  BY <1>1, WakeClaimsAssumption DEF Publish, Send
<1>2. ASSUME NEW p \in Publisher, RemoveBinding(p)
      PROVE  Evidence'
  BY <1>2, WakeClaimsAssumption DEF RemoveBinding, Send, Evident
<1>3. ASSUME NEW p \in Publisher, WriteBinding(p)
      PROVE  Evidence'
  BY <1>3, WakeClaimsAssumption DEF WriteBinding, Send
<1>4. ASSUME NEW p \in Publisher, LookForEntry(p)
      PROVE  Evidence'
  BY <1>4, WakeClaimsAssumption DEF LookForEntry, Send
<1>5. ASSUME NEW p \in Publisher, CreateEntry(p)
      PROVE  Evidence'
  BY ZenonT(40), <1>5, WakeClaimsAssumption DEF CreateEntry, Send
<1>6. ASSUME NEW w \in Watcher, Start(w)
      PROVE  Evidence'
  BY <1>6, WakeClaimsAssumption DEF Start, Goto
<1>7. ASSUME NEW w \in Watcher, PruneOn(w)
      PROVE  Evidence'
  BY <1>7, WakeClaimsAssumption DEF PruneOn, Goto
<1>8. ASSUME NEW w \in Watcher, BeginActivation(w)
      PROVE  Evidence'
  BY <1>8, WakeClaimsAssumption DEF BeginActivation, Goto
<1>9. ASSUME NEW w \in Watcher, Activate(w)
      PROVE  Evidence'
  BY <1>9, WakeClaimsAssumption DEF Activate, Goto
<1>10. ASSUME NEW w \in Watcher, RollBack(w)
      PROVE  Evidence'
  BY <1>10, WakeClaimsAssumption DEF RollBack
<1>11. ASSUME NEW w \in Watcher, Poll(w)
      PROVE  Evidence'
  BY <1>11, WakeClaimsAssumption DEF Poll, Goto
<1>12. ASSUME NEW w \in Watcher, Timeout(w)
      PROVE  Evidence'
  BY <1>12, WakeClaimsAssumption DEF Timeout, Goto
<1>13. ASSUME NEW w \in Watcher, ReadInbox(w)
      PROVE  Evidence'
  BY <1>13, WakeClaimsAssumption DEF ReadInbox, Goto
<1>14. ASSUME NEW w \in Watcher, Sleep(w)
      PROVE  Evidence'
  BY <1>14, WakeClaimsAssumption DEF Sleep, Goto
<1>15. ASSUME NEW w \in Watcher, ClaimCheck(w)
      PROVE  Evidence'
  <2>1. CASE Goto(w, "open") /\ UNCHANGED mind
    BY <1>15, <2>1 DEF ClaimCheck, Goto
  <2>2. CASE GiveUp(w) /\ UNCHANGED <<listed, todo>>
    BY <1>15, <2>2 DEF ClaimCheck, Goto, GiveUp
  <2> QED
    BY <1>15, <2>1, <2>2 DEF ClaimCheck
<1>16. ASSUME NEW w \in Watcher, OpenClaim(w)
      PROVE  Evidence'
  <2>1. CASE old' = old \ {<<hand[w], "claim">>} /\ Goto(w, "recheck") /\ UNCHANGED mind
    BY <1>16, <2>1 DEF OpenClaim, Goto
  <2>2. CASE GiveUp(w) /\ UNCHANGED <<claim, old, held, listed, todo>>
    BY <1>16, <2>2 DEF OpenClaim, Goto, GiveUp
  <2> QED
    BY <1>16, <2>1, <2>2 DEF OpenClaim
<1>17. ASSUME NEW w \in Watcher, Recheck(w)
      PROVE  Evidence'
  BY <1>17, WakeClaimsAssumption DEF Recheck, Goto, Entitled
<1>18. ASSUME NEW w \in Watcher, Withdraw(w)
      PROVE  Evidence'
  BY <1>18, WakeClaimsAssumption DEF Withdraw, Goto, GiveUp
<1>19. ASSUME NEW w \in Watcher, WriteClaim(w)
      PROVE  Evidence'
  BY <1>19, WakeClaimsAssumption DEF WriteClaim, Goto
<1>20. ASSUME NEW w \in Watcher, MarkClaimed(w)
      PROVE  Evidence'
  BY <1>20, WakeClaimsAssumption DEF MarkClaimed, Goto, Mark
<1>21. ASSUME NEW w \in Watcher, Unbind(w)
      PROVE  Evidence'
  BY <1>21, WakeClaimsAssumption DEF Unbind, Goto
<1>22. ASSUME NEW w \in Watcher, Deliver(w)
      PROVE  Evidence'
  BY <1>22, WakeClaimsAssumption DEF Deliver, Goto
<1>23. ASSUME NEW w \in Watcher, NEW e \in Entry, Terminate(w, e)
      PROVE  Evidence'
  BY <1>23, WakeClaimsAssumption DEF Terminate, Mark
<1>24. ASSUME NEW w \in Watcher, NEW e \in Entry, Choose(w, e)
      PROVE  Evidence'
  <2>1. <<e, "terminal">> \notin old
    BY <1>24 DEF Choose, Unseen, Looking, EvidenceInv, Evidence
  <2>2. CASE e \notin bound /\ Goto(w, "denied") /\ UNCHANGED <<hand, known, skip>>
    BY <1>24, <2>2 DEF Choose, Goto
  <2>3. CASE known' = [known EXCEPT ![w] = @ \cup {e}] /\ UNCHANGED <<pc, hand>>
    BY <1>24, <2>3 DEF Choose
  <2>4. CASE hand' = [hand EXCEPT ![w] = e] /\ Goto(w, "check") /\ UNCHANGED <<known, skip>>
    BY <1>24, <2>1, <2>4 DEF Choose, Goto
  <2> QED
    BY <1>24, <2>2, <2>3, <2>4 DEF Choose
<1>25. ASSUME NEW w \in Watcher, NEW e \in Entry, NEW k \in Kind, Prune(w, e, k)
      PROVE  Evidence'
  BY <1>25, WakeClaimsAssumption DEF Prune, Expired
<1>26. ASSUME NEW e \in Entry, Recover(e)
      PROVE  Evidence'
  BY <1>26, WakeClaimsAssumption DEF Recover, Mark
<1>27. CASE Crash
  <2>1. ASSUME NEW v \in Watcher, pc[v] \notin Over \cup {"idle"}, Goto(v, "crashed"), UNCHANGED pub
        PROVE  Evidence'
    BY <1>27, <2>1 DEF Crash, Goto
  <2>2. ASSUME NEW p \in Publisher, pub[p] \notin PubOver \cup {"idle"}, Send(p, "crashed"), UNCHANGED pc
        PROVE  Evidence'
    BY <1>27, <2>2 DEF Crash, Send
  <2> QED
    BY <1>27, <2>1, <2>2 DEF Crash
<1>28. CASE Week
  BY <1>28, WakeClaimsAssumption DEF Week, Exists
<1>29. CASE UNCHANGED vars
  BY <1>29, WakeClaimsAssumption DEF vars
<1> QED
  BY <1>1, <1>2, <1>3, <1>4, <1>5, <1>6, <1>7, <1>8, <1>9, <1>10, <1>11, <1>12, <1>13,
     <1>14, <1>15, <1>16, <1>17, <1>18, <1>19, <1>20, <1>21, <1>22, <1>23, <1>24,
     <1>25, <1>26, <1>27, <1>28, <1>29
  DEF Next, Publication, Watch

LEMMA EvidenceInductive == EvidenceInv /\ [Next]_vars => EvidenceInv'
BY TypedNext, EvidenceNext DEF EvidenceInv

\* No entry in the inbox is ever without its sidecar and without a marker, unless a
\* repeated publication has removed the one before the other was there to stay
\* (claude-memory-wake.ts: publishClaudeInboxEntry, waitForClaudeMemory).
THEOREM EvidenceComesFirst == Spec => []EvidenceFirst
<1>1. Init => EvidenceInv  BY EvidenceInit
<1>2. EvidenceInv => EvidenceFirst  BY DEF EvidenceInv, Evidence
<1> QED  BY <1>1, <1>2, EvidenceInductive, PTL DEF Spec

(* What was accepted. *)

\* In the first week no file is old.
NothingOld == weeks = 0 => old = {}

KeptInv == EvidenceInv /\ NothingOld /\ NothingVanishes

LEMMA KeptInit == Init => KeptInv
BY EvidenceInit DEF Init, KeptInv, NothingOld, NothingVanishes

LEMMA KeptNext ==
  ASSUME KeptInv, [Next]_vars
  PROVE  (NothingOld /\ NothingVanishes)'
<1> USE DEF files, grant, mind, bounds, history, Over, PubOver, Holding, Claiming,
            Claimed, NothingOld, NothingVanishes, KeptInv, EvidenceInv, Evidence,
            Marked, Typed, TypeOK, HandSet
<1>1. ASSUME NEW p \in Publisher, Publish(p)
      PROVE  (NothingOld /\ NothingVanishes)'
  BY <1>1, WakeClaimsAssumption DEF Publish, Send
<1>2. ASSUME NEW p \in Publisher, RemoveBinding(p)
      PROVE  (NothingOld /\ NothingVanishes)'
  BY <1>2, WakeClaimsAssumption DEF RemoveBinding, Send, Evident
<1>3. ASSUME NEW p \in Publisher, WriteBinding(p)
      PROVE  (NothingOld /\ NothingVanishes)'
  BY <1>3, WakeClaimsAssumption DEF WriteBinding, Send
<1>4. ASSUME NEW p \in Publisher, LookForEntry(p)
      PROVE  (NothingOld /\ NothingVanishes)'
  BY <1>4, WakeClaimsAssumption DEF LookForEntry, Send
<1>5. ASSUME NEW p \in Publisher, CreateEntry(p)
      PROVE  (NothingOld /\ NothingVanishes)'
  BY <1>5, WakeClaimsAssumption DEF CreateEntry, Send
<1>6. ASSUME NEW w \in Watcher, Start(w)
      PROVE  (NothingOld /\ NothingVanishes)'
  BY <1>6, WakeClaimsAssumption DEF Start, Goto
<1>7. ASSUME NEW w \in Watcher, PruneOn(w)
      PROVE  (NothingOld /\ NothingVanishes)'
  BY <1>7, WakeClaimsAssumption DEF PruneOn, Goto
<1>8. ASSUME NEW w \in Watcher, BeginActivation(w)
      PROVE  (NothingOld /\ NothingVanishes)'
  BY <1>8, WakeClaimsAssumption DEF BeginActivation, Goto
<1>9. ASSUME NEW w \in Watcher, Activate(w)
      PROVE  (NothingOld /\ NothingVanishes)'
  BY <1>9, WakeClaimsAssumption DEF Activate, Goto
<1>10. ASSUME NEW w \in Watcher, RollBack(w)
      PROVE  (NothingOld /\ NothingVanishes)'
  BY <1>10, WakeClaimsAssumption DEF RollBack
<1>11. ASSUME NEW w \in Watcher, Poll(w)
      PROVE  (NothingOld /\ NothingVanishes)'
  BY <1>11, WakeClaimsAssumption DEF Poll, Goto
<1>12. ASSUME NEW w \in Watcher, Timeout(w)
      PROVE  (NothingOld /\ NothingVanishes)'
  BY <1>12, WakeClaimsAssumption DEF Timeout, Goto
<1>13. ASSUME NEW w \in Watcher, ReadInbox(w)
      PROVE  (NothingOld /\ NothingVanishes)'
  BY <1>13, WakeClaimsAssumption DEF ReadInbox, Goto
<1>14. ASSUME NEW w \in Watcher, Sleep(w)
      PROVE  (NothingOld /\ NothingVanishes)'
  BY <1>14, WakeClaimsAssumption DEF Sleep, Goto
<1>15. ASSUME NEW w \in Watcher, ClaimCheck(w)
      PROVE  (NothingOld /\ NothingVanishes)'
  BY <1>15, WakeClaimsAssumption DEF ClaimCheck, Goto, GiveUp, Entitled
<1>16. ASSUME NEW w \in Watcher, OpenClaim(w)
      PROVE  (NothingOld /\ NothingVanishes)'
  BY <1>16, WakeClaimsAssumption DEF OpenClaim, Goto, GiveUp
<1>17. ASSUME NEW w \in Watcher, Recheck(w)
      PROVE  (NothingOld /\ NothingVanishes)'
  BY <1>17, WakeClaimsAssumption DEF Recheck, Goto, Entitled
<1>18. ASSUME NEW w \in Watcher, Withdraw(w)
      PROVE  (NothingOld /\ NothingVanishes)'
  BY <1>18, WakeClaimsAssumption DEF Withdraw, Goto, GiveUp
<1>19. ASSUME NEW w \in Watcher, WriteClaim(w)
      PROVE  (NothingOld /\ NothingVanishes)'
  BY <1>19, WakeClaimsAssumption DEF WriteClaim, Goto
<1>20. ASSUME NEW w \in Watcher, MarkClaimed(w)
      PROVE  (NothingOld /\ NothingVanishes)'
  BY <1>20, WakeClaimsAssumption DEF MarkClaimed, Goto, Mark
<1>21. ASSUME NEW w \in Watcher, Unbind(w)
      PROVE  (NothingOld /\ NothingVanishes)'
  BY <1>21, WakeClaimsAssumption DEF Unbind, Goto
<1>22. ASSUME NEW w \in Watcher, Deliver(w)
      PROVE  (NothingOld /\ NothingVanishes)'
  BY <1>22, WakeClaimsAssumption DEF Deliver, Goto
<1>23. ASSUME NEW w \in Watcher, NEW e \in Entry, Terminate(w, e)
      PROVE  (NothingOld /\ NothingVanishes)'
  BY <1>23, WakeClaimsAssumption DEF Terminate, Mark
<1>24. ASSUME NEW w \in Watcher, NEW e \in Entry, Choose(w, e)
      PROVE  (NothingOld /\ NothingVanishes)'
  BY <1>24, WakeClaimsAssumption DEF Choose, Goto
<1>25. ASSUME NEW w \in Watcher, NEW e \in Entry, NEW k \in Kind, Prune(w, e, k)
      PROVE  (NothingOld /\ NothingVanishes)'
  BY <1>25, WakeClaimsAssumption DEF Prune, Expired
<1>26. ASSUME NEW e \in Entry, Recover(e)
      PROVE  (NothingOld /\ NothingVanishes)'
  BY <1>26, WakeClaimsAssumption DEF Recover, Mark
<1>27. CASE Crash
  <2>1. ASSUME NEW v \in Watcher, pc[v] \notin Over \cup {"idle"}, Goto(v, "crashed"), UNCHANGED pub
        PROVE  (NothingOld /\ NothingVanishes)'
    BY <1>27, <2>1 DEF Crash, Goto
  <2>2. ASSUME NEW p \in Publisher, pub[p] \notin PubOver \cup {"idle"}, Send(p, "crashed"), UNCHANGED pc
        PROVE  (NothingOld /\ NothingVanishes)'
    BY <1>27, <2>2 DEF Crash, Send
  <2> QED
    BY <1>27, <2>1, <2>2 DEF Crash
<1>28. CASE Week
  <2> weeks' # 0
    BY <1>28 DEF Week, KeptInv, EvidenceInv, Typed, TypeOK
  <2> QED
    BY DEF NothingOld, NothingVanishes
<1>29. CASE UNCHANGED vars
  BY <1>29, WakeClaimsAssumption DEF vars
<1> QED
  BY <1>1, <1>2, <1>3, <1>4, <1>5, <1>6, <1>7, <1>8, <1>9, <1>10, <1>11, <1>12, <1>13,
     <1>14, <1>15, <1>16, <1>17, <1>18, <1>19, <1>20, <1>21, <1>22, <1>23, <1>24,
     <1>25, <1>26, <1>27, <1>28, <1>29
  DEF Next, Publication, Watch

LEMMA KeptInductive == KeptInv /\ [Next]_vars => KeptInv'
BY EvidenceInductive, KeptNext DEF KeptInv

\* In the first week an entry that was accepted is in the inbox or has its marker,
\* wherever watchers and publishers die (claude-memory-wake.ts: recoverClaudeInboxBacklog).
THEOREM NothingIsLost == Spec => []NothingVanishes
<1>1. Init => KeptInv  BY KeptInit
<1>2. KeptInv => NothingVanishes  BY DEF KeptInv
<1> QED  BY <1>1, <1>2, KeptInductive, PTL DEF Spec

(* One delivery. *)

\* Entries that have been delivered and not been sent again since nothing reminded of them.
Done == {e \in Entry \ again : delivered[e] > 0}

\* Claimed and marked so that nobody takes either away while anyone is at work.
Lasting(e) == /\ claim[e] = "written" /\ <<e, "claim">> \notin old
              /\ Evident(e)

\* Nothing reminds of the entry, but it is not there either.
Gone(e) == claim[e] = "none" /\ e \notin terminal /\ e \notin inbox

\* What was delivered and is still in the inbox has its marker, and nobody claims it.
Covered == \A e \in Done :
  /\ e \in inbox => e \in terminal
  /\ claim[e] # "empty"

\* A watcher that does not know of the delivery cannot take the entry any more.
Unaware == \A w \in Watcher : \A e \in Done :
  /\ pc[w] = "list" /\ e \notin known[w] => Lasting(e) \/ Gone(e)
  /\ pc[w] \in {"choose", "check", "open"} \cup Claiming /\ e \in listed[w] \ known[w] => Lasting(e)
  /\ pc[w] \in {"check", "open"} /\ hand[w] = e => Lasting(e)
  /\ pc[w] \in Holding => hand[w] # e

\* Nor does a publisher that found no claim put it back without being noted.
Resent == \A p \in Publisher : pub[p] \in {"bind", "look", "create"} /\ EntryOf[p] \in Done =>
  claim[EntryOf[p]] = "none" \/ Lasting(EntryOf[p])


Once == Covered /\ Unaware /\ Resent /\ DeliveredOnce

OnceInv == ClaimInv /\ EvidenceInv /\ Once

LEMMA OnceInit == Init => OnceInv
BY ClaimInit, EvidenceInit
DEF Init, OnceInv, Once, Covered, Unaware, Resent, DeliveredOnce, Done, Holding,
    Claiming, Claimed

LEMMA OnceNext ==
  ASSUME OnceInv, [Next]_vars
  PROVE  Once'
<1> USE DEF files, grant, mind, bounds, history, Over, PubOver, Holding, Claiming,
            Claimed, Once, Covered, Unaware, Resent, DeliveredOnce, Done, Lasting,
            Gone, Evident, OnceInv, ClaimInv, EvidenceInv, Evidence, Typed, TypeOK,
            HandSet
<1>1. ASSUME NEW p \in Publisher, Publish(p)
      PROVE  Once'
  BY <1>1, WakeClaimsAssumption DEF Publish, Send
<1>2. ASSUME NEW p \in Publisher, RemoveBinding(p)
      PROVE  Once'
  BY <1>2, WakeClaimsAssumption DEF RemoveBinding, Send, Evident
<1>3. ASSUME NEW p \in Publisher, WriteBinding(p)
      PROVE  Once'
  BY <1>3, WakeClaimsAssumption DEF WriteBinding, Send
<1>4. ASSUME NEW p \in Publisher, LookForEntry(p)
      PROVE  Once'
  BY <1>4, WakeClaimsAssumption DEF LookForEntry, Send
<1>5. ASSUME NEW p \in Publisher, CreateEntry(p)
      PROVE  Once'
  <2> HIDE DEF Once, Covered, Unaware, Resent, DeliveredOnce, Done, Lasting, Gone,
               Evident,
               OnceInv, ClaimInv, EvidenceInv, Evidence, Typed, TypeOK, HandSet
  <2>1. CASE EntryOf[p] \in inbox /\ Send(p, "failed") /\ UNCHANGED <<inbox, old, again>>
    <3>1. UNCHANGED <<files, pc, mind, delivered, again>>
      BY <1>5, <2>1 DEF CreateEntry
    <3>2. (Covered /\ Unaware /\ DeliveredOnce)'
      BY <3>1
      DEF Covered, Unaware, DeliveredOnce, Done, Lasting, Gone, Evident, OnceInv, Once
    <3>3. Resent'
      BY <1>5, <2>1, <3>1
      DEF CreateEntry, Send, Resent, Done, Lasting, Evident, OnceInv, ClaimInv,
          EvidenceInv, Evidence, Typed, TypeOK, HandSet, Once
    <3> QED
      BY <3>2, <3>3 DEF Once
  <2>2. CASE /\ EntryOf[p] \notin inbox /\ inbox' = inbox \cup {EntryOf[p]}
             /\ old' = old \ {<<EntryOf[p], "inbox">>}
             /\ again' = IF delivered[EntryOf[p]] > 0 /\ claim[EntryOf[p]] = "none"
                            /\ EntryOf[p] \notin terminal
                         THEN again \cup {EntryOf[p]} ELSE again
             /\ Send(p, "pending")
    <3>1. Done' \subseteq Done
      BY <1>5, <2>2 DEF CreateEntry, Done
    <3>2. EntryOf[p] \in Done' => EntryOf[p] \in terminal
      BY <1>5, <2>2, <3>1, WakeClaimsAssumption
      DEF CreateEntry, Done, Resent, Lasting, Evident, OnceInv, Once,
          WakeClaimsAssumption
    <3>3. \A e \in Entry : Lasting(e) <=> Lasting(e)'
      BY <1>5, <2>2 DEF CreateEntry, Lasting, Evident
    <3>4. \A e \in Done' : Gone(e) => Gone(e)'
      BY <1>5, <2>2, <3>2 DEF CreateEntry, Gone, Done
    <3>5. Covered'
      BY <1>5, <2>2, <3>1, <3>2 DEF CreateEntry, Covered, OnceInv, Once
    <3>6. Unaware'
      BY <1>5, <2>2, <3>1, <3>3, <3>4 DEF CreateEntry, Unaware, Done, OnceInv, Once
    <3>7. Resent'
      BY <1>5, <2>2, <3>1, <3>3
      DEF CreateEntry, Send, Resent, Done, OnceInv, ClaimInv, EvidenceInv, Evidence,
          Typed, TypeOK, HandSet, Once
    <3>8. DeliveredOnce'
      BY <1>5, <2>2 DEF CreateEntry, DeliveredOnce, OnceInv, Once
    <3> QED
      BY <3>5, <3>6, <3>7, <3>8 DEF Once
  <2> QED
    BY <1>5, <2>1, <2>2 DEF CreateEntry
<1>6. ASSUME NEW w \in Watcher, Start(w)
      PROVE  Once'
  BY <1>6, WakeClaimsAssumption DEF Start, Goto
<1>7. ASSUME NEW w \in Watcher, PruneOn(w)
      PROVE  Once'
  BY <1>7, WakeClaimsAssumption DEF PruneOn, Goto
<1>8. ASSUME NEW w \in Watcher, BeginActivation(w)
      PROVE  Once'
  BY <1>8, WakeClaimsAssumption DEF BeginActivation, Goto
<1>9. ASSUME NEW w \in Watcher, Activate(w)
      PROVE  Once'
  BY <1>9, WakeClaimsAssumption DEF Activate, Goto
<1>10. ASSUME NEW w \in Watcher, RollBack(w)
      PROVE  Once'
  BY <1>10, WakeClaimsAssumption DEF RollBack
<1>11. ASSUME NEW w \in Watcher, Poll(w)
      PROVE  Once'
  BY <1>11, WakeClaimsAssumption DEF Poll, Goto
<1>12. ASSUME NEW w \in Watcher, Timeout(w)
      PROVE  Once'
  BY <1>12, WakeClaimsAssumption DEF Timeout, Goto
<1>13. ASSUME NEW w \in Watcher, ReadInbox(w)
      PROVE  Once'
  BY <1>13, WakeClaimsAssumption DEF ReadInbox, Goto
<1>14. ASSUME NEW w \in Watcher, Sleep(w)
      PROVE  Once'
  BY <1>14, WakeClaimsAssumption DEF Sleep, Goto
<1>15. ASSUME NEW w \in Watcher, ClaimCheck(w)
      PROVE  Once'
  BY <1>15, WakeClaimsAssumption DEF ClaimCheck, Goto, GiveUp, Entitled
<1>16. ASSUME NEW w \in Watcher, OpenClaim(w)
      PROVE  Once'
  <2> HIDE DEF Once, Covered, Unaware, Resent, DeliveredOnce, Done, Lasting, Gone,
               Evident,
               OnceInv, ClaimInv, EvidenceInv, Evidence, Typed, TypeOK, HandSet
  <2>1. CASE claim[hand[w]] # "none" /\ GiveUp(w) /\ UNCHANGED <<claim, old, held>>
    BY <1>16, <2>1
    DEF OpenClaim, Goto, GiveUp, Once, Covered, Unaware, Resent, DeliveredOnce, Done,
        Lasting, Gone, Evident, OnceInv, ClaimInv, EvidenceInv, Evidence, Typed,
        TypeOK, HandSet
  <2>2. CASE claim[hand[w]] = "none" /\ Goto(w, "recheck") /\ UNCHANGED mind
    <3>1. hand[w] \in Entry \ Done
      BY <1>16, <2>2
      DEF OpenClaim, Done, Lasting, Once, Unaware, OnceInv, ClaimInv, EvidenceInv,
          Evidence, Typed, TypeOK, HandSet
    <3>2. \A e \in Done : claim'[e] = claim[e] /\ (<<e, "claim">> \in old' <=> <<e,
    "claim">> \in old)
      BY <1>16, <2>2, <3>1
      DEF OpenClaim, GiveUp, Done, OnceInv, ClaimInv, EvidenceInv, Evidence, Typed,
          TypeOK, HandSet
    <3>3. \A e \in Entry : <<e, "terminal">> \in old' <=> <<e, "terminal">> \in old
      BY <1>16, <2>2 DEF OpenClaim, GiveUp
    <3>4. Done' = Done /\ \A e \in Done : (Lasting(e) <=> Lasting(e)') /\ (Gone(e) <=> Gone(e)')
      BY <1>16, <3>2, <3>3 DEF OpenClaim, Done, Lasting, Gone, Evident
    <3>5. (Covered /\ DeliveredOnce /\ Resent)'
      BY <1>16, <3>2, <3>4 DEF OpenClaim, Covered, DeliveredOnce, Resent, OnceInv, Once
    <3>6. Unaware'
      BY <1>16, <2>2, <3>1, <3>4
      DEF OpenClaim, Goto, Unaware, OnceInv, ClaimInv, EvidenceInv, Evidence, Typed,
          TypeOK, HandSet, Once
    <3> QED
      BY <3>5, <3>6 DEF Once
  <2> QED
    BY <1>16, <2>1, <2>2 DEF OpenClaim
<1>17. ASSUME NEW w \in Watcher, Recheck(w)
      PROVE  Once'
  BY <1>17, WakeClaimsAssumption DEF Recheck, Goto, Entitled
<1>18. ASSUME NEW w \in Watcher, Withdraw(w)
      PROVE  Once'
  BY <1>18, WakeClaimsAssumption DEF Withdraw, Goto, GiveUp
<1>19. ASSUME NEW w \in Watcher, WriteClaim(w)
      PROVE  Once'
  BY <1>19, WakeClaimsAssumption DEF WriteClaim, Goto
<1>20. ASSUME NEW w \in Watcher, MarkClaimed(w)
      PROVE  Once'
  BY <1>20, WakeClaimsAssumption DEF MarkClaimed, Goto, Mark
<1>21. ASSUME NEW w \in Watcher, Unbind(w)
      PROVE  Once'
  BY <1>21, WakeClaimsAssumption DEF Unbind, Goto
<1>22. ASSUME NEW w \in Watcher, Deliver(w)
      PROVE  Once'
  <2> HIDE DEF Once, Covered, Unaware, Resent, DeliveredOnce, Done, Lasting, Gone,
               Evident,
               OnceInv, ClaimInv, EvidenceInv, Evidence, Typed, TypeOK, HandSet
  <2>1. PICK d \in Entry : hand[w] = d /\ UNCHANGED hand /\ pc[w] \in Holding
    BY <1>22
    DEF Deliver, OnceInv, ClaimInv, EvidenceInv, Evidence, Typed, TypeOK, HandSet
  <2>2. Lasting(d)
    BY <1>22, <2>1
    DEF Deliver, Lasting, Evident, FreshClaim, ClaimHeld, Marked, Unseen, OnceInv,
        ClaimInv, EvidenceInv, Evidence
  <2>3. d \notin Done
    BY <2>1 DEF Unaware, OnceInv, Once
  <2>4. \A v \in Watcher : pc[v] \in Holding /\ hand[v] = d => v = w
    BY <2>1 DEF ClaimHeld, OnceInv, ClaimInv
  <2>5. Done' \subseteq Done \cup {d} /\ d \in Entry /\ delivered'[d] = delivered[d] + 1
    BY <1>22, <2>1
    DEF Deliver, Done, OnceInv, ClaimInv, EvidenceInv, Evidence, Typed, TypeOK, HandSet
  <2>6. \A e \in Entry : Lasting(e) => Lasting(e)'
    BY <1>22 DEF Deliver, Lasting, Evident
  <2>7. \A e \in Entry : Gone(e) => Gone(e)'
    BY <1>22 DEF Deliver, Gone
  <2>8. Covered'
    BY <1>22, <2>2, <2>5 DEF Deliver, Covered, Lasting, Evident, OnceInv, Once
  <2>9. Unaware'
    <3>1. ASSUME NEW v \in Watcher, NEW e \in Done, v # w
          PROVE  /\ pc'[v] = "list" /\ e \notin known'[v] => Lasting(e)' \/ Gone(e)'
                 /\ pc'[v] \in {"choose", "check", "open"} \cup Claiming /\ e \in listed'[v] \ known'[v]
                      => Lasting(e)'
                 /\ pc'[v] \in {"check", "open"} /\ hand'[v] = e => Lasting(e)'
                 /\ pc'[v] \in Holding => hand'[v] # e
      <4> pc'[v] = pc[v] /\ hand'[v] = hand[v] /\ known' = known /\ listed' = listed /\ e \in Entry
        BY <1>22, <3>1
        DEF Deliver, Goto, Done, OnceInv, ClaimInv, EvidenceInv, Evidence, Typed,
            TypeOK, HandSet
      <4> QED
        BY <3>1, <2>6, <2>7 DEF Unaware, OnceInv, Once
    <3>2. ASSUME NEW v \in Watcher, v # w, pc'[v] \in Holding
          PROVE  hand'[v] # d
      BY <1>22, <2>4, <3>2
      DEF Deliver, Goto, OnceInv, ClaimInv, EvidenceInv, Evidence, Typed, TypeOK,
          HandSet
    <3>3. Lasting(d)'
      BY <2>1, <2>2, <2>6
    <3>4. pc'[w] = "delivered"
      BY <1>22
      DEF Deliver, Goto, OnceInv, ClaimInv, EvidenceInv, Evidence, Typed, TypeOK,
          HandSet
    <3>5. Done' \subseteq Done \cup {d}
      BY <2>5
    <3> QED
      BY <3>1, <3>2, <3>3, <3>4, <3>5 DEF Unaware
  <2>10. Resent'
    BY <1>22, <2>1, <2>2, <2>5, <2>6, WakeClaimsAssumption
    DEF Deliver, Resent, WakeClaimsAssumption, OnceInv, Once
  <2>11. DeliveredOnce'
    BY <1>22, <2>1, <2>3, <2>5
    DEF Deliver, DeliveredOnce, Done, OnceInv, ClaimInv, EvidenceInv, Evidence, Typed,
        TypeOK, HandSet, Once
  <2> QED
    BY <2>8, <2>9, <2>10, <2>11 DEF Once
<1>23. ASSUME NEW w \in Watcher, NEW e \in Entry, Terminate(w, e)
      PROVE  Once'
  BY <1>23, WakeClaimsAssumption DEF Terminate, Mark
<1>24. ASSUME NEW w \in Watcher, NEW e \in Entry, Choose(w, e)
      PROVE  Once'
  <2> HIDE DEF Once, Covered, Unaware, Resent, DeliveredOnce, Done, Lasting, Gone,
               Evident,
               OnceInv, ClaimInv, EvidenceInv, Evidence, Typed, TypeOK, HandSet
  <2>1. CASE e \notin bound /\ Goto(w, "denied") /\ UNCHANGED <<hand, known, skip>>
    BY <1>24, <2>1
    DEF Choose, Goto, Unaware, Covered, Resent, DeliveredOnce, Done, Lasting, Gone,
        Evident, OnceInv, ClaimInv, EvidenceInv, Evidence, Typed, TypeOK, HandSet, Once
  <2>2. CASE known' = [known EXCEPT ![w] = @ \cup {e}] /\ UNCHANGED <<pc, hand>>
    BY <1>24, <2>2
    DEF Choose, Unaware, Covered, Resent, DeliveredOnce, Done, Lasting, Gone, Evident,
        OnceInv, ClaimInv, EvidenceInv, Evidence, Typed, TypeOK, HandSet, Once
  <2>3. CASE hand' = [hand EXCEPT ![w] = e] /\ Goto(w, "check") /\ UNCHANGED <<known, skip>>
    <3>1. UNCHANGED <<files, pub, known, listed, delivered, again>>
      BY <1>24, <2>3 DEF Choose
    <3>2. Done' = Done /\ \A f \in Entry : (Lasting(f) <=> Lasting(f)') /\ (Gone(f) <=> Gone(f)')
      BY <3>1 DEF Done, Lasting, Gone, Evident
    <3>3. e \in Done => Lasting(e)
      BY <1>24 DEF Choose, Unaware, OnceInv, Once
    <3>4. (Covered /\ Resent /\ DeliveredOnce)'
      BY <3>1, <3>2 DEF Covered, Resent, DeliveredOnce, Lasting, Evident, OnceInv, Once
    <3>5. Unaware'
      BY <1>24, <2>3, <3>1, <3>2, <3>3
      DEF Choose, Goto, Unaware, Done, OnceInv, ClaimInv, EvidenceInv, Evidence, Typed,
          TypeOK, HandSet, Once
    <3> QED
      BY <3>4, <3>5 DEF Once
  <2> QED
    BY <1>24, <2>1, <2>2, <2>3 DEF Choose
<1>25. ASSUME NEW w \in Watcher, NEW e \in Entry, NEW k \in Kind, Prune(w, e, k)
      PROVE  Once'
  BY <1>25, WakeClaimsAssumption DEF Prune, Expired
<1>26. ASSUME NEW e \in Entry, Recover(e)
      PROVE  Once'
  BY <1>26, WakeClaimsAssumption DEF Recover, Mark
<1>27. CASE Crash
  <2>1. ASSUME NEW v \in Watcher, pc[v] \notin Over \cup {"idle"}, Goto(v, "crashed"), UNCHANGED pub
        PROVE  Once'
    BY <1>27, <2>1 DEF Crash, Goto
  <2>2. ASSUME NEW p \in Publisher, pub[p] \notin PubOver \cup {"idle"}, Send(p, "crashed"), UNCHANGED pc
        PROVE  Once'
    BY <1>27, <2>2 DEF Crash, Send
  <2> QED
    BY <1>27, <2>1, <2>2 DEF Crash
<1>28. CASE Week
  <2> HIDE DEF Once, Covered, Unaware, Resent, DeliveredOnce, Done, Lasting, Gone,
               Evident,
               OnceInv, ClaimInv, EvidenceInv, Evidence, Typed, TypeOK, HandSet
  <2>1. \A w \in Watcher : pc'[w] \in Over \cup {"idle"}
    BY <1>28 DEF Week
  <2>2. \A p \in Publisher : pub'[p] \in PubOver \cup {"idle"}
    BY <1>28 DEF Week
  <2>3. UNCHANGED <<inbox, claim, terminal, delivered, again>>
    BY <1>28 DEF Week
  <2>4. (Covered /\ DeliveredOnce)'
    BY <2>3 DEF Covered, DeliveredOnce, Done, OnceInv, Once
  <2>5. Unaware'
    BY <2>1 DEF Unaware
  <2>6. Resent'
    BY <2>2 DEF Resent
  <2> QED
    BY <2>4, <2>5, <2>6 DEF Once
<1>29. CASE UNCHANGED vars
  BY <1>29, WakeClaimsAssumption DEF vars
<1> QED
  BY <1>1, <1>2, <1>3, <1>4, <1>5, <1>6, <1>7, <1>8, <1>9, <1>10, <1>11, <1>12, <1>13,
     <1>14, <1>15, <1>16, <1>17, <1>18, <1>19, <1>20, <1>21, <1>22, <1>23, <1>24,
     <1>25, <1>26, <1>27, <1>28, <1>29
  DEF Next, Publication, Watch

LEMMA OnceInductive == OnceInv /\ [Next]_vars => OnceInv'
BY ClaimInductive, EvidenceInductive, OnceNext DEF OnceInv

\* However many watchers and publishers there are, whichever of them die, and however
\* often the retention sweeps, an entry is delivered once, unless it was sent again when
\* nothing reminded of it (claude-memory-wake.ts: waitForClaudeMemory, pruneRuntimeFiles).
THEOREM OneDelivery == Spec => []DeliveredOnce
<1>1. Init => OnceInv  BY OnceInit
<1>2. OnceInv => DeliveredOnce  BY DEF OnceInv, Once
<1> QED  BY <1>1, <1>2, OnceInductive, PTL DEF Spec

(* The inbox implements WakeInbox. *)

Sent == {EntryOf[p] : p \in {q \in Publisher : pub[q] = "pending"}}
Claimants(e) == {w \in Watcher : hand[w] = e /\ pc[w] \in Claiming \cup Claimed}

\* What is in the inbox was accepted, what a watcher has found there as well, and what it
\* has chosen is for its session.
SentInv ==
  /\ inbox \subseteq Sent
  /\ \A w \in Watcher : listed[w] \subseteq Sent
  /\ \A w \in Watcher : pc[w] \in {"check", "open"} => hand[w] \in Sent /\ w \in For[hand[w]]

LEMMA SentInit == Init => SentInv
BY DEF Init, SentInv

\* A publisher that goes on to a step that is not the acceptance accepts nothing, and one
\* that ends there accepts its entry.
LEMMA SentStep ==
  ASSUME Typed, NEW p \in Publisher, NEW l, Send(p, l), pub[p] # "pending"
  PROVE  Sent' = IF l = "pending" THEN Sent \cup {EntryOf[p]} ELSE Sent
<1>1. pub'[p] = l /\ \A q \in Publisher : q # p => pub'[q] = pub[q]
  BY DEF Typed, TypeOK, Send
<1> QED  BY <1>1 DEF Sent

LEMMA SentSame == ASSUME UNCHANGED pub PROVE Sent' = Sent
BY DEF Sent

LEMMA GotoAt ==
  ASSUME Typed, NEW w \in Watcher, NEW l, Goto(w, l)
  PROVE  pc'[w] = l /\ \A v \in Watcher : v # w => pc'[v] = pc[v]
BY DEF Typed, TypeOK, Goto

\* Steps of publishers and of the recovery at SessionStart.
LEMMA SentPublication ==
  ASSUME Typed, SentInv, NEW p \in Publisher, Publication(p)
  PROVE  SentInv'
<1>1. UNCHANGED <<pc, listed, hand>> /\ Sent \subseteq Sent'
  BY SentStep
  DEF Publication, Publish, RemoveBinding, WriteBinding, LookForEntry, CreateEntry, mind, Send
<1>2. inbox' \subseteq Sent'
  <2>1. CASE UNCHANGED inbox  BY <1>1, <2>1 DEF SentInv
  <2>2. CASE ~UNCHANGED inbox
    <3>1. inbox' = inbox \cup {EntryOf[p]} /\ Send(p, "pending") /\ pub[p] # "pending"
      BY <2>2 DEF Publication, Publish, RemoveBinding, WriteBinding, LookForEntry, CreateEntry,
        files
    <3> QED  BY <1>1, <3>1, SentStep DEF SentInv
  <2> QED  BY <2>1, <2>2
<1> QED  BY <1>1, <1>2 DEF SentInv

\* A watcher looks only for what is in the inbox and keeps the entry it has chosen.
LEMMA SentWatch ==
  ASSUME Typed, SentInv, NEW w \in Watcher, Watch(w)
  PROVE  SentInv'
<1> USE DEF files, mind
<1>1. Sent' = Sent
  BY SentSame
  DEF Watch, Start, PruneOn, BeginActivation, Activate, RollBack, Poll, Timeout, ReadInbox,
      Sleep, ClaimCheck, OpenClaim, Recheck, Withdraw, WriteClaim, MarkClaimed, Unbind, Deliver,
      Terminate, Choose, Prune
<1>2. inbox' \subseteq inbox
  BY DEF Watch, Start, PruneOn, BeginActivation, Activate, RollBack, Poll, Timeout, ReadInbox,
      Sleep, ClaimCheck, OpenClaim, Recheck, Withdraw, WriteClaim, MarkClaimed, Unbind, Deliver,
      Terminate, Choose, Prune
<1>3. \A v \in Watcher : listed'[v] \in {listed[v], inbox}
  <2>1. UNCHANGED listed \/ listed' = [listed EXCEPT ![w] = inbox]
    BY DEF Watch, Start, PruneOn, BeginActivation, Activate, RollBack, Poll, Timeout, ReadInbox,
      Sleep, ClaimCheck, OpenClaim, Recheck, Withdraw, WriteClaim, MarkClaimed, Unbind, Deliver,
      Terminate, Choose, Prune, GiveUp
  <2> QED  BY <2>1 DEF Typed, TypeOK
<1>4. ASSUME NEW v \in Watcher, pc'[v] \in {"check", "open"}
      PROVE  hand'[v] \in Sent /\ v \in For[hand'[v]]
  <2>1. CASE v # w
    <3>1. pc'[v] = pc[v] /\ hand'[v] = hand[v]
      <4>1. UNCHANGED pc \/ \E l : Goto(w, l)
        BY DEF Watch, Start, PruneOn, BeginActivation, Activate, RollBack, Poll, Timeout,
          ReadInbox, Sleep, ClaimCheck, OpenClaim, Recheck, Withdraw, WriteClaim, MarkClaimed,
          Unbind, Deliver, Terminate, Choose, Prune, GiveUp
      <4>2. UNCHANGED hand \/ \E x : hand' = [hand EXCEPT ![w] = x]
        BY DEF Watch, Start, PruneOn, BeginActivation, Activate, RollBack, Poll, Timeout,
          ReadInbox, Sleep, ClaimCheck, OpenClaim, Recheck, Withdraw, WriteClaim, MarkClaimed,
          Unbind, Deliver, Terminate, Choose, Prune, GiveUp
      <4> QED  BY <2>1, <4>1, <4>2, GotoAt DEF Typed, TypeOK
    <3> QED  BY <1>4, <3>1 DEF SentInv
  <2>2. CASE v = w
    <3>1. CASE pc[w] \in {"check", "open"} /\ UNCHANGED hand  BY <2>2, <3>1 DEF SentInv
    <3>2. CASE \E e \in Entry : Choose(w, e) /\ hand' = [hand EXCEPT ![w] = e] /\ w \in For[e]
      BY <2>2, <3>2 DEF Choose, SentInv, Typed, TypeOK
    <3>3. ASSUME NEW l, Goto(w, l), l \notin {"check", "open"} PROVE FALSE
      BY <1>4, <2>2, <3>3, GotoAt
    <3>4. CASE UNCHANGED <<pc, hand>>  BY <1>4, <2>2, <3>4 DEF SentInv
    <3>5. CASE ClaimCheck(w) \/ OpenClaim(w)
      BY <3>1, <3>3, <3>5 DEF ClaimCheck, OpenClaim, GiveUp
    <3>6. CASE \E e \in Entry : Choose(w, e)
      BY <3>2, <3>3, <3>4, <3>6 DEF Choose
    <3>7. CASE \E e \in Entry : Terminate(w, e) \/ \E k \in Kind : Prune(w, e, k)
      BY <3>4, <3>7 DEF Terminate, Prune
    <3>8. CASE Start(w) \/ PruneOn(w) \/ BeginActivation(w) \/ Activate(w) \/ RollBack(w)
      BY <3>3, <3>4, <3>8 DEF Start, PruneOn, BeginActivation, Activate, RollBack
    <3>9. CASE Poll(w) \/ Timeout(w) \/ ReadInbox(w) \/ Sleep(w) \/ Recheck(w)
      BY <3>3, <3>9 DEF Poll, Timeout, ReadInbox, Sleep, Recheck
    <3>10. CASE Withdraw(w) \/ WriteClaim(w) \/ MarkClaimed(w) \/ Unbind(w) \/ Deliver(w)
      BY <3>3, <3>10 DEF Withdraw, WriteClaim, MarkClaimed, Unbind, Deliver, GiveUp
    <3> QED  BY <3>5, <3>6, <3>7, <3>8, <3>9, <3>10 DEF Watch
  <2> QED  BY <2>1, <2>2
<1> QED  BY <1>1, <1>2, <1>3, <1>4 DEF SentInv

LEMMA SentNext ==
  ASSUME Typed, SentInv, [Next]_vars
  PROVE  SentInv'
<1> USE DEF files, mind
<1>1. ASSUME NEW e \in Entry, Recover(e) PROVE SentInv'
  BY <1>1, SentSame DEF Recover, Mark, SentInv
<1>2. CASE Crash
  <2>1. ASSUME NEW v \in Watcher, Goto(v, "crashed"), UNCHANGED pub PROVE SentInv'
    BY <1>2, <2>1, SentSame, GotoAt DEF Crash, SentInv
  <2>2. ASSUME NEW p \in Publisher, pub[p] \notin PubOver, Send(p, "crashed"), UNCHANGED pc
        PROVE  SentInv'
    BY <1>2, <2>2, SentStep DEF Crash, SentInv, PubOver
  <2> QED  BY <1>2, <2>1, <2>2 DEF Crash
<1>3. CASE Week  BY <1>3, SentSame DEF Week, SentInv
<1>4. CASE UNCHANGED vars  BY <1>4, SentSame DEF vars, SentInv
<1> QED  BY <1>1, <1>2, <1>3, <1>4, SentPublication, SentWatch DEF Next

\* A step that accepts nothing and changes no claim is none of the inbox.
LEMMA InboxStutters ==
  ASSUME Sent' = Sent, UNCHANGED <<again, delivered>>,
         \A e \in Entry : Claimants(e)' = Claimants(e)
  PROVE  UNCHANGED Mailbox!vars
BY DEF Mailbox!vars, Sent, Claimants

\* Claims are as they were if whoever claims claims the same.
LEMMA SameClaimants ==
  ASSUME \A v \in Watcher : /\ pc'[v] \in Holding <=> pc[v] \in Holding
                            /\ pc[v] \in Holding => hand'[v] = hand[v]
  PROVE  \A e \in Entry : Claimants(e)' = Claimants(e)
BY DEF Claimants, Holding

\* A claim that ends was its entry's only one.
LEMMA ClaimantsEnd ==
  ASSUME Typed, ClaimHeld, NEW w \in Watcher, pc[w] \in Holding, NEW l, l \notin Holding, Goto(w, l),
         \A v \in Watcher : v # w => hand'[v] = hand[v]
  PROVE  /\ hand[w] \in Entry /\ w \in Claimants(hand[w])
         /\ \A e \in Entry : Claimants(e)' = IF e = hand[w] THEN {} ELSE Claimants(e)
<1>1. hand[w] \in Entry /\ w \in Claimants(hand[w])
  BY DEF Typed, HandSet, Claimants, Holding
<1>2. pc'[w] \notin Holding /\ \A v \in Watcher : v # w => pc'[v] = pc[v]
  BY GotoAt
<1>3. \A v \in Watcher : v # w /\ pc[v] \in Holding => hand[v] # hand[w]
  BY DEF ClaimHeld, Holding
<1>4. ASSUME NEW e \in Entry PROVE Claimants(e)' = IF e = hand[w] THEN {} ELSE Claimants(e)
  <2>1. \A v \in Watcher : v \in Claimants(e)' <=> v # w /\ v \in Claimants(e)
    BY <1>2 DEF Claimants, Holding
  <2>2. \A v \in Watcher : v \in Claimants(hand[w]) => v = w
    BY <1>3 DEF Claimants, Holding
  <2>3. Claimants(e) \subseteq Watcher /\ Claimants(e)' \subseteq Watcher
    BY DEF Claimants
  <2>4. e # hand[w] => w \notin Claimants(e)
    BY DEF Claimants
  <2> QED  BY <2>1, <2>2, <2>3, <2>4
<1> QED  BY <1>1, <1>4

LEMMA InboxClaimStep ==
  ASSUME NEW w \in Watcher, NEW e \in Entry,
         Mailbox!Claim(w, e) \/ Mailbox!Withdraw(w, e) \/ Mailbox!Deliver(w, e)
  PROVE  Mailbox!Next
BY DEF Mailbox!Next

LEMMA InboxWithdraws ==
  ASSUME Typed, ClaimHeld, NEW w \in Watcher, pc[w] \in Holding, NEW l, l \notin Holding, Goto(w, l),
         \A v \in Watcher : v # w => hand'[v] = hand[v],
         Sent' = Sent, UNCHANGED <<again, delivered>>
  PROVE  Mailbox!Next
<1>1. /\ hand[w] \in Entry /\ w \in Claimants(hand[w])
      /\ \A e \in Entry : Claimants(e)' = IF e = hand[w] THEN {} ELSE Claimants(e)
  BY ClaimantsEnd
<1>2. PICK e \in Entry : e = hand[w]
  BY <1>1
<1>3. Mailbox!Withdraw(w, e)
  BY <1>1, <1>2 DEF Mailbox!Withdraw, Sent, Claimants
<1> QED  BY <1>3, InboxClaimStep

\* An entry is accepted by the publisher that finds it or puts it there.
LEMMA InboxPublication ==
  ASSUME Typed, NEW p \in Publisher, Publication(p)
  PROVE  Mailbox!Accept(EntryOf[p]) \/ UNCHANGED Mailbox!vars
<1> USE DEF files, mind, history
<1>1. UNCHANGED <<pc, hand, delivered>>
  BY DEF Publication, Publish, RemoveBinding, WriteBinding, LookForEntry, CreateEntry
<1>2. \A e \in Entry : Claimants(e)' = Claimants(e)
  BY <1>1 DEF Claimants
<1>3. CASE UNCHANGED again /\ \E l : l # "pending" /\ Send(p, l) /\ pub[p] # "pending"
  BY <1>1, <1>2, <1>3, SentStep, InboxStutters
<1>4. CASE /\ again' = again \/ (delivered[EntryOf[p]] > 0 /\ again' = again \cup {EntryOf[p]})
           /\ Send(p, "pending") /\ pub[p] # "pending"
  <2>1. Sent' = Sent \cup {EntryOf[p]}
    BY <1>4, SentStep
  <2> QED  BY <1>1, <1>2, <1>4, <2>1 DEF Mailbox!Accept, Sent, Claimants
<1>5. CASE Publish(p) \/ RemoveBinding(p) \/ WriteBinding(p)
  BY <1>3, <1>5 DEF Publish, RemoveBinding, WriteBinding
<1>6. CASE LookForEntry(p)
  BY <1>3, <1>4, <1>6 DEF LookForEntry
<1>7. CASE CreateEntry(p)
  BY <1>3, <1>4, <1>7 DEF CreateEntry
<1> QED  BY <1>5, <1>6, <1>7 DEF Publication

\* A claim file that is created is the claim of an accepted entry that nobody claims and
\* that has not been delivered.
LEMMA InboxOpens ==
  ASSUME OnceInv, SentInv, NEW w \in Watcher, OpenClaim(w), claim[hand[w]] = "none",
         Goto(w, "recheck"), UNCHANGED mind
  PROVE  Mailbox!Next
<1>1. Typed /\ ClaimHeld
  BY DEF OnceInv, ClaimInv
<1>2. pc[w] = "open" /\ UNCHANGED <<hand, pub, again, delivered>>
  BY DEF OpenClaim, mind
<1>3. hand[w] \in Entry /\ hand[w] \in Sent /\ w \in For[hand[w]]
  BY <1>1, <1>2 DEF SentInv, Typed, HandSet
<1>4. \A v \in Watcher : pc[v] \in Holding => hand[v] # hand[w]
  BY <1>1 DEF ClaimHeld, Holding
<1>5. delivered[hand[w]] = 0 \/ hand[w] \in again
  <2>1. hand[w] \notin Done
    BY <1>2 DEF OnceInv, Once, Unaware, Lasting
  <2> QED  BY <1>1, <1>3, <2>1 DEF Done, Typed, TypeOK
<1>6. pc'[w] = "recheck" /\ \A v \in Watcher : v # w => pc'[v] = pc[v]
  BY <1>1, GotoAt
<1>7. Claimants(hand[w]) = {}
  BY <1>4 DEF Claimants, Holding
<1>8. ASSUME NEW e \in Entry PROVE Claimants(e)' = IF e = hand[w] THEN {w} ELSE Claimants(e)
  <2>1. \A v \in Watcher : v \in Claimants(e)' <=> (v = w /\ e = hand[w]) \/ v \in Claimants(e)
    <3>1. w \notin Claimants(e)
      BY <1>2 DEF Claimants, Claiming, Claimed
    <3> QED  BY <1>2, <1>6, <3>1 DEF Claimants, Claiming, Claimed
  <2>2. Claimants(e) \subseteq Watcher /\ Claimants(e)' \subseteq Watcher
    BY DEF Claimants
  <2> QED  BY <1>7, <2>1, <2>2
<1>9. Sent' = Sent
  BY <1>2, SentSame
<1>10. PICK e \in Entry : e = hand[w]
  BY <1>3
<1>11. Mailbox!Claim(w, e)
  BY <1>2, <1>3, <1>5, <1>7, <1>8, <1>9, <1>10 DEF Mailbox!Claim, Sent, Claimants
<1> QED  BY <1>11, InboxClaimStep

LEMMA InboxDelivers ==
  ASSUME Typed, ClaimHeld, NEW w \in Watcher, Deliver(w)
  PROVE  Mailbox!Next
<1>1. /\ pc[w] \in Holding /\ "delivered" \notin Holding /\ Goto(w, "delivered")
      /\ UNCHANGED <<hand, again, pub>>
      /\ delivered' = [delivered EXCEPT ![hand[w]] = @ + 1]
  BY DEF Deliver, Holding, Claiming, Claimed, mind
<1>2. /\ hand[w] \in Entry /\ w \in Claimants(hand[w])
      /\ \A e \in Entry : Claimants(e)' = IF e = hand[w] THEN {} ELSE Claimants(e)
  BY <1>1, ClaimantsEnd
<1>3. Sent' = Sent
  BY <1>1, SentSame
<1>4. PICK e \in Entry : e = hand[w]
  BY <1>2
<1>5. Mailbox!Deliver(w, e)
  BY <1>1, <1>2, <1>3, <1>4 DEF Mailbox!Deliver, Sent, Claimants
<1> QED  BY <1>5, InboxClaimStep

\* What else a watcher does claims nothing and gives up no claim.
LEMMA InboxWatch ==
  ASSUME OnceInv, SentInv, NEW w \in Watcher, Watch(w)
  PROVE  Mailbox!Next \/ UNCHANGED Mailbox!vars
<1> USE DEF files, mind, history
<1>1. Typed /\ ClaimHeld
  BY DEF OnceInv, ClaimInv
<1>2. Sent' = Sent
  BY SentSame
  DEF Watch, Start, PruneOn, BeginActivation, Activate, RollBack, Poll, Timeout, ReadInbox,
      Sleep, ClaimCheck, OpenClaim, Recheck, Withdraw, WriteClaim, MarkClaimed, Unbind, Deliver,
      Terminate, Choose, Prune
<1>3. ASSUME UNCHANGED <<again, delivered>>, UNCHANGED <<pc, hand>>
      PROVE  UNCHANGED Mailbox!vars
  BY <1>2, <1>3, SameClaimants, InboxStutters
<1>4. ASSUME UNCHANGED <<again, delivered>>, NEW l, Goto(w, l), pc[w] \notin Holding, l \notin Holding,
             UNCHANGED hand \/ \E x : hand' = [hand EXCEPT ![w] = x]
      PROVE  UNCHANGED Mailbox!vars
  <2>1. \A v \in Watcher : v # w => hand'[v] = hand[v]
    BY <1>1, <1>4 DEF Typed, TypeOK
  <2> QED  BY <1>1, <1>2, <1>4, <2>1, GotoAt, SameClaimants, InboxStutters
<1>5. ASSUME UNCHANGED <<again, delivered, hand>>, NEW l, Goto(w, l), pc[w] \in Holding, l \in Holding
      PROVE  UNCHANGED Mailbox!vars
  BY <1>1, <1>2, <1>5, GotoAt, SameClaimants, InboxStutters
<1>6. CASE Start(w) \/ PruneOn(w) \/ BeginActivation(w) \/ Activate(w) \/ RollBack(w)
  BY <1>3, <1>4, <1>6
  DEF Start, PruneOn, BeginActivation, Activate, RollBack, Holding, Claiming, Claimed
<1>7. CASE Poll(w) \/ Timeout(w) \/ ReadInbox(w) \/ Sleep(w) \/ ClaimCheck(w)
  BY <1>4, <1>7
  DEF Poll, Timeout, ReadInbox, Sleep, ClaimCheck, GiveUp, Holding, Claiming, Claimed
<1>8. CASE \E e \in Entry : Terminate(w, e) \/ Choose(w, e) \/ \E k \in Kind : Prune(w, e, k)
  BY <1>3, <1>4, <1>8 DEF Terminate, Choose, Prune, Holding, Claiming, Claimed
<1>9. CASE OpenClaim(w)
  <2>1. CASE claim[hand[w]] = "none" /\ Goto(w, "recheck") /\ UNCHANGED mind
    BY <1>9, <2>1, InboxOpens
  <2>2. CASE GiveUp(w)
    BY <1>4, <1>9, <2>2 DEF OpenClaim, GiveUp, Holding, Claiming, Claimed
  <2> QED  BY <1>9, <2>1, <2>2 DEF OpenClaim
<1>10. CASE Recheck(w) \/ WriteClaim(w) \/ MarkClaimed(w) \/ Unbind(w)
  BY <1>5, <1>10 DEF Recheck, WriteClaim, MarkClaimed, Unbind, Holding, Claiming, Claimed
<1>11. CASE Withdraw(w)
  <2>1. /\ pc[w] \in Holding /\ "choose" \notin Holding /\ Goto(w, "choose")
        /\ UNCHANGED <<again, delivered>>
        /\ hand' = [hand EXCEPT ![w] = None]
    BY <1>11 DEF Withdraw, GiveUp, Holding, Claiming, Claimed
  <2>2. \A v \in Watcher : v # w => hand'[v] = hand[v]
    BY <1>1, <2>1 DEF Typed, TypeOK
  <2> QED  BY <1>1, <1>2, <2>1, <2>2, InboxWithdraws
<1>12. CASE Deliver(w)
  BY <1>1, <1>12, InboxDelivers
<1> QED  BY <1>6, <1>7, <1>8, <1>9, <1>10, <1>11, <1>12 DEF Watch

LEMMA InboxInit == Init => Mailbox!Init
BY DEF Init, Mailbox!Init, Claiming, Claimed

LEMMA InboxNext ==
  ASSUME OnceInv, SentInv, [Next]_vars
  PROVE  [Mailbox!Next]_(Mailbox!vars)
<1> USE DEF files, mind, history
<1>1. Typed /\ ClaimHeld
  BY DEF OnceInv, ClaimInv
<1>2. ASSUME NEW p \in Publisher, Publication(p) PROVE Mailbox!Next \/ UNCHANGED Mailbox!vars
  <2>1. EntryOf[p] \in Entry
    BY WakeClaimsAssumption DEF WakeClaimsAssumption
  <2> QED  BY <1>1, <1>2, <2>1, InboxPublication DEF Mailbox!Next
<1>3. ASSUME NEW e \in Entry, Recover(e) PROVE UNCHANGED Mailbox!vars
  BY <1>3, SentSame, SameClaimants, InboxStutters DEF Recover
<1>4. CASE Crash
  <2>1. ASSUME NEW v \in Watcher, Goto(v, "crashed"), UNCHANGED pub
        PROVE  Mailbox!Next \/ UNCHANGED Mailbox!vars
    <3>1. UNCHANGED <<hand, again, delivered>> /\ Sent' = Sent /\ "crashed" \notin Holding
      BY <1>4, <2>1, SentSame DEF Crash, Holding, Claiming, Claimed
    <3>2. CASE pc[v] \in Holding
      BY <1>1, <2>1, <3>1, <3>2, InboxWithdraws
    <3>3. CASE pc[v] \notin Holding
      BY <1>1, <2>1, <3>1, <3>3, GotoAt, SameClaimants, InboxStutters
    <3> QED  BY <3>2, <3>3
  <2>2. ASSUME NEW p \in Publisher, pub[p] \notin PubOver, Send(p, "crashed"), UNCHANGED pc
        PROVE  UNCHANGED Mailbox!vars
    BY <1>1, <1>4, <2>2, SentStep, SameClaimants, InboxStutters DEF Crash, PubOver
  <2> QED  BY <1>4, <2>1, <2>2 DEF Crash
<1>5. CASE Week  BY <1>5, SentSame, SameClaimants, InboxStutters DEF Week
<1>6. CASE UNCHANGED vars  BY <1>6, SentSame, SameClaimants, InboxStutters DEF vars
<1> QED  BY <1>2, <1>3, <1>4, <1>5, <1>6, InboxWatch DEF Next

\* Publishers, watchers, their files and what the retention and the deaths leave of them
\* implement the inbox of WakeInbox, however many there are (claude-memory-wake.ts:
\* publishClaudeInboxEntry, claim, waitForClaudeMemory, pruneRuntimeFiles).
THEOREM ImplementsInbox == Spec => InboxSpec
<1>1. Init => OnceInv /\ SentInv /\ Mailbox!Init  BY OnceInit, SentInit, InboxInit
<1>2. OnceInv /\ SentInv /\ [Next]_vars => OnceInv' /\ SentInv'
  BY OnceInductive, SentNext DEF OnceInv, ClaimInv
<1>3. OnceInv /\ SentInv /\ [Next]_vars => [Mailbox!Next]_(Mailbox!vars)  BY InboxNext
<1> QED  BY <1>1, <1>2, <1>3, PTL DEF Spec, InboxSpec, Mailbox!Spec
=============================================================================
