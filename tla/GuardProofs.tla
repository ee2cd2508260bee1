----------------------------- MODULE GuardProofs -----------------------------
(***************************************************************************)
(* Proofs about the two guards that count who is at work by the files they *)
(* leave.                                                                  *)
(* AgentSlots, for any number of subagents and members: the types; that a  *)
(* slot that has ended stays as it is as long as the processes do not      *)
(* overlap; and that, if moreover nothing fails and no slot outlives the   *)
(* threshold, the running slots are as many as the running subagents.  The *)
(* count needs the copies of the processes at work (Counted), and that of  *)
(* the running slots exactly one is the oldest (OneOldest), which the      *)
(* order of firing gives (OrderInv).                                       *)
(* DoctorLock, for any number of calls, machines and faults: the claims    *)
(* directory excludes two runs at a time, nobody takes a live claim away,  *)
(* and what dead runs leave there turns nobody away.                       *)
(***************************************************************************)
EXTENDS AgentSlots, DoctorLock, FiniteSetTheorems, TLAPS

USE AgentSlotsAssumption DEF AgentSlotsAssumption

-----------------------------------------------------------------------------
(* Agent slots.                                                            *)

Types ==
  /\ file \in File
  /\ stale \in SUBSET Slot
  /\ phase \in [Actor -> Phase]
  /\ copy \in [Actor -> File]
  /\ apart \in BOOLEAN /\ whole \in BOOLEAN

\* The changes made to a loaded file give a file.
LEMMA Changed ==
  ASSUME NEW f \in File
  PROVE  /\ Swept(f) \in File /\ Released(f) \in File
         /\ \A s \in Slot, v \in Status : [f EXCEPT ![s] = v] \in File
BY DEF File, Swept, Released, Status

\* A read gives a file, be it the empty one.
LEMMA LoadedFile ==
  ASSUME file \in File, NEW f \in Loadable
  PROVE  f \in File
BY DEF Loadable, File, Absent, Status

\* What a load leaves behind has the right types.
LEMMA LoadTypes ==
  ASSUME Types, NEW a \in Actor, NEW f \in File, NEW next \in Phase,
         NEW changed \in File, Load(a, f, next, changed)
  PROVE  Types'
BY DEF Types, Load, Quiet

\* No operation on the file and no failure leaves the types.
LEMMA TypesStep ==
  ASSUME Types, fired \in Seq(Slot), [Next]_vars
  PROVE  Types'
<1> USE DEF Types
<1>1. ASSUME NEW a \in Agent, GuardFire(a) PROVE Types'
  <2>1. PICK f \in Loadable : Load(a, f, "firing", [Swept(f) EXCEPT ![a] = "running"])
    BY <1>1 DEF GuardFire
  <2>2. f \in File /\ [Swept(f) EXCEPT ![a] = "running"] \in File
    BY LoadedFile, Changed DEF Slot, Status
  <2> QED
    BY <2>1, <2>2, LoadTypes DEF Actor, Slot, Phase
<1>2. ASSUME NEW a \in Agent, GuardStop(a) PROVE Types'
  <2>1. PICK f \in Loadable : Load(a, f, "ending", Released(f)) \/ Load(a, f, "gone", Absent)
    BY <1>2 DEF GuardStop
  <2>2. f \in File /\ Released(f) \in File /\ Absent \in File
    BY LoadedFile, Changed DEF Absent, File, Status
  <2> QED
    BY <2>1, <2>2, LoadTypes DEF Actor, Slot, Phase
<1>3. ASSUME NEW m \in Member, MemberFire(m) PROVE Types'
  <2>1. PICK f \in Loadable : Load(m, f, "firing", [f EXCEPT ![m] = "running"])
    BY <1>3 DEF MemberFire
  <2>2. f \in File /\ [f EXCEPT ![m] = "running"] \in File
    BY LoadedFile, Changed DEF Slot, Status
  <2> QED
    BY <2>1, <2>2, LoadTypes DEF Actor, Slot, Phase
<1>4. ASSUME NEW m \in Member, MemberStop(m) PROVE Types'
  <2>1. PICK f \in Loadable : \/ Load(m, f, "ending", [f EXCEPT ![m] = "completed"])
                              \/ Load(m, f, "gone", Absent)
    BY <1>4 DEF MemberStop
  <2>2. f \in File /\ [f EXCEPT ![m] = "completed"] \in File /\ Absent \in File
    BY LoadedFile, Changed DEF Slot, Absent, File, Status
  <2> QED
    BY <2>1, <2>2, LoadTypes DEF Actor, Slot, Phase
<1>5. ASSUME NEW a \in Actor, Save(a) \/ SaveLost(a) PROVE Types'
  <2>1. After(a) \in Phase /\ Absent \in File /\ copy[a] \in File
    BY DEF After, Phase, Absent, File, Status
  <2> QED
    BY <1>5, <2>1 DEF Save, SaveLost
<1>6. ASSUME NEW s \in Slot, StopLost(s) PROVE Types'
  BY <1>6 DEF StopLost, Phase
<1>7. CASE Sweep
  <2>1. Load(Sweeper, file, "sweeping", Swept(file)) /\ Swept(file) \in File
    BY <1>7, Changed DEF Sweep
  <2> QED
    BY <2>1, LoadTypes DEF Actor, Phase
<1>8. ASSUME NEW i \in DOMAIN fired, Age(i) PROVE Types'
  BY <1>8 DEF Age
<1>9. CASE UNCHANGED vars
  BY <1>9 DEF vars
<1> QED
  BY <1>1, <1>2, <1>3, <1>4, <1>5, <1>6, <1>7, <1>8, <1>9 DEF Next

-----------------------------------------------------------------------------
(* The slots are as many as the subagents and members that were fired.     *)

Fired == {s \in Slot : phase[s] # "unborn"}

FiredInv == fired \in Seq(Slot) /\ Len(fired) = Cardinality(Fired)

\* Firing adds one slot that was not fired before.
LEMMA FireCounts ==
  ASSUME Types, FiredInv, NEW s \in Slot, phase[s] = "unborn",
         fired' = Append(fired, s), phase' = [phase EXCEPT ![s] = "firing"]
  PROVE  FiredInv'
<1>1. Fired' = Fired \cup {s}
  BY DEF Fired, Types, Actor
<1>2. IsFiniteSet(Fired)
  BY FS_Subset DEF Fired, Slot
<1>3. s \notin Fired
  BY DEF Fired
<1>4. Cardinality(Fired') = Cardinality(Fired) + 1
  BY <1>1, <1>2, <1>3, FS_AddElement
<1> QED
  BY <1>4 DEF FiredInv

\* Every other step leaves the fired slots, because no process is unborn again.
LEMMA OthersCount ==
  ASSUME Types, FiredInv, UNCHANGED fired, NEW a \in Actor, NEW next \in Phase \ {"unborn"},
         phase[a] # "unborn", phase' = [phase EXCEPT ![a] = next]
  PROVE  FiredInv'
<1>1. Fired' = Fired
  BY DEF Fired, Types, Actor
<1> QED
  BY <1>1 DEF FiredInv

\* The count of the fired slots is right after every step.
LEMMA FiredStep ==
  ASSUME Types, FiredInv, [Next]_vars
  PROVE  FiredInv'
<1>1. ASSUME NEW a \in Agent, GuardFire(a) PROVE FiredInv'
  BY <1>1, FireCounts DEF GuardFire, Load, Slot
<1>2. ASSUME NEW a \in Agent, GuardStop(a) PROVE FiredInv'
  <2>1. PICK next \in {"ending", "gone"} : phase' = [phase EXCEPT ![a] = next]
    BY <1>2 DEF GuardStop, Load
  <2> QED
    BY <1>2, <2>1, OthersCount DEF GuardStop, Actor, Slot, Phase
<1>3. ASSUME NEW m \in Member, MemberFire(m) PROVE FiredInv'
  BY <1>3, FireCounts DEF MemberFire, Load, Slot
<1>4. ASSUME NEW m \in Member, MemberStop(m) PROVE FiredInv'
  <2>1. PICK next \in {"ending", "gone"} : phase' = [phase EXCEPT ![m] = next]
    BY <1>4 DEF MemberStop, Load
  <2> QED
    BY <1>4, <2>1, OthersCount DEF MemberStop, Actor, Slot, Phase
<1>5. ASSUME NEW a \in Actor, Save(a) \/ SaveLost(a) PROVE FiredInv'
  <2>1. After(a) \in Phase \ {"unborn"} /\ phase[a] # "unborn" /\ UNCHANGED fired
    BY <1>5 DEF Save, SaveLost, After, Busy, Phase
  <2>2. phase' = [phase EXCEPT ![a] = After(a)]
    BY <1>5 DEF Save, SaveLost
  <2> QED
    BY <2>1, <2>2, OthersCount
<1>6. ASSUME NEW s \in Slot, StopLost(s) PROVE FiredInv'
  BY <1>6, OthersCount DEF StopLost, Actor, Phase
<1>7. CASE Sweep
  <2>1. Sweeper \in Actor /\ phase[Sweeper] # "unborn" /\ UNCHANGED fired
    BY <1>7 DEF Sweep, Actor
  <2>2. phase' = [phase EXCEPT ![Sweeper] = "sweeping"]
    BY <1>7 DEF Sweep, Load
  <2> QED
    BY <2>1, <2>2, OthersCount DEF Phase
<1>8. ASSUME NEW i \in DOMAIN fired, Age(i) PROVE FiredInv'
  BY <1>8 DEF Age, FiredInv, Fired
<1>9. CASE UNCHANGED vars
  BY <1>9 DEF vars, FiredInv, Fired
<1> QED
  BY <1>1, <1>2, <1>3, <1>4, <1>5, <1>6, <1>7, <1>8, <1>9 DEF Next

\* Nothing was fired before the first hook.
LEMMA InitTypes == Init => Types /\ FiredInv
<1> SUFFICES ASSUME Init PROVE Types /\ FiredInv
  OBVIOUS
<1>1. Types
  BY DEF Init, Types, Absent, File, Status, Phase
<1>2. Fired = {}
  BY DEF Init, Fired, Actor, Slot
<1>3. Cardinality({}) = 0
  BY FS_EmptySet
<1> QED
  BY <1>1, <1>2, <1>3 DEF Init, FiredInv

\* The hooks keep the types, whatever overlaps and fails: each slot is listed
\* at most once among the fired ones, and the file is a file of slots.
THEOREM TypeCorrect == Spec => []TypeOK
<1>1. Types /\ FiredInv /\ [Next]_vars => (Types /\ FiredInv)'
  BY TypesStep, FiredStep DEF FiredInv
<1>2. Types /\ FiredInv => TypeOK
  <2>1. Cardinality(Fired) <= Cardinality(Slot)
    BY FS_Subset DEF Fired, Slot
  <2> QED
    BY <2>1 DEF Types, FiredInv, TypeOK
<1> QED
  BY InitTypes, <1>1, <1>2, PTL DEF Spec

-----------------------------------------------------------------------------
(* What has ended stays as it is.                                          *)

\* Nobody knows the slot of a process that has not been fired.
UnbornAbsent ==
  \A s \in Slot : phase[s] = "unborn" =>
    file[s] = "absent" /\ \A a \in Actor : copy[a][s] = "absent"

\* As long as the processes keep apart there is one at work at a time, and its
\* copy has every ended slot as the file has it.
Alone == apart => \A a, b \in Actor : Busy(a) /\ Busy(b) => a = b

CopyKeeps ==
  apart => \A a \in Actor : Busy(a) =>
             \A s \in Slot : file[s] \in Settled => copy[a][s] = file[s]

SettledInv == UnbornAbsent /\ Alone /\ CopyKeeps

\* The changes made to a loaded file leave absent and ended slots alone.
LEMMA ChangesKeep ==
  ASSUME NEW f \in File, NEW s \in Slot, f[s] # "running"
  PROVE  Swept(f)[s] = f[s] /\ Released(f)[s] = f[s]
BY DEF Swept, Released, Oldest, Running, File

\* A load that changes no ended slot, and no slot of a process that will be
\* unborn afterwards, keeps the invariant.
LEMMA LoadKeeps ==
  ASSUME Types, SettledInv, NEW a \in Actor, NEW f \in Loadable, NEW next \in Phase \ {"unborn"},
         NEW changed \in File, Load(a, f, next, changed),
         \A s \in Slot : phase'[s] = "unborn" /\ f[s] = "absent" => changed[s] = "absent",
         next \in {"firing", "ending", "sweeping"} =>
           \A s \in Slot : f[s] \in Settled => changed[s] = f[s]
  PROVE  SettledInv'
<1> USE DEF Types
<1>1. phase' = [phase EXCEPT ![a] = next] /\ copy' = [copy EXCEPT ![a] = changed] /\ file' = file
  BY DEF Load
<1>2. apart' = (apart /\ Quiet /\ f = file)
  BY DEF Load
<1>3. UnbornAbsent'
  <2> SUFFICES ASSUME NEW s \in Slot, phase'[s] = "unborn"
               PROVE  file'[s] = "absent" /\ \A b \in Actor : copy'[b][s] = "absent"
    BY DEF UnbornAbsent
  <2>1. phase[s] = "unborn" /\ s # a
    BY <1>1 DEF Actor
  <2>2. file[s] = "absent" /\ \A b \in Actor : copy[b][s] = "absent"
    BY <2>1 DEF SettledInv, UnbornAbsent
  <2>3. f[s] = "absent"
    BY <2>2 DEF Loadable, Absent
  <2> QED
    BY <1>1, <2>2, <2>3
<1>4. ASSUME apart' PROVE \A b \in Actor : Busy(b)' => b = a
  BY <1>1, <1>2, <1>4 DEF Quiet, Busy
<1>5. Alone'
  BY <1>4 DEF Alone
<1>6. CopyKeeps'
  <2> SUFFICES ASSUME apart', NEW b \in Actor, Busy(b)', NEW s \in Slot, file'[s] \in Settled
               PROVE  copy'[b][s] = file'[s]
    BY DEF CopyKeeps, Settled
  <2>1. b = a /\ f = file
    BY <1>2, <1>4
  <2>2. next \in {"firing", "ending", "sweeping"}
    BY <1>1, <2>1 DEF Busy
  <2> QED
    BY <1>1, <2>1, <2>2
<1> QED
  BY <1>3, <1>5, <1>6 DEF SettledInv

\* The first fire finds the slot absent in whatever it loads.
LEMMA FireKeeps ==
  ASSUME Types, SettledInv, NEW s \in Slot, phase[s] = "unborn", NEW f \in Loadable,
         NEW g \in File, g \in {f, Swept(f)}, Load(s, f, "firing", [g EXCEPT ![s] = "running"])
  PROVE  SettledInv'
<1> DEFINE changed == [g EXCEPT ![s] = "running"]
<1>1. f \in File /\ changed \in File
  BY LoadedFile, Changed DEF Types, Status
<1>2. f[s] = "absent"
  BY DEF SettledInv, UnbornAbsent, Loadable, Absent
<1>3. s \in Actor /\ phase'[s] = "firing"
  BY DEF Load, Types, Actor
<1>4. ASSUME NEW t \in Slot, t # s, f[t] # "running" PROVE changed[t] = f[t]
  BY <1>1, <1>4, ChangesKeep DEF File
<1>5. \A t \in Slot : phase'[t] = "unborn" /\ f[t] = "absent" => changed[t] = "absent"
  BY <1>3, <1>4
<1>6. \A t \in Slot : f[t] \in Settled => changed[t] = f[t]
  BY <1>2, <1>4 DEF Settled
<1> HIDE DEF changed
<1>7. Load(s, f, "firing", changed)
  BY DEF changed
<1> QED
  BY <1>1, <1>3, <1>5, <1>6, <1>7, LoadKeeps DEF Phase

\* A process that finds nothing to change is over at once.
LEMMA IdleKeeps ==
  ASSUME Types, SettledInv, NEW a \in Actor, NEW f \in Loadable, Load(a, f, "gone", Absent)
  PROVE  SettledInv'
<1>1. Absent \in File /\ \A s \in Slot : Absent[s] = "absent"
  BY DEF Absent, File, Status
<1> QED
  BY <1>1, LoadKeeps DEF Phase

\* The end of an actor at work writes nothing but its copy and lets it go.
LEMMA SaveKeeps ==
  ASSUME Types, SettledInv, NEW a \in Actor, Save(a) \/ SaveLost(a)
  PROVE  SettledInv'
<1> USE DEF Types
<1>1. /\ Busy(a) /\ apart' = apart /\ file' \in {file, copy[a]}
      /\ phase' = [phase EXCEPT ![a] = After(a)]
      /\ copy' = [copy EXCEPT ![a] = Absent]
  BY DEF Save, SaveLost
<1>2. After(a) \in {"running", "gone"}
  BY DEF After
<1>3. \A b \in Actor : Busy(b)' => Busy(b) /\ b # a
  BY <1>1, <1>2 DEF Busy
<1>4. UnbornAbsent'
  <2> SUFFICES ASSUME NEW s \in Slot, phase'[s] = "unborn"
               PROVE  file'[s] = "absent" /\ \A b \in Actor : copy'[b][s] = "absent"
    BY DEF UnbornAbsent
  <2>1. phase[s] = "unborn"
    BY <1>1, <1>2 DEF Actor
  <2> QED
    BY <1>1, <2>1 DEF SettledInv, UnbornAbsent, Absent
<1>5. ASSUME apart' PROVE \A b \in Actor : ~Busy(b)'
  BY <1>1, <1>3, <1>5 DEF SettledInv, Alone
<1> QED
  BY <1>4, <1>5 DEF SettledInv, Alone, CopyKeeps

\* No step of a hook, of the runner or of a sweep spoils the invariant.
LEMMA SettledStep ==
  ASSUME Types, SettledInv, [Next]_vars
  PROVE  SettledInv'
<1>1. ASSUME NEW a \in Agent, GuardFire(a) PROVE SettledInv'
  <2>1. PICK f \in Loadable : Load(a, f, "firing", [Swept(f) EXCEPT ![a] = "running"])
    BY <1>1 DEF GuardFire
  <2>2. Swept(f) \in File
    BY LoadedFile, Changed DEF Types
  <2> QED
    BY <1>1, <2>1, <2>2, FireKeeps DEF GuardFire, Slot
<1>2. ASSUME NEW a \in Agent, GuardStop(a) PROVE SettledInv'
  <2>1. PICK f \in Loadable : Load(a, f, "ending", Released(f)) \/ Load(a, f, "gone", Absent)
    BY <1>2 DEF GuardStop
  <2>2. f \in File /\ Released(f) \in File /\ a \in Actor
    BY LoadedFile, Changed DEF Types, Actor, Slot
  <2>3. \A s \in Slot : f[s] # "running" => Released(f)[s] = f[s]
    BY <2>2, ChangesKeep
  <2>4. CASE Load(a, f, "ending", Released(f))
    BY <2>2, <2>3, <2>4, LoadKeeps DEF Phase, Settled
  <2> QED
    BY <2>1, <2>2, <2>4, IdleKeeps
<1>3. ASSUME NEW m \in Member, MemberFire(m) PROVE SettledInv'
  <2>1. PICK f \in Loadable : Load(m, f, "firing", [f EXCEPT ![m] = "running"])
    BY <1>3 DEF MemberFire
  <2>2. f \in File
    BY LoadedFile DEF Types
  <2> QED
    BY <1>3, <2>1, <2>2, FireKeeps DEF MemberFire, Slot
<1>4. ASSUME NEW m \in Member, MemberStop(m) PROVE SettledInv'
  <2>1. PICK f \in Loadable : \/ f[m] = "running" /\ Load(m, f, "ending", [f EXCEPT ![m] = "completed"])
                              \/ Load(m, f, "gone", Absent)
    BY <1>4 DEF MemberStop
  <2>2. f \in File /\ [f EXCEPT ![m] = "completed"] \in File /\ m \in Actor
    BY LoadedFile, Changed DEF Types, Actor, Slot, Status
  <2>3. CASE f[m] = "running" /\ Load(m, f, "ending", [f EXCEPT ![m] = "completed"])
    <3>1. \A s \in Slot : f[s] # "running" => [f EXCEPT ![m] = "completed"][s] = f[s]
      BY <2>2, <2>3 DEF File
    <3> QED
      BY <2>2, <2>3, <3>1, LoadKeeps DEF Phase, Settled
  <2> QED
    BY <2>1, <2>2, <2>3, IdleKeeps
<1>5. ASSUME NEW a \in Actor, Save(a) \/ SaveLost(a) PROVE SettledInv'
  BY <1>5, SaveKeeps
<1>6. ASSUME NEW s \in Slot, StopLost(s) PROVE SettledInv'
  <2>1. \A b \in Actor : Busy(b)' => Busy(b)
    BY <1>6 DEF StopLost, Busy, Types
  <2>2. \A t \in Slot : phase'[t] = "unborn" => phase[t] = "unborn"
    BY <1>6 DEF StopLost, Types, Actor
  <2> QED
    BY <1>6, <2>1, <2>2 DEF StopLost, SettledInv, UnbornAbsent, Alone, CopyKeeps
<1>7. CASE Sweep
  <2>1. Load(Sweeper, file, "sweeping", Swept(file)) /\ Swept(file) \in File /\ file \in File
    BY <1>7, Changed DEF Sweep, Types
  <2>2. \A s \in Slot : file[s] # "running" => Swept(file)[s] = file[s]
    BY <2>1, ChangesKeep
  <2> QED
    BY <2>1, <2>2, LoadKeeps DEF Phase, Settled, Actor, Loadable
<1>8. ASSUME NEW i \in DOMAIN fired, Age(i) PROVE SettledInv'
  BY <1>8 DEF Age, SettledInv, UnbornAbsent, Alone, CopyKeeps, Busy
<1>9. CASE UNCHANGED vars
  BY <1>9 DEF vars, SettledInv, UnbornAbsent, Alone, CopyKeeps, Busy
<1> QED
  BY <1>1, <1>2, <1>3, <1>4, <1>5, <1>6, <1>7, <1>8, <1>9 DEF Next

\* Only a save changes the file, and its copy has the ended slots unchanged.
LEMMA SettledKept ==
  ASSUME Types, SettledInv, [Next]_vars, apart, NEW s \in Slot, file[s] \in Settled
  PROVE  file'[s] = file[s]
<1>1. ASSUME NEW a \in Actor, Save(a) PROVE file'[s] = file[s]
  BY <1>1 DEF Save, SettledInv, CopyKeeps
<1>2. (\A a \in Actor : ~Save(a)) => file' = file
  BY DEF Next, vars, GuardFire, GuardStop, MemberFire, MemberStop, StopLost, SaveLost, Sweep, Age, Load
<1> QED
  BY <1>1, <1>2

\* For any number of subagents and members: as long as no two processes
\* overlap, a slot that was released or swept is never changed again, whatever
\* hooks and writes are lost and however long the subagents run.
THEOREM EndedStaysEnded == Spec => SettledForGood
<1>1. Init => SettledInv
  BY DEF Init, SettledInv, UnbornAbsent, Alone, CopyKeeps, Absent, Busy, Actor
<1>2. (Types /\ FiredInv) /\ SettledInv /\ [Next]_vars => ((Types /\ FiredInv) /\ SettledInv)'
  BY TypesStep, FiredStep, SettledStep DEF FiredInv
<1>3. Types /\ SettledInv /\ [Next]_vars =>
        [apart => \A s \in Slot : file[s] \in Settled => file'[s] = file[s]]_vars
  BY SettledKept
<1> QED
  BY InitTypes, <1>1, <1>2, <1>3, PTL DEF Spec, SettledForGood

-----------------------------------------------------------------------------
(* One end releases one slot, in calm weather.                             *)

\* Every slot is fired once, so it has one place in the order of firing.
FiredOnce ==
  /\ \A s \in Slot : phase[s] # "unborn" <=> \E i \in DOMAIN fired : fired[i] = s
  /\ \A i, j \in DOMAIN fired : fired[i] = fired[j] => i = j

\* Of any fired slots one was fired first.
FirstFired == \A S \in SUBSET (1..Len(fired)) : S # {} => \E i \in S : \A j \in S : i <= j

OrderInv == FiredOnce /\ FirstFired

Calm == apart /\ whole /\ stale = {}

\* A slot is counted from the save of its start to the save of its end: the file has as many
\* as there are subagents, and the copy of a process at work one more or one less.
Counted ==
  /\ Cardinality(Running(file)) = Cardinality(Live)
  /\ \A a \in Agent :
       /\ phase[a] = "firing" => Cardinality(Running(copy[a])) = Cardinality(Live) + 1
       /\ phase[a] = "ending" => Cardinality(Live) = Cardinality(Running(copy[a])) + 1
  /\ \A m \in Member : Busy(m) => Running(copy[m]) = Running(file)

\* The slot of a member is its own: other processes carry it along unchanged.
MemberOwns ==
  \A m \in Member :
    /\ ~Busy(m) => (file[m] = "running" <=> phase[m] = "running")
    /\ Busy(m) => (copy[m][m] = "running" <=> phase[m] = "firing")
    /\ \A a \in Slot : a # m /\ Busy(a) => (copy[a][m] = "running" <=> phase[m] = "running")

\* Nothing is stale, so nothing is swept.
NoSweep == phase[Sweeper] = "gone" /\ \A s \in Slot : phase[s] # "sweeping"

CalmInv == Calm => NoSweep /\ Counted /\ MemberOwns

SlotsInv == Types /\ FiredInv /\ SettledInv /\ OrderInv /\ CalmInv

\* A slot that is fired takes the last place.
LEMMA FireOrders ==
  ASSUME Types, FiredInv, OrderInv, NEW s \in Slot, phase[s] = "unborn",
         fired' = Append(fired, s), phase' = [phase EXCEPT ![s] = "firing"]
  PROVE  OrderInv'
<1> DEFINE n == Len(fired)
<1>1. fired \in Seq(Slot) /\ n \in Nat
  BY DEF FiredInv
<1>2. /\ DOMAIN fired = 1..n /\ DOMAIN fired' = 1..(n + 1) /\ Len(fired') = n + 1
      /\ fired'[n + 1] = s /\ \A i \in 1..n : fired'[i] = fired[i]
  BY <1>1
<1> HIDE DEF n
<1>3. \A i \in 1..n : fired[i] # s
  BY <1>2 DEF OrderInv, FiredOnce
<1>4. \A t \in Slot : t # s => phase'[t] = phase[t]
  BY DEF Types
<1>5. phase'[s] = "firing"
  BY DEF Types, Actor
<1>6. FiredOnce'
  <2>1. ASSUME NEW t \in Slot
        PROVE  phase'[t] # "unborn" <=> \E i \in DOMAIN fired' : fired'[i] = t
    <3>1. CASE t = s
      BY <1>1, <1>2, <1>5, <3>1
    <3>2. CASE t # s
      <4>1. phase[t] # "unborn" <=> \E i \in 1..n : fired[i] = t
        BY <1>2 DEF OrderInv, FiredOnce
      <4>2. \A i \in 1..(n + 1) : i = n + 1 \/ i \in 1..n
        BY <1>1
      <4>3. \A i \in 1..n : i \in 1..(n + 1)
        BY <1>1
      <4> QED
        BY <1>2, <1>4, <3>2, <4>1, <4>2, <4>3
    <3> QED
      BY <3>1, <3>2
  <2>2. ASSUME NEW i \in DOMAIN fired', NEW j \in DOMAIN fired', fired'[i] = fired'[j]
        PROVE  i = j
    <3>1. (i = n + 1 \/ i \in 1..n) /\ (j = n + 1 \/ j \in 1..n)
      BY <1>1, <1>2
    <3> QED
      BY <1>2, <1>3, <2>2, <3>1 DEF OrderInv, FiredOnce
  <2> QED
    BY <2>1, <2>2 DEF FiredOnce
<1>7. FirstFired'
  <2> SUFFICES ASSUME NEW S \in SUBSET (1..(n + 1)), S # {}
               PROVE  \E i \in S : \A j \in S : i <= j
    BY <1>2 DEF FirstFired
  <2>1. CASE S \ {n + 1} = {}
    <3>1. S = {n + 1}
      BY <2>1
    <3> QED
      BY <1>1, <3>1
  <2>2. CASE S \ {n + 1} # {}
    <3>1. S \ {n + 1} \in SUBSET (1..n)
      BY <1>1
    <3>2. PICK i \in S \ {n + 1} : \A j \in S \ {n + 1} : i <= j
      BY <2>2, <3>1 DEF OrderInv, FirstFired, n
    <3>3. \A j \in S : i <= j
      BY <1>1, <3>1, <3>2
    <3> QED
      BY <3>2, <3>3
  <2> QED
    BY <2>1, <2>2
<1> QED
  BY <1>6, <1>7 DEF OrderInv

\* No other step fires a slot.
LEMMA OthersOrder ==
  ASSUME Types, OrderInv, UNCHANGED fired, NEW a \in Actor, NEW next \in Phase \ {"unborn"},
         phase[a] # "unborn", phase' = [phase EXCEPT ![a] = next]
  PROVE  OrderInv'
<1>1. \A s \in Slot : phase'[s] # "unborn" <=> phase[s] # "unborn"
  BY DEF Types, Actor
<1> QED
  BY <1>1 DEF OrderInv, FiredOnce, FirstFired

\* The order of firing is kept by every step.
LEMMA OrderStep ==
  ASSUME Types, FiredInv, OrderInv, [Next]_vars
  PROVE  OrderInv'
<1>1. ASSUME NEW a \in Agent, GuardFire(a) PROVE OrderInv'
  BY <1>1, FireOrders DEF GuardFire, Load, Slot
<1>2. ASSUME NEW a \in Agent, GuardStop(a) PROVE OrderInv'
  <2>1. PICK next \in {"ending", "gone"} : phase' = [phase EXCEPT ![a] = next]
    BY <1>2 DEF GuardStop, Load
  <2> QED
    BY <1>2, <2>1, OthersOrder DEF GuardStop, Actor, Slot, Phase
<1>3. ASSUME NEW m \in Member, MemberFire(m) PROVE OrderInv'
  BY <1>3, FireOrders DEF MemberFire, Load, Slot
<1>4. ASSUME NEW m \in Member, MemberStop(m) PROVE OrderInv'
  <2>1. PICK next \in {"ending", "gone"} : phase' = [phase EXCEPT ![m] = next]
    BY <1>4 DEF MemberStop, Load
  <2> QED
    BY <1>4, <2>1, OthersOrder DEF MemberStop, Actor, Slot, Phase
<1>5. ASSUME NEW a \in Actor, Save(a) \/ SaveLost(a) PROVE OrderInv'
  <2>1. After(a) \in Phase \ {"unborn"} /\ phase[a] # "unborn" /\ UNCHANGED fired
    BY <1>5 DEF Save, SaveLost, After, Busy, Phase
  <2>2. phase' = [phase EXCEPT ![a] = After(a)]
    BY <1>5 DEF Save, SaveLost
  <2> QED
    BY <2>1, <2>2, OthersOrder
<1>6. ASSUME NEW s \in Slot, StopLost(s) PROVE OrderInv'
  BY <1>6, OthersOrder DEF StopLost, Actor, Phase
<1>7. CASE Sweep
  <2>1. Sweeper \in Actor /\ phase[Sweeper] # "unborn" /\ UNCHANGED fired
    BY <1>7 DEF Sweep, Actor
  <2>2. phase' = [phase EXCEPT ![Sweeper] = "sweeping"]
    BY <1>7 DEF Sweep, Load
  <2> QED
    BY <2>1, <2>2, OthersOrder DEF Phase
<1>8. ASSUME NEW i \in DOMAIN fired, Age(i) PROVE OrderInv'
  BY <1>8 DEF Age, OrderInv, FiredOnce, FirstFired
<1>9. CASE UNCHANGED vars
  BY <1>9 DEF vars, OrderInv, FiredOnce, FirstFired
<1> QED
  BY <1>1, <1>2, <1>3, <1>4, <1>5, <1>6, <1>7, <1>8, <1>9 DEF Next

\* An end that does not say whose it is releases exactly one running slot.
LEMMA OneOldest ==
  ASSUME Types, FiredInv, OrderInv, UnbornAbsent, Running(file) # {}
  PROVE  \E a \in Running(file) : Oldest(file) = {a}
<1>1. \A a \in Running(file) : \E i \in DOMAIN fired : fired[i] = a
  BY DEF Running, UnbornAbsent, OrderInv, FiredOnce, Slot
<1> DEFINE S == {i \in DOMAIN fired : fired[i] \in Running(file)}
<1>2. DOMAIN fired = 1..Len(fired) /\ Len(fired) \in Nat
  BY DEF FiredInv
<1>3. S # {} /\ S \in SUBSET (1..Len(fired))
  BY <1>1, <1>2
<1>4. PICK i \in S : \A j \in S : i <= j
  BY <1>3 DEF OrderInv, FirstFired
<1>5. \A k \in DOMAIN fired : fired[k] = fired[i] => k = i
  BY DEF OrderInv, FiredOnce
<1>6. fired[i] \in Oldest(file)
  BY <1>4, <1>5 DEF Oldest
<1>7. ASSUME NEW b \in Oldest(file) PROVE b = fired[i]
  <2>1. PICK k \in DOMAIN fired : fired[k] = b
    BY <1>1, <1>7 DEF Oldest
  <2>2. k \in S /\ i <= k
    BY <1>4, <1>7, <2>1 DEF Oldest
  <2>3. k <= i
    BY <1>7, <2>1 DEF Oldest
  <2> QED
    BY <1>2, <2>1, <2>2, <2>3
<1> QED
  BY <1>6, <1>7 DEF Oldest

\* The weather does not get calm again, and in calm weather nothing is lost and nothing ages.
LEMMA CalmBefore ==
  ASSUME Types, [Next]_vars, Calm'
  PROVE  /\ Calm
         /\ \A a \in Actor : ~SaveLost(a)
         /\ \A s \in Slot : ~StopLost(s)
         /\ \A i \in DOMAIN fired : ~Age(i)
<1>1. Calm
  BY DEF Next, vars, Calm, Types, GuardFire, GuardStop, MemberFire, MemberStop, StopLost, Save, SaveLost,
         Sweep, Age, Load
<1> QED
  BY <1>1 DEF Calm, Load, SaveLost, StopLost, Age

\* The sets that are counted are finite.
LEMMA CountsFinite ==
  /\ IsFiniteSet(Live) /\ Cardinality(Live) \in Nat
  /\ \A f \in File : IsFiniteSet(Running(f)) /\ Cardinality(Running(f)) \in Nat
<1>1. IsFiniteSet(Agent)
  BY FS_Subset
<1>2. Live \in SUBSET Agent /\ \A f \in File : Running(f) \in SUBSET Agent
  BY DEF Live, Running
<1> QED
  BY <1>1, <1>2, FS_Subset, FS_CardinalityType

\* A load whose copy has one more or one less running slot than the file, for a subagent, or
\* changes the own slot alone, for a member, keeps the count.
LEMMA LoadCounted ==
  ASSUME Types, Calm, CalmInv, Quiet, NEW a \in Slot, NEW changed \in File,
         NEW next \in {"firing", "ending"}, Load(a, file, next, changed),
         phase[a] = IF next = "firing" THEN "unborn" ELSE "running",
         a \in Agent /\ next = "firing" =>
           Cardinality(Running(changed)) = Cardinality(Running(file)) + 1,
         a \in Agent /\ next = "ending" =>
           Cardinality(Running(file)) = Cardinality(Running(changed)) + 1,
         a \in Member => /\ Running(changed) = Running(file)
                         /\ changed[a] = "running" <=> next = "firing",
         \A m \in Member : m # a => (changed[m] = "running" <=> file[m] = "running")
  PROVE  CalmInv'
<1>1. NoSweep /\ Counted /\ MemberOwns
  BY DEF CalmInv
<1>2. /\ file' = file
      /\ copy'[a] = changed /\ phase'[a] = next
      /\ \A b \in Actor : b # a => copy'[b] = copy[b] /\ phase'[b] = phase[b] /\ ~Busy(b)
      /\ a \in Actor /\ \A s \in Slot : s \in Actor
  BY DEF Load, Types, Actor, Quiet
<1>3. Live' = Live
  BY <1>2 DEF Live, Slot
<1>4. \A b \in Actor : b # a => ~Busy(b)'
  BY <1>2 DEF Busy
<1>5. NoSweep'
  BY <1>1, <1>2 DEF NoSweep, Slot, Actor
<1>6. Counted'
  <2>1. Cardinality(Running(file))' = Cardinality(Live)'
    BY <1>1, <1>2, <1>3 DEF Counted, Running
  <2>2. ASSUME NEW b \in Agent
        PROVE  /\ phase'[b] = "firing" => Cardinality(Running(copy'[b])) = Cardinality(Live') + 1
               /\ phase'[b] = "ending" => Cardinality(Live') = Cardinality(Running(copy'[b])) + 1
    <3>1. CASE b = a
      BY <1>1, <1>2, <1>3, <3>1 DEF Counted
    <3>2. CASE b # a
      BY <1>2, <1>4, <3>2 DEF Busy, Slot
    <3> QED
      BY <3>1, <3>2
  <2>3. ASSUME NEW m \in Member, Busy(m)' PROVE Running(copy'[m]) = Running(file')
    BY <1>2, <1>4, <2>3 DEF Slot
  <2> QED
    BY <2>1, <2>2, <2>3 DEF Counted, Running
<1>7. MemberOwns'
  <2> SUFFICES ASSUME NEW m \in Member
               PROVE  /\ ~Busy(m)' => (file'[m] = "running" <=> phase'[m] = "running")
                      /\ Busy(m)' => (copy'[m][m] = "running" <=> phase'[m] = "firing")
                      /\ \A b \in Slot : b # m /\ Busy(b)' =>
                           (copy'[b][m] = "running" <=> phase'[m] = "running")
    BY DEF MemberOwns
  <2>1. CASE m = a
    <3>1. Busy(m)'
      BY <1>2, <2>1 DEF Busy
    <3>2. copy'[m][m] = "running" <=> phase'[m] = "firing"
      BY <1>2, <2>1
    <3> QED
      BY <1>2, <1>4, <2>1, <3>1, <3>2
  <2>2. CASE m # a
    <3>1. ~Busy(m) /\ ~Busy(m)' /\ phase'[m] = phase[m]
      BY <1>2, <1>4, <2>2 DEF Slot
    <3>2. file[m] = "running" <=> phase[m] = "running"
      BY <1>1, <3>1 DEF MemberOwns
    <3>3. copy'[a][m] = "running" <=> phase'[m] = "running"
      BY <1>2, <2>2, <3>1, <3>2
    <3> QED
      BY <1>2, <1>4, <3>1, <3>2, <3>3
  <2> QED
    BY <2>1, <2>2
<1> QED
  BY <1>5, <1>6, <1>7 DEF CalmInv

\* The start of a subagent adds a slot, and in calm weather sweeps none.
LEMMA GuardFireCounted ==
  ASSUME SlotsInv, Calm, Calm', NEW a \in Agent, GuardFire(a)
  PROVE  CalmInv'
<1>1. PICK f \in Loadable : Load(a, f, "firing", [Swept(f) EXCEPT ![a] = "running"])
  BY DEF GuardFire
<1>2. f = file /\ Quiet
  BY <1>1 DEF Calm, Load
<1>3. file \in File /\ Types /\ a \in Slot /\ stale = {}
  BY DEF SlotsInv, Types, Slot, Calm
<1>4. Swept(file) = file
  BY <1>3 DEF Swept, File
<1> DEFINE c == [file EXCEPT ![a] = "running"]
<1>5. c \in File /\ c[a] = "running" /\ \A s \in Slot : s # a => c[s] = file[s]
  BY <1>3 DEF File, Status
<1>6. Load(a, file, "firing", c)
  BY <1>1, <1>2, <1>4
<1> HIDE DEF c
<1>7. phase[a] = "unborn" /\ file[a] = "absent"
  BY <1>3 DEF GuardFire, SlotsInv, SettledInv, UnbornAbsent
<1>8. Running(c) = Running(file) \cup {a} /\ a \notin Running(file)
  BY <1>5, <1>7 DEF Running, Slot
<1>9. Cardinality(Running(c)) = Cardinality(Running(file)) + 1
  BY <1>3, <1>8, CountsFinite, FS_AddElement
<1>10. \A m \in Member : m # a => c[m] = file[m]
  BY <1>5 DEF Slot
<1>11. CalmInv /\ a \notin Member
  BY DEF SlotsInv
<1> QED
  BY <1>2, <1>3, <1>5, <1>6, <1>7, <1>9, <1>10, <1>11, LoadCounted

\* The end of a subagent finds a running slot, and releases one.
LEMMA GuardStopCounted ==
  ASSUME SlotsInv, Calm, Calm', NEW a \in Agent, GuardStop(a)
  PROVE  CalmInv'
<1>1. PICK f \in Loadable : \/ Running(f) # {} /\ Load(a, f, "ending", Released(f))
                            \/ Running(f) = {} /\ Load(a, f, "gone", Absent)
  BY DEF GuardStop
<1>2. f = file /\ Quiet
  BY <1>1 DEF Calm, Load
<1>3. file \in File /\ Types /\ a \in Slot /\ CalmInv /\ Counted /\ phase[a] = "running"
  BY DEF SlotsInv, Types, Slot, CalmInv, GuardStop
<1>4. Running(file) # {}
  <2>1. a \in Live
    BY <1>3 DEF Live
  <2> QED
    BY <1>3, <2>1, CountsFinite, FS_EmptySet DEF Counted
<1>5. Load(a, file, "ending", Released(file))
  BY <1>1, <1>2, <1>4
<1>6. PICK b \in Running(file) : Oldest(file) = {b}
  BY <1>3, <1>4, OneOldest DEF SlotsInv, SettledInv
<1> DEFINE c == Released(file)
<1>7. c \in File /\ c[b] = "completed" /\ \A s \in Slot : s # b => c[s] = file[s]
  BY <1>3, <1>6, Changed DEF Released, Running, Slot
<1>8. Load(a, file, "ending", c)
  BY <1>5
<1> HIDE DEF c
<1>9. Running(c) = Running(file) \ {b}
  BY <1>6, <1>7 DEF Running, Slot
<1>10. Cardinality(Running(c)) = Cardinality(Running(file)) - 1
  BY <1>3, <1>6, <1>9, CountsFinite, FS_RemoveElement
<1>11. Cardinality(Running(file)) = Cardinality(Running(c)) + 1
  BY <1>3, <1>7, <1>10, CountsFinite
<1>12. \A m \in Member : c[m] = file[m]
  BY <1>6, <1>7 DEF Running, Slot
<1>13. a \notin Member
  OBVIOUS
<1> QED
  BY <1>2, <1>3, <1>7, <1>8, <1>11, <1>12, <1>13, LoadCounted

\* The runner changes the slot of its member alone.
LEMMA MemberCounted ==
  ASSUME SlotsInv, Calm, Calm', NEW m \in Member, MemberFire(m) \/ MemberStop(m)
  PROVE  CalmInv'
<1>1. PICK f \in Loadable :
        \/ phase[m] = "unborn" /\ Load(m, f, "firing", [f EXCEPT ![m] = "running"])
        \/ phase[m] = "running" /\ f[m] = "running"
             /\ Load(m, f, "ending", [f EXCEPT ![m] = "completed"])
        \/ phase[m] = "running" /\ f[m] # "running" /\ Load(m, f, "gone", Absent)
  BY DEF MemberFire, MemberStop
<1>2. f = file /\ Quiet
  BY <1>1 DEF Calm, Load
<1>3. file \in File /\ Types /\ m \in Slot /\ CalmInv /\ MemberOwns
  BY DEF SlotsInv, Types, Slot, CalmInv
<1>4. phase[m] = "running" => file[m] = "running"
  BY <1>3 DEF MemberOwns, Busy
<1>5. PICK next \in {"firing", "ending"}, v \in {"running", "completed"} :
        /\ phase[m] = IF next = "firing" THEN "unborn" ELSE "running"
        /\ v = "running" <=> next = "firing"
        /\ Load(m, file, next, [file EXCEPT ![m] = v])
  <2>1. CASE phase[m] = "unborn" /\ Load(m, f, "firing", [f EXCEPT ![m] = "running"])
    BY <1>2, <2>1
  <2>2. CASE phase[m] = "running" /\ Load(m, f, "ending", [f EXCEPT ![m] = "completed"])
    BY <1>2, <2>2
  <2> QED
    BY <1>1, <1>2, <1>4, <2>1, <2>2
<1> DEFINE c == [file EXCEPT ![m] = v]
<1>6. c \in File /\ c[m] = v /\ \A s \in Slot : s # m => c[s] = file[s]
  BY <1>3 DEF File, Status
<1>7. Load(m, file, next, c)
  BY <1>5
<1> HIDE DEF c
<1>8. m \notin Agent /\ Running(c) = Running(file)
  BY <1>6 DEF Running, Slot
<1>9. \A n \in Member : n # m => c[n] = file[n]
  BY <1>6 DEF Slot
<1> QED
  BY <1>2, <1>3, <1>5, <1>6, <1>7, <1>8, <1>9, LoadCounted

\* A save brings the file up to the process it was made for.
LEMMA SaveCounted ==
  ASSUME SlotsInv, Calm, NEW a \in Actor, Save(a)
  PROVE  CalmInv'
<1>1. Types /\ NoSweep /\ Counted /\ MemberOwns
  BY DEF SlotsInv, CalmInv
<1>2. /\ a \in Slot /\ phase[a] \in {"firing", "ending"} /\ Busy(a)
      /\ copy[a] \in File /\ file \in File
  BY <1>1 DEF Save, Busy, NoSweep, Actor, Types
<1>3. \A b \in Actor : b # a => ~Busy(b)
  BY <1>2 DEF SlotsInv, SettledInv, Alone, Calm
<1>4. /\ file' = copy[a] /\ phase'[a] = IF phase[a] = "firing" THEN "running" ELSE "gone"
      /\ \A b \in Actor : b # a => phase'[b] = phase[b]
  BY <1>1 DEF Save, After, Types
<1>5. \A b \in Actor : ~Busy(b)'
  BY <1>3, <1>4 DEF Busy
<1>6. NoSweep'
  BY <1>1, <1>2, <1>4 DEF NoSweep, Slot, Actor
<1>7. Cardinality(Running(file')) = Cardinality(Live')
  <2>1. CASE a \in Agent /\ phase[a] = "firing"
    <3>1. Live' = Live \cup {a} /\ a \notin Live
      BY <1>4, <2>1 DEF Live, Actor, Slot
    <3>2. Cardinality(Live') = Cardinality(Live) + 1
      BY <3>1, CountsFinite, FS_AddElement
    <3> QED
      BY <1>1, <1>4, <2>1, <3>2 DEF Counted
  <2>2. CASE a \in Agent /\ phase[a] = "ending"
    <3>1. Live' = Live \ {a} /\ a \in Live
      BY <1>4, <2>2 DEF Live, Actor, Slot
    <3>2. Cardinality(Live') = Cardinality(Live) - 1
      BY <3>1, CountsFinite, FS_RemoveElement
    <3>3. Cardinality(Live) = Cardinality(Running(copy[a])) + 1
      BY <1>1, <2>2 DEF Counted
    <3>4. Cardinality(Running(copy[a])) \in Nat
      BY <1>2, CountsFinite
    <3> QED
      BY <1>4, <3>2, <3>3, <3>4
  <2>3. CASE a \in Member
    <3>1. Live' = Live
      BY <1>4, <2>3 DEF Live, Actor, Slot
    <3>2. Running(copy[a]) = Running(file)
      BY <1>1, <1>2, <2>3 DEF Counted
    <3> QED
      BY <1>1, <1>4, <3>1, <3>2 DEF Counted
  <2> QED
    BY <1>2, <2>1, <2>2, <2>3 DEF Slot
<1>8. Counted'
  BY <1>5, <1>7 DEF Counted, Running, Busy, Actor, Slot
<1>9. MemberOwns'
  <2> SUFFICES ASSUME NEW m \in Member PROVE file'[m] = "running" <=> phase'[m] = "running"
    BY <1>5 DEF MemberOwns, Actor, Slot
  <2>1. CASE m = a
    BY <1>1, <1>2, <1>4, <2>1 DEF MemberOwns
  <2>2. CASE m # a
    BY <1>1, <1>2, <1>4, <2>2 DEF MemberOwns, Actor, Slot
  <2> QED
    BY <2>1, <2>2
<1> QED
  BY <1>6, <1>8, <1>9 DEF CalmInv

\* No step of calm weather spoils the count.
LEMMA CalmStep ==
  ASSUME SlotsInv, [Next]_vars
  PROVE  CalmInv'
<1> SUFFICES ASSUME Calm' PROVE CalmInv'
  BY DEF CalmInv
<1>1. Types
  BY DEF SlotsInv
<1>2. /\ Calm /\ \A a \in Actor : ~SaveLost(a)
      /\ \A s \in Slot : ~StopLost(s)
      /\ \A i \in DOMAIN fired : ~Age(i)
  BY <1>1, CalmBefore
<1>3. ~Sweep
  <2>1. Swept(file) = file
    BY <1>1, <1>2 DEF Calm, Swept, Types, File
  <2> QED
    BY <2>1 DEF Sweep
<1>4. ASSUME NEW a \in Agent, GuardFire(a) \/ GuardStop(a) PROVE CalmInv'
  BY <1>2, <1>4, GuardFireCounted, GuardStopCounted
<1>5. ASSUME NEW m \in Member, MemberFire(m) \/ MemberStop(m) PROVE CalmInv'
  BY <1>2, <1>5, MemberCounted
<1>6. ASSUME NEW a \in Actor, Save(a) PROVE CalmInv'
  BY <1>2, <1>6, SaveCounted
<1>7. CASE UNCHANGED vars
  BY <1>7 DEF vars, SlotsInv, CalmInv, Calm, NoSweep, Counted, MemberOwns, Running, Live, Busy
<1> QED
  BY <1>2, <1>3, <1>4, <1>5, <1>6, <1>7 DEF Next

\* For any number of subagents and members: as long as no two processes overlap, no hook or
\* write fails and no slot outlives the threshold, the file has as many running slots of
\* subagents as there are subagents running, although an end does not say whose it is, and the
\* slot of a member says running exactly while the member runs.
THEOREM CalmCounts == Spec => []CalmExact
<1>1. Init => OrderInv /\ CalmInv
  <2> SUFFICES ASSUME Init PROVE OrderInv /\ CalmInv
    OBVIOUS
  <2>1. /\ fired = <<>> /\ phase[Sweeper] = "gone" /\ \A s \in Slot : phase[s] = "unborn"
        /\ Running(file) = {} /\ Live = {} /\ \A m \in Member : file[m] = "absent"
    BY DEF Init, Absent, Actor, Slot, Running, Live
  <2>2. OrderInv
    <3>1. DOMAIN fired = {} /\ 1..Len(fired) = {}
      BY <2>1
    <3>2. FiredOnce
      BY <2>1, <3>1 DEF FiredOnce
    <3>3. FirstFired
      BY <3>1 DEF FirstFired
    <3> QED
      BY <3>2, <3>3 DEF OrderInv
  <2>3. CalmInv
    BY <2>1 DEF CalmInv, NoSweep, Counted, MemberOwns, Busy, Slot
  <2> QED
    BY <2>2, <2>3
<1>2. Init => SettledInv
  BY DEF Init, SettledInv, UnbornAbsent, Alone, CopyKeeps, Absent, Busy, Actor
<1>3. SlotsInv /\ [Next]_vars => SlotsInv'
  BY TypesStep, FiredStep, SettledStep, OrderStep, CalmStep DEF SlotsInv, FiredInv
<1>4. SlotsInv => CalmExact
  BY DEF SlotsInv, CalmInv, Calm, Counted, MemberOwns, CalmExact, Exact
<1> QED
  BY InitTypes, <1>1, <1>2, <1>3, <1>4, PTL DEF Spec, SlotsInv

-----------------------------------------------------------------------------
(* The doctor's guard.                                                     *)

USE DoctorLockAssumption DEF DoctorLockAssumption

\* The empty claims directory is well typed.
LEMMA DoctorTypeInit == DoctorInit => DoctorTypeOK
BY DEF DoctorInit, DoctorTypeOK, PC

\* Every step keeps the types.
LEMMA DoctorTypeStep ==
  ASSUME DoctorTypeOK, [DoctorNext]_doctorVars
  PROVE  DoctorTypeOK'
<1> USE DEF DoctorTypeOK, PC, Active, Ended, Goto, Fault
<1>1. ASSUME NEW a \in Attempt, Begin(a) PROVE DoctorTypeOK'
  BY <1>1 DEF Begin
<1>2. ASSUME NEW a \in Attempt, Publish(a) PROVE DoctorTypeOK'
  BY <1>2 DEF Publish
<1>3. ASSUME NEW a \in Attempt, ListClaims(a) PROVE DoctorTypeOK'
  BY <1>3 DEF ListClaims
<1>4. ASSUME NEW a \in Attempt, ReadClaim(a) PROVE DoctorTypeOK'
  BY <1>4 DEF ReadClaim, Stale, PidAlive
<1>5. ASSUME NEW a \in Attempt, MisreadClaim(a) PROVE DoctorTypeOK'
  BY <1>5 DEF MisreadClaim
<1>6. ASSUME NEW a \in Attempt, ReadOwnClaim(a) PROVE DoctorTypeOK'
  BY <1>6 DEF ReadOwnClaim, Forget
<1>7. ASSUME NEW a \in Attempt, Decide(a) PROVE DoctorTypeOK'
  BY <1>7 DEF Decide
<1>8. ASSUME NEW a \in Attempt, TurnAway(a) PROVE DoctorTypeOK'
  BY <1>8 DEF TurnAway
<1>9. ASSUME NEW a \in Attempt, Finish(a) PROVE DoctorTypeOK'
  BY <1>9 DEF Finish
<1>10. ASSUME NEW a \in Attempt, IoFault(a) PROVE DoctorTypeOK'
  BY <1>10 DEF IoFault, Forget
<1>11. ASSUME NEW a \in Attempt, ReleaseFault(a) PROVE DoctorTypeOK'
  BY <1>11 DEF ReleaseFault
<1>12. ASSUME NEW a \in Attempt, Crash(a) PROVE DoctorTypeOK'
  BY <1>12 DEF Crash, Forget
<1>13. ASSUME NEW a \in Attempt, PidReused(a) PROVE DoctorTypeOK'
  BY <1>13 DEF PidReused
<1>14. ASSUME NEW a \in Attempt, Expire(a) PROVE DoctorTypeOK'
  BY <1>14 DEF Expire
<1>15. CASE UNCHANGED doctorVars
  BY <1>15 DEF doctorVars
<1> HIDE DEF DoctorTypeOK, PC, Active, Ended, Goto, Fault
<1> QED
  BY <1>1, <1>2, <1>3, <1>4, <1>5, <1>6, <1>7, <1>8,
     <1>9, <1>10, <1>11, <1>12, <1>13, <1>14, <1>15
  DEF DoctorNext, Step

\* A live claim goes only by its owner's release, or when it is forfeited.
LEMMA HeldStep ==
  ASSUME DoctorTypeOK, ClaimHeld, [DoctorNext]_doctorVars
  PROVE  ClaimHeld'
<1> USE DEF ClaimHeld, Forfeited, DoctorTypeOK, Active, Goto
<1>1. ASSUME NEW a \in Attempt, Begin(a) PROVE ClaimHeld'
  BY <1>1 DEF Begin
<1>2. ASSUME NEW a \in Attempt, Publish(a) PROVE ClaimHeld'
  BY <1>2 DEF Publish
<1>3. ASSUME NEW a \in Attempt, ListClaims(a) PROVE ClaimHeld'
  BY <1>3 DEF ListClaims
<1>4. ASSUME NEW a \in Attempt, ReadClaim(a) PROVE ClaimHeld'
  BY <1>4 DEF ReadClaim, Stale, PidAlive
<1>5. ASSUME NEW a \in Attempt, MisreadClaim(a) PROVE ClaimHeld'
  BY <1>5 DEF MisreadClaim
<1>6. ASSUME NEW a \in Attempt, ReadOwnClaim(a) PROVE ClaimHeld'
  BY <1>6 DEF ReadOwnClaim, Forget
<1>7. ASSUME NEW a \in Attempt, Decide(a) PROVE ClaimHeld'
  BY <1>7 DEF Decide
<1>8. ASSUME NEW a \in Attempt, TurnAway(a) PROVE ClaimHeld'
  BY <1>8 DEF TurnAway
<1>9. ASSUME NEW a \in Attempt, Finish(a) PROVE ClaimHeld'
  BY <1>9 DEF Finish
<1>10. ASSUME NEW a \in Attempt, IoFault(a) PROVE ClaimHeld'
  BY <1>10 DEF IoFault, Forget
<1>11. ASSUME NEW a \in Attempt, ReleaseFault(a) PROVE ClaimHeld'
  BY <1>11 DEF ReleaseFault
<1>12. ASSUME NEW a \in Attempt, Crash(a) PROVE ClaimHeld'
  BY <1>12 DEF Crash, Forget
<1>13. ASSUME NEW a \in Attempt, PidReused(a) PROVE ClaimHeld'
  BY <1>13 DEF PidReused
<1>14. ASSUME NEW a \in Attempt, Expire(a) PROVE ClaimHeld'
  BY <1>14 DEF Expire
<1>15. CASE UNCHANGED doctorVars
  BY <1>15 DEF doctorVars
<1> HIDE DEF ClaimHeld, Forfeited, DoctorTypeOK, Active, Goto
<1> QED
  BY <1>1, <1>2, <1>3, <1>4, <1>5, <1>6, <1>7, <1>8,
     <1>9, <1>10, <1>11, <1>12, <1>13, <1>14, <1>15
  DEF DoctorNext, Step

\* Nobody runs with a fresh claim in sight.
LEMMA RunningStep ==
  ASSUME DoctorTypeOK, RunningSawNothing, [DoctorNext]_doctorVars
  PROVE  RunningSawNothing'
<1> USE DEF RunningSawNothing, DoctorTypeOK, Goto
<1>1. ASSUME NEW a \in Attempt, Begin(a) PROVE RunningSawNothing'
  BY <1>1 DEF Begin
<1>2. ASSUME NEW a \in Attempt, Publish(a) PROVE RunningSawNothing'
  BY <1>2 DEF Publish
<1>3. ASSUME NEW a \in Attempt, ListClaims(a) PROVE RunningSawNothing'
  BY <1>3 DEF ListClaims
<1>4. ASSUME NEW a \in Attempt, ReadClaim(a) PROVE RunningSawNothing'
  BY <1>4 DEF ReadClaim, Stale, PidAlive
<1>5. ASSUME NEW a \in Attempt, MisreadClaim(a) PROVE RunningSawNothing'
  BY <1>5 DEF MisreadClaim
<1>6. ASSUME NEW a \in Attempt, ReadOwnClaim(a) PROVE RunningSawNothing'
  BY <1>6 DEF ReadOwnClaim, Forget
<1>7. ASSUME NEW a \in Attempt, Decide(a) PROVE RunningSawNothing'
  BY <1>7 DEF Decide
<1>8. ASSUME NEW a \in Attempt, TurnAway(a) PROVE RunningSawNothing'
  BY <1>8 DEF TurnAway
<1>9. ASSUME NEW a \in Attempt, Finish(a) PROVE RunningSawNothing'
  BY <1>9 DEF Finish
<1>10. ASSUME NEW a \in Attempt, IoFault(a) PROVE RunningSawNothing'
  BY <1>10 DEF IoFault, Forget
<1>11. ASSUME NEW a \in Attempt, ReleaseFault(a) PROVE RunningSawNothing'
  BY <1>11 DEF ReleaseFault
<1>12. ASSUME NEW a \in Attempt, Crash(a) PROVE RunningSawNothing'
  BY <1>12 DEF Crash, Forget
<1>13. ASSUME NEW a \in Attempt, PidReused(a) PROVE RunningSawNothing'
  BY <1>13 DEF PidReused
<1>14. ASSUME NEW a \in Attempt, Expire(a) PROVE RunningSawNothing'
  BY <1>14 DEF Expire
<1>15. CASE UNCHANGED doctorVars
  BY <1>15 DEF doctorVars
<1> HIDE DEF RunningSawNothing, DoctorTypeOK, Goto
<1> QED
  BY <1>1, <1>2, <1>3, <1>4, <1>5, <1>6, <1>7, <1>8,
     <1>9, <1>10, <1>11, <1>12, <1>13, <1>14, <1>15
  DEF DoctorNext, Step

\* Publishing before listing keeps one of two attempts in the other's list.
LEMMA LaterStep ==
  ASSUME DoctorTypeOK, ClaimHeld, LaterSeesEarlier, [DoctorNext]_doctorVars
  PROVE  LaterSeesEarlier'
<1> USE DEF ClaimHeld, LaterSeesEarlier, Forfeited, DoctorTypeOK, Active, Goto
<1>1. ASSUME NEW a \in Attempt, Begin(a) PROVE LaterSeesEarlier'
  BY <1>1 DEF Begin
<1>2. ASSUME NEW a \in Attempt, Publish(a) PROVE LaterSeesEarlier'
  BY <1>2 DEF Publish
<1>3. ASSUME NEW a \in Attempt, ListClaims(a) PROVE LaterSeesEarlier'
  BY <1>3 DEF ListClaims
<1>4. ASSUME NEW a \in Attempt, ReadClaim(a) PROVE LaterSeesEarlier'
  BY <1>4 DEF ReadClaim, Stale, PidAlive
<1>5. ASSUME NEW a \in Attempt, MisreadClaim(a) PROVE LaterSeesEarlier'
  BY <1>5 DEF MisreadClaim
<1>6. ASSUME NEW a \in Attempt, ReadOwnClaim(a) PROVE LaterSeesEarlier'
  BY <1>6 DEF ReadOwnClaim, Forget
<1>7. ASSUME NEW a \in Attempt, Decide(a) PROVE LaterSeesEarlier'
  BY <1>7 DEF Decide
<1>8. ASSUME NEW a \in Attempt, TurnAway(a) PROVE LaterSeesEarlier'
  BY <1>8 DEF TurnAway
<1>9. ASSUME NEW a \in Attempt, Finish(a) PROVE LaterSeesEarlier'
  BY <1>9 DEF Finish
<1>10. ASSUME NEW a \in Attempt, IoFault(a) PROVE LaterSeesEarlier'
  BY <1>10 DEF IoFault, Forget
<1>11. ASSUME NEW a \in Attempt, ReleaseFault(a) PROVE LaterSeesEarlier'
  BY <1>11 DEF ReleaseFault
<1>12. ASSUME NEW a \in Attempt, Crash(a) PROVE LaterSeesEarlier'
  BY <1>12 DEF Crash, Forget
<1>13. ASSUME NEW a \in Attempt, PidReused(a) PROVE LaterSeesEarlier'
  BY <1>13 DEF PidReused
<1>14. ASSUME NEW a \in Attempt, Expire(a) PROVE LaterSeesEarlier'
  BY <1>14 DEF Expire
<1>15. CASE UNCHANGED doctorVars
  BY <1>15 DEF doctorVars
<1> HIDE DEF ClaimHeld, LaterSeesEarlier, Forfeited, DoctorTypeOK, Active, Goto
<1> QED
  BY <1>1, <1>2, <1>3, <1>4, <1>5, <1>6, <1>7, <1>8,
     <1>9, <1>10, <1>11, <1>12, <1>13, <1>14, <1>15
  DEF DoctorNext, Step

\* The inductive invariant: a live claim stays where later listings find it.
THEOREM DoctorInvariant == DoctorSpec => [](DoctorTypeOK /\ ExclusionInv)
<1>1. DoctorInit => DoctorTypeOK /\ ExclusionInv
  <2> SUFFICES ASSUME DoctorInit PROVE DoctorTypeOK /\ ExclusionInv
    OBVIOUS
  <2>1. ExclusionInv
    BY DEF DoctorInit, ExclusionInv, ClaimHeld, LaterSeesEarlier, RunningSawNothing
  <2> QED BY <2>1, DoctorTypeInit
<1>2. DoctorTypeOK /\ ExclusionInv /\ [DoctorNext]_doctorVars => (DoctorTypeOK /\ ExclusionInv)'
  BY DoctorTypeStep, HeldStep, LaterStep, RunningStep DEF ExclusionInv
<1> QED BY <1>1, <1>2, PTL DEF DoctorSpec

\* For any number of doctor calls, machines and faults, two runs with the lock
\* overlap only when one has overrun its time or a reader's disk failed.
THEOREM DoctorRunsAlone == DoctorSpec => []MutualExclusion
<1>1. DoctorTypeOK /\ ExclusionInv => MutualExclusion
  BY DEF ExclusionInv, LaterSeesEarlier, RunningSawNothing, MutualExclusion
<1> QED BY <1>1, DoctorInvariant, PTL

\* No step takes the claim of a live attempt away from it.
THEOREM DoctorClaimKept == DoctorSpec => LiveClaimKept
<1>1. ASSUME DoctorTypeOK, [DoctorNext]_doctorVars
      PROVE  [\A a \in claims \ claims' :
                pc[a] \in Active => Forfeited(a)' \/ pc'[a] # pc[a]]_doctorVars
  <2> SUFFICES ASSUME NEW a \in claims \ claims', pc[a] \in Active, DoctorNext
               PROVE  Forfeited(a)' \/ pc'[a] # pc[a]
    BY <1>1
  <2> USE DEF DoctorTypeOK, Forfeited
  <2>1. PICK b \in Attempt : \/ Step(b) \/ MisreadClaim(b) \/ IoFault(b)
                             \/ ReleaseFault(b) \/ Crash(b) \/ PidReused(b)
                             \/ Expire(b)
    BY DEF DoctorNext
  <2>2. CASE ReadClaim(b)
    BY <1>1, <2>2 DEF ReadClaim, Stale, PidAlive
  <2>3. CASE MisreadClaim(b)
    BY <1>1, <2>3 DEF MisreadClaim
  <2>4. CASE TurnAway(b) \/ Finish(b) \/ IoFault(b)
    BY <1>1, <2>4 DEF TurnAway, Finish, IoFault, Goto, Active
  <2>5. CASE Begin(b) \/ Publish(b) \/ ListClaims(b) \/ ReadOwnClaim(b) \/ Decide(b)
    BY <2>5 DEF Begin, Publish, ListClaims, ReadOwnClaim, Decide
  <2>6. CASE ReleaseFault(b) \/ Crash(b) \/ PidReused(b) \/ Expire(b)
    BY <2>6 DEF ReleaseFault, Crash, PidReused, Expire
  <2> QED BY <2>1, <2>2, <2>3, <2>4, <2>5, <2>6 DEF Step
<1> QED BY <1>1, DoctorInvariant, PTL DEF DoctorSpec, LiveClaimKept

-----------------------------------------------------------------------------
(* What the dead left behind.                                              *)

\* The dead stay dead, so a call takes none of them for alive unless the pid has
\* a new owner; and it is turned away only by what it has seen.
ResidueDead ==
  \A a \in Attempt : \A c \in residue[a] : pc[c] \in Ended /\ Host[c] = Host[a]

SeenAlive ==
  \A a \in Attempt :
    /\ pc[a] \in {"idle", "publish", "list"} => seen[a] = {}
    /\ \A c \in seen[a] \cap residue[a] : c \in reused

TurnedAwaySaw == \A a \in Attempt : pc[a] = "turnedAway" => seen[a] # {}

ResidueInv == ResidueDead /\ SeenAlive /\ TurnedAwaySaw

\* No step revives the dead, nor sees residue that is not taken for alive.
LEMMA ResidueStep ==
  ASSUME DoctorTypeOK, ResidueInv, [DoctorNext]_doctorVars
  PROVE  ResidueInv'
<1> USE DEF ResidueInv, ResidueDead, SeenAlive, TurnedAwaySaw, DoctorTypeOK, Ended, Goto
<1>1. ASSUME NEW a \in Attempt, Begin(a) PROVE ResidueInv'
  BY <1>1 DEF Begin
<1>2. ASSUME NEW a \in Attempt, Publish(a) PROVE ResidueInv'
  BY <1>2 DEF Publish
<1>3. ASSUME NEW a \in Attempt, ListClaims(a) PROVE ResidueInv'
  BY <1>3 DEF ListClaims
<1>4. ASSUME NEW a \in Attempt, ReadClaim(a) PROVE ResidueInv'
  BY <1>4 DEF ReadClaim, Stale, PidAlive, Active
<1>5. ASSUME NEW a \in Attempt, MisreadClaim(a) PROVE ResidueInv'
  BY <1>5 DEF MisreadClaim
<1>6. ASSUME NEW a \in Attempt, ReadOwnClaim(a) PROVE ResidueInv'
  BY <1>6 DEF ReadOwnClaim, Forget
<1>7. ASSUME NEW a \in Attempt, Decide(a) PROVE ResidueInv'
  BY <1>7 DEF Decide
<1>8. ASSUME NEW a \in Attempt, TurnAway(a) PROVE ResidueInv'
  BY <1>8 DEF TurnAway
<1>9. ASSUME NEW a \in Attempt, Finish(a) PROVE ResidueInv'
  BY <1>9 DEF Finish
<1>10. ASSUME NEW a \in Attempt, IoFault(a) PROVE ResidueInv'
  BY <1>10 DEF IoFault, Forget
<1>11. ASSUME NEW a \in Attempt, ReleaseFault(a) PROVE ResidueInv'
  BY <1>11 DEF ReleaseFault
<1>12. ASSUME NEW a \in Attempt, Crash(a) PROVE ResidueInv'
  BY <1>12 DEF Crash, Forget, Active
<1>13. ASSUME NEW a \in Attempt, PidReused(a) PROVE ResidueInv'
  BY <1>13 DEF PidReused
<1>14. ASSUME NEW a \in Attempt, Expire(a) PROVE ResidueInv'
  BY <1>14 DEF Expire
<1>15. CASE UNCHANGED doctorVars
  BY <1>15 DEF doctorVars
<1> HIDE DEF ResidueInv, ResidueDead, SeenAlive, TurnedAwaySaw, DoctorTypeOK, Ended, Goto
<1> QED
  BY <1>1, <1>2, <1>3, <1>4, <1>5, <1>6, <1>7, <1>8,
     <1>9, <1>10, <1>11, <1>12, <1>13, <1>14, <1>15
  DEF DoctorNext, Step

\* Claims that dead doctors of the same machine left before a call began do not
\* turn it away, for any number of calls, machines and faults, unless one of
\* their pids has a new owner.
THEOREM ResidueHarmless == DoctorSpec => []ResidueNeverBlocks
<1>1. DoctorInit => ResidueInv
  BY DEF DoctorInit, ResidueInv, ResidueDead, SeenAlive, TurnedAwaySaw
<1>2. DoctorTypeOK /\ ResidueInv /\ [DoctorNext]_doctorVars => ResidueInv'
  BY ResidueStep
<1>3. ResidueInv => ResidueNeverBlocks
  BY DEF ResidueInv, SeenAlive, TurnedAwaySaw, ResidueNeverBlocks
<1>4. DoctorSpec => []DoctorTypeOK
  BY DoctorInvariant, PTL
<1> QED
  BY <1>1, <1>2, <1>3, <1>4, PTL DEF DoctorSpec
=============================================================================
