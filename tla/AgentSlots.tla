----------------------------- MODULE AgentSlots -----------------------------
(***************************************************************************)
(* The slots file of parallel agents (src/runtime/agent-slots.ts).  A hook *)
(* process records the start of each subagent, another one its end, every  *)
(* session start sweeps stale slots, and the team runner records its       *)
(* members.  Each of them loads the file, changes it and replaces it by an *)
(* atomic rename; nothing keeps two of them apart.                         *)
(***************************************************************************)
EXTENDS Naturals, FiniteSets, Sequences

CONSTANTS
  Agent,     \* subagents, each recorded by the hooks (agent_guard)
  Member,    \* members of a team, recorded by the runner (team_runner)
  Sweeper    \* the session-start process

ASSUME AgentSlotsAssumption ==
  /\ IsFiniteSet(Agent \cup Member)
  /\ Agent \cap Member = {} /\ Sweeper \notin Agent \cup Member

\* A slot is identified with the subagent or member it stands for.
Slot == Agent \cup Member
Status == {"absent", "running", "completed", "cancelled"}
File == [Slot -> Status]

VARIABLES
  file,   \* the slots on disk
  fired,  \* the slots in the order of their fired_at
  stale,  \* the slots fired more than five minutes ago
  phase,  \* where each subagent, member and the sweeper is
  copy,   \* the changed file that a process holds between load and save
  apart,  \* history: every load so far saw the file, and no other process at work
  whole   \* history: no hook, no read and no write has failed so far

vars == <<file, fired, stale, phase, copy, apart, whole>>

Actor == Slot \cup {Sweeper}
Phase == {"unborn", "firing", "running", "ending", "gone", "sweeping"}

TypeOK ==
  /\ file \in File
  /\ fired \in Seq(Slot) /\ Len(fired) <= Cardinality(Slot)
  /\ stale \in SUBSET Slot
  /\ phase \in [Actor -> Phase]
  /\ copy \in [Actor -> File]
  /\ apart \in BOOLEAN /\ whole \in BOOLEAN

Absent == [s \in Slot |-> "absent"]

Init ==
  /\ file = Absent
  /\ fired = <<>>
  /\ stale = {}
  /\ phase = [a \in Actor |-> IF a = Sweeper THEN "gone" ELSE "unborn"]
  /\ copy = [a \in Actor |-> Absent]
  /\ apart = TRUE /\ whole = TRUE

-----------------------------------------------------------------------------
(* The changes made to a loaded file.                                      *)

Running(f) == {a \in Agent : f[a] = "running"}

\* Mutant: the comparison with the threshold is the wrong way round.
SweptFresh(f) ==
  [s \in Slot |-> IF s \in Running(f) \ stale THEN "cancelled" ELSE f[s]]

\* Mutant: a stale slot is cancelled whatever its status.
SweptSettled(f) ==
  [s \in Slot |-> IF f[s] # "absent" /\ s \in Agent \cap stale THEN "cancelled" ELSE f[s]]

\* Stale slots of subagents are cancelled; those of members are left alone.
Swept(f) ==
  [s \in Slot |-> IF s \in Running(f) \cap stale THEN "cancelled" ELSE f[s]]

\* The running slots that were fired first.
Oldest(f) ==
  {a \in Running(f) : \A i, j \in DOMAIN fired :
     fired[i] = a /\ fired[j] \in Running(f) => i <= j}

\* Mutant: the end of one subagent releases every running slot.
ReleasedAll(f) == [s \in Slot |-> IF s \in Running(f) THEN "completed" ELSE f[s]]

\* A payload that does not say which subagent ended: the oldest slot goes.
Released(f) == [s \in Slot |-> IF s \in Oldest(f) THEN "completed" ELSE f[s]]

-----------------------------------------------------------------------------
(* The processes.                                                          *)

Busy(a) == phase[a] \in {"firing", "ending", "sweeping"}
Quiet == \A a \in Actor : ~Busy(a)

\* A file that cannot be read counts as empty.
Loadable == {file, Absent}

\* A process has loaded f and holds its changed copy.
Load(a, f, next, changed) ==
  /\ apart' = (apart /\ Quiet /\ f = file)
  /\ phase' = [phase EXCEPT ![a] = next]
  /\ copy' = [copy EXCEPT ![a] = changed]
  /\ whole' = (whole /\ f = file)
  /\ UNCHANGED <<file, stale>>

After(a) == IF phase[a] = "firing" THEN "running" ELSE "gone"

\* The whole file is replaced by the copy.
Save(a) ==
  /\ Busy(a)
  /\ file' = copy[a]
  /\ phase' = [phase EXCEPT ![a] = After(a)]
  /\ copy' = [copy EXCEPT ![a] = Absent]
  /\ UNCHANGED <<fired, stale, apart, whole>>

\* A failed write, or a hook that is killed, is swallowed: the subagent or the
\* member goes on without it.
SaveLost(a) ==
  /\ Busy(a)
  /\ phase' = [phase EXCEPT ![a] = After(a)]
  /\ copy' = [copy EXCEPT ![a] = Absent]
  /\ whole' = FALSE
  /\ UNCHANGED <<file, fired, stale, apart>>

\* recordGuardFire: stale slots are swept and the new one added in one write.
GuardFire(a) ==
  /\ phase[a] = "unborn"
  /\ fired' = Append(fired, a)
  /\ \E f \in Loadable : Load(a, f, "firing", [Swept(f) EXCEPT ![a] = "running"])

\* fireSlot.
MemberFire(m) ==
  /\ phase[m] = "unborn"
  /\ fired' = Append(fired, m)
  /\ \E f \in Loadable : Load(m, f, "firing", [f EXCEPT ![m] = "running"])

\* releaseOldestGuardSlot; without a running slot nothing is written.
GuardStop(a) ==
  /\ phase[a] = "running"
  /\ \E f \in Loadable :
       \/ Running(f) # {} /\ Load(a, f, "ending", Released(f))
       \/ Running(f) = {} /\ Load(a, f, "gone", Absent)
  /\ UNCHANGED fired

\* releaseSlot; a slot that is not there, or released, is not written.
MemberStop(m) ==
  /\ phase[m] = "running"
  /\ \E f \in Loadable :
       \/ f[m] = "running" /\ Load(m, f, "ending", [f EXCEPT ![m] = "completed"])
       \/ f[m] # "running" /\ Load(m, f, "gone", Absent)
  /\ UNCHANGED fired

\* The hook of an ended subagent never runs, a recorded subagent is never
\* started, or the team runner dies.
StopLost(s) ==
  /\ phase[s] = "running"
  /\ phase' = [phase EXCEPT ![s] = "gone"]
  /\ whole' = FALSE
  /\ UNCHANGED <<file, fired, stale, copy, apart>>

\* sweepStaleGuardSlots at a session start; nothing is written for nothing.
Sweep ==
  /\ phase[Sweeper] = "gone"
  /\ Swept(file) # file
  /\ Load(Sweeper, file, "sweeping", Swept(file))
  /\ UNCHANGED fired

\* Five minutes have passed since a slot and all before it were fired.
Age(i) ==
  /\ fired[i] \notin stale
  /\ \A j \in 1..(i - 1) : fired[j] \in stale
  /\ stale' = stale \cup {fired[i]}
  /\ UNCHANGED <<file, fired, phase, copy, apart, whole>>

Next ==
  \/ \E a \in Agent : GuardFire(a) \/ GuardStop(a)
  \/ \E m \in Member : MemberFire(m) \/ MemberStop(m)
  \/ \E s \in Slot : StopLost(s)
  \/ \E a \in Actor : Save(a) \/ SaveLost(a)
  \/ \E i \in DOMAIN fired : Age(i)
  \/ Sweep

Spec == Init /\ [][Next]_vars

\* Hooks finish, time passes, sessions keep starting, and a session start that
\* writes again and again writes in the end.
FairSpec ==
  /\ Spec
  /\ \A a \in Actor : WF_vars(Save(a) \/ SaveLost(a))
  /\ SF_vars(Save(Sweeper))
  /\ WF_vars(\E i \in DOMAIN fired : Age(i))
  /\ SF_vars(Sweep)

-----------------------------------------------------------------------------
(* Properties.                                                             *)

\* Subagents that run and whose start has been recorded.
Live == {a \in Agent : phase[a] \in {"running", "ending"}}

Exact == Quiet => Cardinality(Running(file)) = Cardinality(Live)

\* One end releases one slot, so as long as no two processes overlap, no hook
\* fails and no slot outlives the threshold, the number of running slots is exactly
\* that of the running subagents whenever no hook is at work (what agent-slots.ts:150
\* says of releaseOldestGuardSlot; two hooks that overlap make it false); and a member's
\* slot then says running exactly while the member runs, whatever is recorded
\* and released around it.
CalmExact ==
  apart /\ whole /\ stale = {} =>
    /\ Exact
    /\ \A m \in Member : ~Busy(m) => (file[m] = "running" <=> phase[m] = "running")

Settled == {"completed", "cancelled"}

\* As long as no two processes overlap, no writer changes a slot that has been
\* released: neither by running it again nor by sweeping what had ended.  Lost
\* hooks, lost writes and slots that outlive the threshold are no exception.
SettledForGood ==
  [][apart => \A s \in Slot : file[s] \in Settled => file'[s] = file[s]]_vars

\* No slot of a subagent runs for ever: lost ends and lost writes are made good
\* by the sweeps of later sessions.
SelfHeals == \A a \in Agent : file[a] = "running" ~> file[a] # "running"
=============================================================================
