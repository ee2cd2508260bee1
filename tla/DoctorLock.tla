----------------------------- MODULE DoctorLock -----------------------------
(***************************************************************************)
(* The guard against concurrent doctor runs (src/doctor/singleton-lock.ts):*)
(* a process publishes a claim file of its own, then reads every claim in  *)
(* the directory, and backs off when a fresh claim of another process is   *)
(* there.  An attempt stands for one call of acquireDoctorLock, whose      *)
(* claim name (a random UUID) is never used again.  Every action is one    *)
(* file operation on the shared claims directory.                          *)
(***************************************************************************)
EXTENDS Naturals, FiniteSets

CONSTANTS
  Attempt,      \* calls of acquireDoctorLock
  Host,         \* the machine each attempt runs on
  MaxFaults     \* bound on crashes, I/O faults and pid reuses

ASSUME DoctorLockAssumption ==
  /\ Host \in [Attempt -> STRING]
  /\ MaxFaults \in Nat

VARIABLES
  claims,    \* attempts whose claim file is in the claims directory
  pc,        \* next step of each attempt
  todo,      \* claims an attempt has listed and not read yet
  seen,      \* claims an attempt has read and found fresh
  overdue,   \* claims older than DOCTOR_LOCK_STALE_MS
  reused,    \* finished attempts whose pid an unrelated process now has
  faults,    \* faults so far
  misread,   \* claims removed because reading them failed
  residue    \* what an attempt could have known to be left behind by the dead

doctorVars == <<claims, pc, todo, seen, overdue, reused, faults, misread, residue>>

Active == {"publish", "list", "scan", "turnedAway", "running", "degraded"}
Ended == {"blocked", "finished", "crashed"}
PC == {"idle"} \cup Active \cup Ended

DoctorTypeOK ==
  /\ claims \in SUBSET Attempt
  /\ pc \in [Attempt -> PC]
  /\ todo \in [Attempt -> SUBSET Attempt]
  /\ \A a \in Attempt : todo[a] # {} => pc[a] = "scan"
  /\ seen \in [Attempt -> SUBSET Attempt]
  /\ overdue \in SUBSET Attempt
  /\ reused \in SUBSET Attempt
  /\ faults \in 0..MaxFaults
  /\ misread \in SUBSET Attempt
  /\ residue \in [Attempt -> SUBSET Attempt]

DoctorInit ==
  /\ claims = {} /\ overdue = {} /\ reused = {} /\ faults = 0
  /\ misread = {}
  /\ pc = [a \in Attempt |-> "idle"]
  /\ todo = [a \in Attempt |-> {}]
  /\ seen = [a \in Attempt |-> {}]
  /\ residue = [a \in Attempt |-> {}]

-----------------------------------------------------------------------------

Goto(a, l) == pc' = [pc EXCEPT ![a] = l]

Fault == /\ faults < MaxFaults
         /\ faults' = faults + 1

\* What a call has read is lost with it.
Forget(a) == /\ todo' = [todo EXCEPT ![a] = {}]
             /\ seen' = [seen EXCEPT ![a] = {}]
             /\ residue' = [residue EXCEPT ![a] = {}]

PidAlive(a) == pc[a] \in Active \/ a \in reused

\* Mutant: a lock is stale only when it is too old.
StaleByAge(c, reader) == c \in overdue

\* Mutant: the pid is probed whatever the host, as if pids were global.
StaleByLocalPid(c, reader) ==
  c \in overdue \/ Host[c] # Host[reader] \/ ~PidAlive(c)

\* isStaleDoctorLock: too old, or dead as far as its own machine can tell.
Stale(c, reader) ==
  c \in overdue \/ (Host[c] = Host[reader] /\ ~PidAlive(c))

\* The call begins: lock id and start time are chosen.
Begin(a) ==
  /\ pc[a] = "idle"
  /\ Goto(a, "publish")
  /\ residue' = [residue EXCEPT ![a] =
       {c \in claims : pc[c] \in Ended /\ Host[c] = Host[a]}]
  /\ UNCHANGED <<claims, todo, seen, overdue, reused, faults, misread>>

\* The temporary file is renamed to its claim name: published at once.
Publish(a) ==
  /\ pc[a] = "publish"
  /\ claims' = claims \cup {a}
  /\ Goto(a, "list")
  /\ UNCHANGED <<todo, seen, overdue, reused, faults, residue, misread>>

ListClaims(a) ==
  /\ pc[a] = "list"
  /\ todo' = [todo EXCEPT ![a] = claims]
  /\ Goto(a, "scan")
  /\ UNCHANGED <<claims, seen, overdue, reused, faults, residue, misread>>

\* One listed claim of another attempt is read: gone or stale claims are
\* removed, fresh ones are kept for the decision.
ReadClaim(a) ==
  /\ pc[a] = "scan"
  /\ \E c \in todo[a] \ {a} :
       /\ todo' = [todo EXCEPT ![a] = @ \ {c}]
       /\ \/ /\ c \notin claims \/ Stale(c, a)
             /\ claims' = claims \ {c}
             /\ UNCHANGED seen
          \/ /\ c \in claims /\ ~Stale(c, a)
             /\ seen' = [seen EXCEPT ![a] = @ \cup {c}]
             /\ UNCHANGED claims
  /\ UNCHANGED <<pc, overdue, reused, faults, residue, misread>>

\* Reading a claim fails: it is taken for a broken one and removed.
MisreadClaim(a) ==
  /\ pc[a] = "scan"
  /\ Fault
  /\ \E c \in (todo[a] \cap claims) \ {a} :
       /\ todo' = [todo EXCEPT ![a] = @ \ {c}]
       /\ claims' = claims \ {c}
       /\ misread' = misread \cup {c}
  /\ UNCHANGED <<pc, seen, overdue, reused, residue>>

\* The attempt's own claim: if another removed it, the call degrades open.
ReadOwnClaim(a) ==
  /\ pc[a] = "scan" /\ a \in todo[a]
  /\ \/ /\ a \in claims
        /\ todo' = [todo EXCEPT ![a] = @ \ {a}]
        /\ UNCHANGED <<pc, seen, residue>>
     \/ /\ a \notin claims
        /\ Goto(a, "degraded")
        /\ Forget(a)
  /\ UNCHANGED <<claims, overdue, reused, faults, misread>>

\* Mutant: the decision falls before every listed claim has been read.
DecideEarly(a) ==
  /\ pc[a] = "scan" /\ a \notin todo[a]
  /\ Goto(a, IF seen[a] = {} THEN "running" ELSE "turnedAway")
  /\ UNCHANGED <<claims, todo, seen, overdue, reused, faults, residue, misread>>

\* Every listed claim has been read: any fresh one of another turns it away.
Decide(a) ==
  /\ pc[a] = "scan" /\ todo[a] = {}
  /\ Goto(a, IF seen[a] = {} THEN "running" ELSE "turnedAway")
  /\ UNCHANGED <<claims, todo, seen, overdue, reused, faults, residue, misread>>

\* release(), before the blocked call returns.
TurnAway(a) ==
  /\ pc[a] = "turnedAway"
  /\ claims' = claims \ {a}
  /\ Goto(a, "blocked")
  /\ UNCHANGED <<todo, seen, overdue, reused, faults, residue, misread>>

\* The doctor run is over; a degraded one has nothing to release.
Finish(a) ==
  /\ \/ pc[a] = "running" /\ claims' = claims \ {a}
     \/ pc[a] = "degraded" /\ UNCHANGED claims
  /\ Goto(a, "finished")
  /\ UNCHANGED <<todo, seen, overdue, reused, faults, residue, misread>>

\* Any file operation of the call fails: what was published is released and
\* the doctor runs without the lock.
IoFault(a) ==
  /\ pc[a] \in {"publish", "list", "scan"}
  /\ Fault
  /\ claims' = claims \ {a}
  /\ Goto(a, "degraded")
  /\ Forget(a)
  /\ UNCHANGED <<overdue, reused, misread>>

\* release() itself fails, which is left to stale recovery.
ReleaseFault(a) ==
  /\ pc[a] \in {"turnedAway", "running"}
  /\ Fault
  /\ Goto(a, IF pc[a] = "running" THEN "finished" ELSE "blocked")
  /\ UNCHANGED <<claims, todo, seen, overdue, reused, residue, misread>>

Crash(a) ==
  /\ pc[a] \in Active
  /\ Fault
  /\ Goto(a, "crashed")
  /\ Forget(a)
  /\ UNCHANGED <<claims, overdue, reused, misread>>

\* Only matters while the claim is there.
PidReused(a) ==
  /\ pc[a] \in Ended /\ a \in claims \ reused
  /\ Fault
  /\ reused' = reused \cup {a}
  /\ UNCHANGED <<claims, pc, todo, seen, overdue, residue, misread>>

\* Forty-five minutes after the call began.
Expire(a) ==
  /\ a \notin overdue /\ (a \in claims \/ pc[a] \in Active)
  /\ overdue' = overdue \cup {a}
  /\ UNCHANGED <<claims, pc, todo, seen, reused, faults, residue, misread>>

Step(a) == Begin(a) \/ Publish(a) \/ ListClaims(a) \/ ReadClaim(a)
           \/ ReadOwnClaim(a) \/ Decide(a) \/ TurnAway(a) \/ Finish(a)

DoctorNext ==
  \E a \in Attempt : \/ Step(a) \/ MisreadClaim(a) \/ IoFault(a)
                     \/ ReleaseFault(a) \/ Crash(a) \/ PidReused(a)
                     \/ Expire(a)

DoctorSpec == DoctorInit /\ [][DoctorNext]_doctorVars

-----------------------------------------------------------------------------
(* Properties.                                                             *)

\* An attempt whose claim others may remove while it runs: it has overrun its
\* 45 minutes, or a reader's file system failed.
Forfeited(a) == a \in overdue \cup misread

\* Of two doctors that run with the lock, one has forfeited it: publishing
\* before listing excludes concurrent runs, on any machines.
MutualExclusion ==
  \A a, b \in Attempt :
    pc[a] = "running" /\ pc[b] = "running" /\ a # b
      => Forfeited(a) \/ Forfeited(b)

\* The claim of a running attempt is removed by nobody else before it has
\* forfeited it, not even by a doctor on another machine.
LiveClaimKept ==
  [][\A a \in claims \ claims' :
       pc[a] \in Active => Forfeited(a)' \/ pc'[a] # pc[a]]_doctorVars

\* What is left behind by a dead doctor of the same machine before a call
\* begins does not block that call, unless its pid has a new owner.
ResidueNeverBlocks ==
  \A a \in Attempt :
    pc[a] = "turnedAway" => \E c \in seen[a] : c \notin residue[a] \/ c \in reused

\* Why MutualExclusion holds: a live attempt's claim stays where later
\* listings find it, so of two attempts that have both listed the claims one
\* has the other's claim before it.
ClaimHeld ==
  \A a \in Attempt :
    pc[a] \in {"list", "scan", "running"} /\ ~Forfeited(a) => a \in claims

LaterSeesEarlier ==
  \A a, b \in Attempt :
    /\ pc[a] \in {"scan", "running"} /\ pc[b] \in {"scan", "running"}
    /\ a # b /\ ~Forfeited(a) /\ ~Forfeited(b)
    => a \in todo[b] \cup seen[b] \/ b \in todo[a] \cup seen[a]

RunningSawNothing ==
  \A a \in Attempt : pc[a] = "running" => todo[a] = {} /\ seen[a] = {}

ExclusionInv == ClaimHeld /\ LaterSeesEarlier /\ RunningSawNothing
=============================================================================
