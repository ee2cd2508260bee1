---------------------------- MODULE StopRefresh ----------------------------
(***************************************************************************)
(* The Stop-hook refresh of harness.db: a lease and a demand marker kept   *)
(* as files under .ut-tdd/state/stop-refresh, shared by every Stop hook    *)
(* and by the detached worker each hook may launch                         *)
(* (src/state-db/stop-refresh.ts, src/state-db/stop-refresh-coordinator.ts)*)
(*                                                                         *)
(* A generation g stands for one acquire call (a random UUID in the code)  *)
(* with its two processes: <<"hook", g>>, which runs                       *)
(* spawnDetachedStopRefresh, and <<"worker", g>>, which runs               *)
(* runCoalescedStopRefresh.  Every action is one file-system operation     *)
(* that another process can observe; operations on files no other process  *)
(* can reach yet are folded into the step before them.                     *)
(***************************************************************************)
EXTENDS Naturals, FiniteSets

CONSTANTS
  Gen,          \* generations, i.e. concurrent slots for Stop hooks
  None,         \* no generation
  Host,         \* the machine each generation's processes run on
  Watching,     \* FALSE drops the demand ghost from runs that do not use it
  BirthProbe,   \* TRUE where any pid's birth can be read (/proc), as on linux
  MaxMishaps    \* bound on crashes, failed runs and launches, and pid reuses

ASSUME StopRefreshAssumption ==
  /\ None \notin Gen
  /\ Host \in [Gen -> STRING]
  /\ Watching \in BOOLEAN
  /\ BirthProbe \in BOOLEAN
  /\ MaxMishaps \in Nat

Roles == {"hook", "worker"}
Proc == Roles \X Gen

\* An owner record of a generation: claim-<pid>.json or ack-<pid>.json.
Record == [kind : {"claim", "ack"}, role : Roles, verified : BOOLEAN]
HookClaim == [kind |-> "claim", role |-> "hook", verified |-> TRUE]
WorkerAck == [kind |-> "ack", role |-> "worker", verified |-> TRUE]
WorkerClaim(v) == [kind |-> "claim", role |-> "worker", verified |-> v]

VARIABLES
  dirty,      \* the demand marker "dirty" exists
  active,     \* the generation the hard link "active" names, or None
  anchor,     \* generations whose directory and anchor.json exist
  claims,     \* owner records in each generation's directory
  claimed,    \* generations g for which the marker claimed-<g> exists
  pc,         \* next step of each process
  target,     \* the generation a hook is taking over
  moved,      \* what a process's rename of "active" carried away
  attempt,    \* loop counter of a worker
  reused,     \* dead processes whose pid an unrelated process now has
  aged,       \* generations older than UNVERIFIABLE_OWNER_TTL_MS
  mishaps,    \* mishaps so far
  watch,      \* one demand, chosen freely: "none", "pending" or "served"
  covering,   \* generations whose claimed demand includes the watched one
  stranded    \* the watched demand is in a claimed marker no one reads again

files == <<dirty, active, anchor, claims, claimed>>
local == <<pc, target, moved, attempt>>
environment == <<reused, aged, mishaps>>
demand == <<watch, covering, stranded>>
vars == <<files, local, environment, demand>>

HookPC == {"idle", "link", "inspect", "restoreMark", "restoreRemove",
           "takeoverCheck", "takeoverRename", "takeoverVerify", "relink",
           "spawn", "transfer", "returned"}
WorkerPC == {"unborn", "join", "retireClaims", "joined", "claimCheck",
             "claimRename", "claimVerify", "refresh", "complete",
             "retryMark", "retryRemove"}
ReleasePC == {"releaseCheck", "releaseRename", "releaseVerify"}
PC == HookPC \cup WorkerPC \cup ReleasePC \cup {"gone"}

TypeOK ==
  /\ dirty \in BOOLEAN
  /\ active \in Gen \cup {None}
  /\ anchor \in SUBSET Gen
  /\ claims \in [Gen -> SUBSET Record]
  /\ claimed \in SUBSET Gen
  /\ pc \in [Proc -> PC]
  /\ \A g \in Gen : /\ pc[<<"hook", g>>] \notin WorkerPC
                    /\ pc[<<"worker", g>>] \notin HookPC
  /\ target \in [Gen -> Gen \cup {None}]
  /\ moved \in [Proc -> Gen \cup {None}]
  /\ attempt \in [Gen -> 0..1]
  /\ reused \in SUBSET Proc
  /\ aged \in SUBSET Gen
  /\ mishaps \in 0..MaxMishaps
  /\ watch \in {"none", "pending", "served"}
  /\ covering \in SUBSET Gen
  /\ stranded \in BOOLEAN

Init ==
  /\ dirty = FALSE /\ active = None
  /\ anchor = {} /\ claimed = {}
  /\ claims = [g \in Gen |-> {}]
  /\ pc = [p \in Proc |-> IF p[1] = "hook" THEN "idle" ELSE "unborn"]
  /\ target = [g \in Gen |-> None]
  /\ moved = [p \in Proc |-> None]
  /\ attempt = [g \in Gen |-> 0]
  /\ reused = {} /\ aged = {} /\ mishaps = 0
  /\ watch = "none" /\ covering = {} /\ stranded = FALSE

-----------------------------------------------------------------------------
(* Reading the lease.                                                      *)

Running(p) == pc[p] \notin {"idle", "unborn", "gone"}

\* Mutant: every failure of process.kill(pid, 0) is read as "alive".
PidAliveOnAnyError(p) == TRUE

\* A live pid: the process itself, or an unrelated one that got its number.
PidAlive(p) == Running(p) \/ p \in reused

\* readActiveOwner: the link must name a generation whose anchor is there.
ActiveOwner == IF active \in anchor THEN active ELSE None

Owns(g) == ActiveOwner = g

\* The records of g that count: an ack supersedes the claim of the same pid.
Canonical(g) ==
  {r \in claims[g] : r.kind = "claim" =>
     ~\E a \in claims[g] : a.kind = "ack" /\ a.role = r.role}

Holders(g) == {r.role : r \in Canonical(g)}

\* Does the birth that `observer` can read leave the record unrefuted?  A
\* reused pid is refuted only by a readable birth and a verified record.
BirthMatches(g, r) ==
  \/ ~BirthProbe
  \/ Running(<<r.role, g>>)
  \/ ~r.verified

\* Mutant: an owner needs all of its recorded processes.
OwnerActiveIfAllAlive(g, observer) ==
  IF Host[g] # Host[observer]
  THEN g \notin aged
  ELSE \A r \in Canonical(g) : PidAlive(<<r.role, g>>) /\ BirthMatches(g, r)

\* Mutant: the time to live is forgotten for a foreign owner.
OwnerActiveForeignForever(g, observer) ==
  \/ Host[g] # Host[observer]
  \/ \E r \in Canonical(g) : PidAlive(<<r.role, g>>) /\ BirthMatches(g, r)

OwnerStillActive(g, observer) ==
  IF Host[g] # Host[observer]
  THEN g \notin aged
  ELSE \E r \in Canonical(g) : PidAlive(<<r.role, g>>) /\ BirthMatches(g, r)

-----------------------------------------------------------------------------
(* Bookkeeping shared by the actions.                                      *)

Goto(p, l) == pc' = [pc EXCEPT ![p] = l]

\* The point a process returns to when its release is over.
AfterRelease(p) == IF p[1] = "hook" THEN "returned" ELSE "gone"

Mishap == /\ mishaps < MaxMishaps
          /\ mishaps' = mishaps + 1

\* removeGeneration: the directory with its anchor and owner records.
RemoveGeneration(g) == /\ anchor' = anchor \ {g}
                       /\ claims' = [claims EXCEPT ![g] = {}]

-----------------------------------------------------------------------------
(* The hook: spawnDetachedStopRefresh and acquireStopRefreshLease.         *)

\* A Stop event: the demand is marked before anything else; then the new
\* generation's directory is written, which nobody reads until it is linked.
StopEvent(g) ==
  /\ pc[<<"hook", g>>] = "idle"
  /\ dirty' = TRUE
  /\ anchor' = anchor \cup {g}
  /\ claims' = [claims EXCEPT ![g] = {HookClaim}]
  /\ watch' \in IF Watching /\ watch = "none" THEN {"none", "pending"} ELSE {watch}
  /\ Goto(<<"hook", g>>, "link")
  /\ UNCHANGED <<active, claimed, target, moved, attempt, environment, covering,
                 stranded>>

\* linkSync(anchor, active): atomic, EEXIST when a link is there.
LinkActive(g) ==
  /\ pc[<<"hook", g>>] = "link"
  /\ \/ /\ active = None
        /\ active' = g
        /\ Goto(<<"hook", g>>, "spawn")
     \/ /\ active # None
        /\ Goto(<<"hook", g>>, "inspect")
        /\ UNCHANGED active
  /\ UNCHANGED <<dirty, anchor, claims, claimed, target, moved, attempt,
                 environment, demand>>

\* Give up without the lease, leaving the demand marker behind.
Coalesce(g) ==
  /\ RemoveGeneration(g)
  /\ target' = [target EXCEPT ![g] = None]
  /\ Goto(<<"hook", g>>, "returned")

\* A live or unreadable owner coalesces this Stop; a dead one is taken over.
InspectOwner(g) ==
  /\ pc[<<"hook", g>>] = "inspect"
  /\ LET owner == ActiveOwner
         dead == IF owner = None THEN FALSE ELSE ~OwnerStillActive(owner, g)
     IN  \/ /\ ~dead
            /\ Coalesce(g)
         \/ /\ dead
            /\ target' = [target EXCEPT ![g] = owner]
            /\ Goto(<<"hook", g>>, "restoreMark")
            /\ UNCHANGED <<anchor, claims>>
  /\ UNCHANGED <<dirty, active, claimed, moved, attempt, environment, demand>>

\* Mutant: the claimed marker goes without the demand being marked again.
RestoreMarkForgotten(g) ==
  /\ pc[<<"hook", g>>] = "restoreMark"
  /\ Goto(<<"hook", g>>, IF target[g] \in claimed THEN "restoreRemove"
                                                 ELSE "takeoverCheck")
  /\ UNCHANGED <<files, target, moved, attempt, environment, demand>>

\* restoreClaimedDemand: mark dirty first, only then drop the claimed marker.
RestoreMark(g) ==
  /\ pc[<<"hook", g>>] = "restoreMark"
  /\ \/ /\ target[g] \in claimed
        /\ dirty' = TRUE
        /\ Goto(<<"hook", g>>, "restoreRemove")
     \/ /\ target[g] \notin claimed
        /\ Goto(<<"hook", g>>, "takeoverCheck")
        /\ UNCHANGED dirty
  /\ UNCHANGED <<active, anchor, claims, claimed, target, moved, attempt,
                 environment, demand>>

RestoreRemove(g) ==
  /\ pc[<<"hook", g>>] = "restoreRemove"
  /\ claimed' = claimed \ {target[g]}
  /\ Goto(<<"hook", g>>, "takeoverCheck")
  /\ UNCHANGED <<dirty, active, anchor, claims, target, moved, attempt,
                 environment, demand>>

\* moveActiveGeneration, first half: is "active" still a link to g's anchor?
StillLinked(g) == active = g /\ g \in anchor

TakeoverCheck(g) ==
  /\ pc[<<"hook", g>>] = "takeoverCheck"
  /\ \/ /\ StillLinked(target[g])
        /\ Goto(<<"hook", g>>, "takeoverRename")
        /\ UNCHANGED <<anchor, claims, target>>
     \/ /\ ~StillLinked(target[g])
        /\ Coalesce(g)
  /\ UNCHANGED <<dirty, active, claimed, moved, attempt, environment, demand>>

\* The rename takes whatever "active" names by now.
TakeoverRename(g) ==
  /\ pc[<<"hook", g>>] = "takeoverRename"
  /\ \/ /\ active # None
        /\ active' = None
        /\ moved' = [moved EXCEPT ![<<"hook", g>>] = active]
        /\ Goto(<<"hook", g>>, "takeoverVerify")
        /\ UNCHANGED <<anchor, claims, target>>
     \/ /\ active = None
        /\ Coalesce(g)
        /\ UNCHANGED <<active, moved>>
  /\ UNCHANGED <<dirty, claimed, attempt, environment, demand>>

\* The tombstone is compared with the anchor after the fact.
TakeoverVerify(g) ==
  /\ pc[<<"hook", g>>] = "takeoverVerify"
  /\ moved' = [moved EXCEPT ![<<"hook", g>>] = None]
  /\ \/ /\ moved[<<"hook", g>>] = target[g]
        /\ target[g] \in anchor
        /\ RemoveGeneration(target[g])
        /\ target' = [target EXCEPT ![g] = None]
        /\ Goto(<<"hook", g>>, "relink")
     \/ /\ moved[<<"hook", g>>] # target[g] \/ target[g] \notin anchor
        /\ Coalesce(g)
  /\ UNCHANGED <<dirty, active, claimed, attempt, environment, demand>>

\* The second linkSync: EEXIST is caught and the acquire reports unavailable.
Relink(g) ==
  /\ pc[<<"hook", g>>] = "relink"
  /\ \/ /\ active = None
        /\ active' = g
        /\ Goto(<<"hook", g>>, "spawn")
        /\ UNCHANGED <<anchor, claims, target>>
     \/ /\ active # None
        /\ Coalesce(g)
        /\ UNCHANGED active
  /\ UNCHANGED <<dirty, claimed, moved, attempt, environment, demand>>

SpawnWorker(g) ==
  /\ pc[<<"hook", g>>] = "spawn"
  /\ pc' = [pc EXCEPT ![<<"hook", g>>] = "transfer", ![<<"worker", g>>] = "join"]
  /\ UNCHANGED <<files, target, moved, attempt, environment, demand>>

\* No usable entry point, a Bun runtime, or a failed spawn: release at once.
SpawnRefused(g) ==
  /\ pc[<<"hook", g>>] = "spawn"
  /\ Mishap
  /\ Goto(<<"hook", g>>, "releaseCheck")
  /\ UNCHANGED <<files, target, moved, attempt, reused, aged, demand>>

\* transferStopRefreshLease: the parent writes the child's claim.  A birth
\* that cannot be read makes it an unverified claim.
Transfer(g) ==
  /\ pc[<<"hook", g>>] = "transfer"
  /\ \/ /\ Owns(g) /\ "hook" \in Holders(g)
        /\ claims' = [claims EXCEPT ![g] = @ \cup
             {WorkerClaim(BirthProbe /\ Running(<<"worker", g>>))}]
        /\ Goto(<<"hook", g>>, "returned")
     \/ /\ ~(Owns(g) /\ "hook" \in Holders(g))
        /\ Goto(<<"hook", g>>, "releaseCheck")
        /\ UNCHANGED claims
  /\ UNCHANGED <<dirty, active, anchor, claimed, target, moved, attempt,
                 environment, demand>>

HookExit(g) ==
  /\ pc[<<"hook", g>>] = "returned"
  /\ Goto(<<"hook", g>>, "gone")
  /\ UNCHANGED <<files, target, moved, attempt, environment, demand>>

-----------------------------------------------------------------------------
(* releaseStopRefreshLease, run by a hook or by a worker.                  *)

ReleaseCheck(p) ==
  /\ pc[p] = "releaseCheck"
  /\ Goto(p, IF Owns(p[2]) THEN "releaseRename" ELSE AfterRelease(p))
  /\ UNCHANGED <<files, target, moved, attempt, environment, demand>>

ReleaseRename(p) ==
  /\ pc[p] = "releaseRename"
  /\ \/ /\ active # None
        /\ active' = None
        /\ moved' = [moved EXCEPT ![p] = active]
        /\ Goto(p, "releaseVerify")
     \/ /\ active = None
        /\ Goto(p, AfterRelease(p))
        /\ UNCHANGED <<active, moved>>
  /\ UNCHANGED <<dirty, anchor, claims, claimed, target, attempt,
                 environment, demand>>

ReleaseVerify(p) ==
  /\ pc[p] = "releaseVerify"
  /\ moved' = [moved EXCEPT ![p] = None]
  /\ IF moved[p] = p[2] /\ p[2] \in anchor
     THEN RemoveGeneration(p[2])
     ELSE UNCHANGED <<anchor, claims>>
  /\ Goto(p, AfterRelease(p))
  /\ UNCHANGED <<dirty, active, claimed, target, attempt, environment, demand>>

Release(p) == ReleaseCheck(p) \/ ReleaseRename(p) \/ ReleaseVerify(p)

-----------------------------------------------------------------------------
(* The worker: runCoalescedStopRefresh.                                    *)

\* Mutant: the child joins without leaving an ack.
JoinWithoutAck(g) ==
  /\ pc[<<"worker", g>>] = "join"
  /\ Owns(g) /\ "worker" \in Holders(g)
  /\ Goto(<<"worker", g>>, "retireClaims")
  /\ UNCHANGED <<files, target, moved, attempt, environment, demand>>

\* The child may join once it finds its own pid among the owner's records;
\* its ack carries the birth it reads for itself.
Join(g) ==
  /\ pc[<<"worker", g>>] = "join"
  /\ Owns(g) /\ "worker" \in Holders(g)
  /\ claims' = [claims EXCEPT ![g] = @ \cup {WorkerAck}]
  /\ Goto(<<"worker", g>>, "retireClaims")
  /\ UNCHANGED <<dirty, active, anchor, claimed, target, moved, attempt,
                 environment, demand>>

\* A child faster than its parent's transfer finds no claim and gives up, as
\* does one whose generation is no longer active.
JoinRefused(g) ==
  /\ pc[<<"worker", g>>] = "join"
  /\ ~(Owns(g) /\ "worker" \in Holders(g))
  /\ IF pc[<<"hook", g>>] = "transfer" THEN Mishap ELSE UNCHANGED mishaps
  /\ Goto(<<"worker", g>>, "gone")
  /\ UNCHANGED <<files, target, moved, attempt, reused, aged, demand>>

\* After the ack: the child's own claim goes, then the parent's.
RetireClaims(g) ==
  /\ pc[<<"worker", g>>] = "retireClaims"
  /\ claims' = [claims EXCEPT ![g] = {r \in @ : r.kind = "ack"}]
  /\ Goto(<<"worker", g>>, "joined")
  /\ UNCHANGED <<dirty, active, anchor, claimed, target, moved, attempt,
                 environment, demand>>

Joined(g) ==
  /\ pc[<<"worker", g>>] = "joined"
  /\ Goto(<<"worker", g>>, IF Owns(g) THEN "claimCheck" ELSE "gone")
  /\ UNCHANGED <<files, target, moved, attempt, environment, demand>>

\* refuseBunStopRefresh: a worker that finds itself under Bun only releases.
RefuseBun(g) ==
  /\ pc[<<"worker", g>>] = "joined"
  /\ Mishap
  /\ Goto(<<"worker", g>>, IF Owns(g) THEN "releaseCheck" ELSE "gone")
  /\ UNCHANGED <<files, target, moved, attempt, reused, aged, demand>>

\* claimStopRefreshDemand, three observable steps: its conditions, the rename
\* of "dirty", and the second look at the lease.
ClaimCheck(g) ==
  /\ pc[<<"worker", g>>] = "claimCheck"
  /\ Goto(<<"worker", g>>, IF Owns(g) /\ g \notin claimed /\ dirty
                           THEN "claimRename" ELSE "releaseCheck")
  /\ UNCHANGED <<files, target, moved, attempt, environment, demand>>

ClaimRename(g) ==
  /\ pc[<<"worker", g>>] = "claimRename"
  /\ \/ /\ dirty
        /\ dirty' = FALSE
        /\ claimed' = claimed \cup {g}
        /\ covering' = IF watch = "pending" THEN covering \cup {g}
                                            ELSE covering \ {g}
        /\ Goto(<<"worker", g>>, "claimVerify")
     \/ /\ ~dirty
        /\ Goto(<<"worker", g>>, "releaseCheck")
        /\ UNCHANGED <<dirty, claimed, covering>>
  /\ UNCHANGED <<active, anchor, claims, target, moved, attempt, environment,
                 watch, stranded>>

ClaimVerify(g) ==
  /\ pc[<<"worker", g>>] = "claimVerify"
  /\ Goto(<<"worker", g>>, IF g \in claimed /\ Owns(g)
                           THEN "refresh" ELSE "releaseCheck")
  /\ UNCHANGED <<files, target, moved, attempt, environment, demand>>

\* The rebuild succeeded: every demand marked before its claim is served.
RefreshOk(g) ==
  /\ pc[<<"worker", g>>] = "refresh"
  /\ watch' = IF g \in covering /\ watch = "pending" THEN "served" ELSE watch
  /\ Goto(<<"worker", g>>, "complete")
  /\ UNCHANGED <<files, target, moved, attempt, environment, covering,
                 stranded>>

\* Mutant: a failed rebuild releases the lease and forgets its demand.
RefreshFailedNoRetry(g) ==
  /\ pc[<<"worker", g>>] = "refresh"
  /\ Mishap
  /\ Goto(<<"worker", g>>, "releaseCheck")
  /\ UNCHANGED <<files, target, moved, attempt, reused, aged, demand>>

\* The rebuild failed or threw; the failure receipt is written.
RefreshFailed(g) ==
  /\ pc[<<"worker", g>>] = "refresh"
  /\ Mishap
  /\ Goto(<<"worker", g>>, "retryMark")
  /\ UNCHANGED <<files, target, moved, attempt, reused, aged, demand>>

\* completeStopRefreshDemand, then at most one more round.
CompleteDemand(g) ==
  /\ pc[<<"worker", g>>] = "complete"
  /\ claimed' = IF Owns(g) THEN claimed \ {g} ELSE claimed
  /\ attempt' = [attempt EXCEPT ![g] = 1]
  /\ Goto(<<"worker", g>>, IF attempt[g] = 0 THEN "claimCheck" ELSE "releaseCheck")
  /\ UNCHANGED <<dirty, active, anchor, claims, target, moved, environment, demand>>

\* retryStopRefreshDemand: dirty again before the claimed marker goes.  When
\* it cannot, the worker keeps the lease and exits.
RetryMark(g) ==
  /\ pc[<<"worker", g>>] = "retryMark"
  /\ \/ /\ Owns(g) /\ g \in claimed
        /\ dirty' = TRUE
        /\ Goto(<<"worker", g>>, "retryRemove")
     \/ /\ ~(Owns(g) /\ g \in claimed)
        /\ Goto(<<"worker", g>>, "gone")
        /\ UNCHANGED dirty
  /\ UNCHANGED <<active, anchor, claims, claimed, target, moved, attempt,
                 environment, demand>>

\* The lease is released only if the failure receipt had been written.
RetryRemove(g) ==
  /\ pc[<<"worker", g>>] = "retryRemove"
  /\ claimed' = claimed \ {g}
  /\ \/ /\ Goto(<<"worker", g>>, "releaseCheck")
        /\ UNCHANGED mishaps
     \/ /\ Mishap
        /\ Goto(<<"worker", g>>, "gone")
  /\ UNCHANGED <<dirty, active, anchor, claims, target, moved, attempt,
                 reused, aged, demand>>

-----------------------------------------------------------------------------
(* The environment.                                                        *)

\* A hook killed by its time budget or a worker killed at any point.
Crash(p) ==
  /\ Running(p) /\ pc[p] # "returned"
  /\ Mishap
  /\ pc' = [pc EXCEPT ![p] = "gone"]
  /\ UNCHANGED <<files, target, moved, attempt, reused, aged, demand>>

PidReused(p) ==
  /\ pc[p] = "gone" /\ p \notin reused
  /\ Mishap
  /\ reused' = reused \cup {p}
  /\ UNCHANGED <<files, local, aged, demand>>

PidFreed(p) ==
  /\ p \in reused
  /\ reused' = reused \ {p}
  /\ UNCHANGED <<files, local, aged, mishaps, demand>>

\* The time to live only matters to an observer on another machine.
Age(g) ==
  /\ active = g /\ g \notin aged
  /\ \E h \in Gen : Host[h] # Host[g]
  /\ aged' = aged \cup {g}
  /\ UNCHANGED <<files, local, reused, mishaps, demand>>

\* A slot whose processes are gone and that nothing names any more stands for
\* the next Stop hook's fresh UUID.  A claimed marker it leaves behind stays
\* on disk, but only the active generation's is ever looked at.
Recycle(g) ==
  /\ pc[<<"hook", g>>] = "gone"
  /\ pc[<<"worker", g>>] \in {"gone", "unborn"}
  /\ active # g
  /\ \A h \in Gen : pc[<<"hook", h>>] # "gone" => target[h] # g
  /\ \A p \in Proc : pc[p] # "gone" => moved[p] # g
  /\ RemoveGeneration(g)
  /\ pc' = [pc EXCEPT ![<<"hook", g>>] = "idle", ![<<"worker", g>>] = "unborn"]
  /\ target' = [target EXCEPT ![g] = None]
  /\ moved' = [moved EXCEPT ![<<"hook", g>>] = None, ![<<"worker", g>>] = None]
  /\ attempt' = [attempt EXCEPT ![g] = 0]
  /\ reused' = reused \ {<<"hook", g>>, <<"worker", g>>}
  /\ aged' = aged \ {g}
  /\ claimed' = claimed \ {g}
  /\ covering' = covering \ {g}
  /\ stranded' = (stranded \/ g \in claimed \cap covering)
  /\ UNCHANGED <<dirty, active, mishaps, watch>>

-----------------------------------------------------------------------------

HookStep(g) ==
  \/ LinkActive(g) \/ InspectOwner(g)
  \/ RestoreMark(g) \/ RestoreRemove(g)
  \/ TakeoverCheck(g) \/ TakeoverRename(g) \/ TakeoverVerify(g) \/ Relink(g)
  \/ SpawnWorker(g) \/ SpawnRefused(g) \/ Transfer(g) \/ HookExit(g)
  \/ Release(<<"hook", g>>)

WorkerStep(g) ==
  \/ Join(g) \/ JoinRefused(g) \/ RetireClaims(g) \/ Joined(g) \/ RefuseBun(g)
  \/ ClaimCheck(g) \/ ClaimRename(g) \/ ClaimVerify(g)
  \/ RefreshOk(g) \/ RefreshFailed(g) \/ CompleteDemand(g)
  \/ RetryMark(g) \/ RetryRemove(g)
  \/ Release(<<"worker", g>>)

NextStop(g) == StopEvent(g) \/ Recycle(g)

Next ==
  \/ \E g \in Gen : HookStep(g) \/ WorkerStep(g) \/ NextStop(g) \/ Age(g)
  \/ \E p \in Proc : Crash(p) \/ PidReused(p) \/ PidFreed(p)

Spec == Init /\ [][Next]_vars

\* Every running process keeps running, Stops keep coming, and an unrelated
\* process does not keep a reused pid for ever.
FairSpec ==
  /\ Spec
  /\ \A g \in Gen : WF_vars(HookStep(g)) /\ WF_vars(WorkerStep(g))
  /\ \A g \in Gen : WF_vars(NextStop(g)) /\ WF_vars(Age(g))
  /\ \A p \in Proc : WF_vars(PidFreed(p))

-----------------------------------------------------------------------------
(* Properties.                                                             *)

SingleHost == \A g, h \in Gen : Host[g] = Host[h]

\* A demand that no finished rebuild has served is never absent from disk: it
\* is still in "dirty" or in a claimed marker that was renamed from it.  This
\* is what marking before unlinking in restoreClaimedDemand and
\* retryStopRefreshDemand is for.
DemandDurable ==
  watch = "pending" => dirty \/ stranded \/ \E g \in claimed : g \in covering

\* A demand is never stranded: outside "dirty" it is in the claimed marker of
\* the generation that holds the lease, the only one restoreClaimedDemand
\* looks at when that generation's processes die.
DemandReachable ==
  watch = "pending" => dirty \/ (active \in claimed /\ active \in covering)

\* Two workers never rebuild harness.db at the same time.
OneRefreshAtATime ==
  \A g, h \in Gen :
    pc[<<"worker", g>>] = "refresh" /\ pc[<<"worker", h>>] = "refresh" => g = h

\* The lease of a generation one of whose recorded processes runs is taken
\* away by nobody but that generation's own processes ("a live owner is never
\* reclaimed", "release is generation-specific").
LiveOwnerKeepsLease ==
  [][\A g \in Gen :
       (active = g /\ \E r \in Holders(g) : Running(<<r, g>>)) =>
         \/ active' = g
         \/ \E r \in Roles : pc[<<r, g>>] = "releaseRename"
                             /\ pc'[<<r, g>>] # pc[<<r, g>>]]_vars

\* A worker holds its generation's claimed marker whenever it rebuilds, so
\* that a crash during the rebuild cannot lose the demand.
RefreshHoldsDemand ==
  \A g \in Gen : pc[<<"worker", g>>] = "refresh" => g \in claimed /\ active = g

\* A lease whose processes are all gone does not stay with them: the next
\* Stops take it over, at once on the same machine and after the time to live
\* from another one.
LeaseRecovered ==
  \A g \in Gen :
    (active = g /\ \A r \in Roles : ~Running(<<r, g>>)) ~> (active # g)

\* Why DemandDurable holds on one machine, whatever the number of Stops: the
\* marker being removed is never the last one, because only the claimed marker
\* of a generation none of whose processes can claim again is restored.

BeforeSpawn == HookPC \ {"transfer", "returned"}
Finished == {"returned", "gone"}
Workerless(g) == \A r \in claims[g] : r.role # "worker"

Lifecycle ==
  \A g \in Gen :
    /\ pc[<<"hook", g>>] \in BeforeSpawn => pc[<<"worker", g>>] = "unborn"
    /\ active = g => pc[<<"hook", g>>] # "idle"

\* Whoever runs for a generation is among its recorded owners.
RunnersRecorded ==
  \A g \in Gen :
    /\ pc[<<"hook", g>>] \notin Finished => Workerless(g)
    /\ \A r \in claims[g] : r.role = "hook" => r.kind = "claim"
    /\ g \in anchor /\ pc[<<"hook", g>>] \notin Finished \cup {"idle"}
         => HookClaim \in claims[g]
    /\ pc[<<"worker", g>>] \notin {"unborn", "join", "gone"}
         => /\ pc[<<"hook", g>>] \in Finished
            /\ g \in anchor => WorkerAck \in claims[g]

\* No process of g can ever claim the demand again.
Spent(g) ==
  /\ pc[<<"hook", g>>] \in Finished
  /\ \/ pc[<<"worker", g>>] \in {"unborn", "gone"}
     \/ pc[<<"worker", g>>] = "join" /\ Workerless(g)

TakeoverOfSpent ==
  \A g \in Gen : pc[<<"hook", g>>] \in {"restoreMark", "restoreRemove"}
                   => target[g] \in Gen /\ Spent(target[g])

\* The claimed marker of g is about to be removed, dirty having been marked.
Removing(g) ==
  \/ pc[<<"worker", g>>] = "retryRemove"
  \/ \E h \in Gen : pc[<<"hook", h>>] = "restoreRemove" /\ target[h] = g

SpareMarker ==
  /\ covering # {} => watch # "none"
  /\ \A g \in covering : pc[<<"worker", g>>] = "complete" => watch # "pending"
  /\ watch = "pending" =>
       dirty \/ stranded \/ \E g \in claimed \cap covering : ~Removing(g)

DurabilityInv == Lifecycle /\ RunnersRecorded /\ TakeoverOfSpent /\ SpareMarker

\* A demand is served in the end as long as Stops keep coming: through lost
\* wake-ups, failed and crashed workers, and stale leases.
DemandServed == (watch = "pending") ~> (watch = "served")
=============================================================================
