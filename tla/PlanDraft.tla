----------------------------- MODULE PlanDraft -----------------------------
(***************************************************************************)
(* `plan draft` (src/plan-admission/plan-draft-service.ts): a command      *)
(* admits a plan by an effect in each of three stores that have no common  *)
(* transaction, the draft journal and the plan ledger (tables of one       *)
(* SQLite file) and two published files, the plan's source and the receipt *)
(* projection that every draft appends to.  The files are published inside *)
(* the ledger's transaction, so its write lock keeps publications apart;   *)
(* restoring after a failure, finalizing, replaying and every journal      *)
(* entry happen outside it.  No connection has a busy timeout: whoever     *)
(* meets an open transaction fails at once.  A call is one process; an     *)
(* action is one database transaction or the file operations of one        *)
(* artifact between two of its checks.                                     *)
(***************************************************************************)
EXTENDS Naturals, Sequences, FiniteSets

CONSTANTS
  Call,        \* possible runs of the command line
  Command,     \* command ids
  Plan,        \* plan ids, which name alias, ordinal and source file
  Digest,      \* command payload digests
  Projection,  \* the path of the receipt projection
  CommandOf,   \* the command of each call
  DigestOf,    \* the payload digest of each call, which depends on the HEAD it finds
  PlanOf,      \* the plan of each command
  Present,     \* plans whose source file is there before any draft
  None,        \* no call, no file, no digest
  Calls,       \* bound: calls that begin
  Faults       \* bound: crashes and I/O errors together

ASSUME PlanDraftAssumption ==
  /\ CommandOf \in [Call -> Command]
  /\ DigestOf \in [Call -> Digest]
  /\ PlanOf \in [Command -> Plan]
  /\ Present \subseteq Plan
  /\ Projection \notin Plan
  /\ None \notin Call \cup Digest \cup Seq(Call)
  /\ Calls \in Nat /\ Faults \in Nat

Artifact == {"source", "projection"}
Path == Plan \cup {Projection}

\* A file is the sequence of the calls whose record it holds: the last one wrote it.
Content == Seq(Call) \cup {None}

VARIABLES
  journal,   \* per command: its status, digest, the call that committed it, its cleanup
  ledger,    \* per command: the call that its admission receipt is of, or None
  writer,    \* the call whose ledger transaction is open, or None
  file,      \* the content of each path
  rollback,  \* the preimage each call has put aside, per artifact
  before,    \* the preimage each call found when it staged the artifact
  after,     \* the postimage each call rendered
  stage,     \* how far each call is with each artifact
  pc,        \* next step of each call
  sound,     \* the database passes its own validation
  seen,      \* the cleanup status a replay found
  retried,   \* the call has retried its cleanup
  crashes,   \* processes that died so far
  errors     \* file operations and COMMITs that failed so far

stores == <<journal, ledger, writer, sound>>
images == <<rollback, before, after, stage>>
locals == <<seen, retried>>
faults == <<crashes, errors>>
vars == <<stores, file, images, pc, locals, faults>>

Ended == {"created", "replayed", "conflict", "refused", "error", "failed",
          "cleanupPending", "crashed"}
Publishing == {"render", "stage", "publish", "commitLedger"}
PC == {"idle", "find", "markFound", "record", "begin", "restore", "mark", "commitJournal",
       "markCommitted", "finalize", "complete", "pending", "resumeSource",
       "resumeProjection", "replayComplete"} \cup Publishing \cup Ended

Entry == [status : {"none", "intent", "recovery", "committed"}, digest : Digest \cup {None},
          by : Call \cup {None}, cleanup : {"none", "pending", "completed"}]

\* Each variable holds values of its type.
TypeOK ==
  /\ journal \in [Command -> Entry]
  /\ ledger \in [Command -> Call \cup {None}]
  /\ writer \in Call \cup {None}
  /\ file \in [Path -> Content]
  /\ rollback \in [Call -> [Artifact -> Content]]
  /\ before \in [Call -> [Artifact -> Content]]
  /\ after \in [Call -> [Artifact -> Seq(Call)]]
  /\ stage \in [Call -> [Artifact -> {"none", "staged", "backed", "published",
                                      "restored", "finalized"}]]
  /\ pc \in [Call -> PC]
  /\ sound \in BOOLEAN
  /\ seen \in [Call -> {"none", "pending", "completed"}]
  /\ retried \in [Call -> BOOLEAN]
  /\ crashes \in Nat /\ errors \in Nat

Init ==
  /\ journal = [c \in Command |-> [status |-> "none", digest |-> None, by |-> None,
                                   cleanup |-> "none"]]
  /\ ledger = [c \in Command |-> None]
  /\ writer = None
  /\ file = [p \in Path |-> IF p \in Present \cup {Projection} THEN << >> ELSE None]
  /\ rollback = [k \in Call |-> [a \in Artifact |-> None]]
  /\ before = [k \in Call |-> [a \in Artifact |-> None]]
  /\ after = [k \in Call |-> [a \in Artifact |-> << >>]]
  /\ stage = [k \in Call |-> [a \in Artifact |-> "none"]]
  /\ pc = [k \in Call |-> "idle"]
  /\ sound = TRUE
  /\ seen = [k \in Call |-> "none"]
  /\ retried = [k \in Call |-> FALSE]
  /\ crashes = 0 /\ errors = 0

-----------------------------------------------------------------------------
Goto(k, l) == pc' = [pc EXCEPT ![k] = l]

\* Mutant: the transaction is begun without the write lock.
FreeDeferred == TRUE

\* BEGIN IMMEDIATE succeeds.
Free == writer = None

Status(k) == journal[CommandOf[k]].status
SameDigest(k) == journal[CommandOf[k]].digest = DigestOf[k]
PathOf(k, a) == IF a = "source" THEN PlanOf[CommandOf[k]] ELSE Projection
Target(k, a) == file[PathOf(k, a)]

\* linkSync succeeds: it replaces nothing.
Vacant(k, a) == Target(k, a) = None

\* Mutant: a command under recovery can still be committed.
UndecidedOrRecovery(k) == Status(k) \in {"intent", "recovery"}

\* Only an intent is committed or put under recovery.
Undecided(k) == Status(k) = "intent"

\* The artifacts are staged, published and finalized in this order, restored in the other.
Turn(k, a, s) == stage[k][a] = s /\ (a = "projection" => stage[k]["source"] # s)
TurnBack(k, a, s) == stage[k][a] = s /\ (a = "source" => stage[k]["projection"] = "restored")

SetStage(k, a, s) == stage' = [stage EXCEPT ![k][a] = s]
SetFile(k, a, content) == file' = [file EXCEPT ![PathOf(k, a)] = content]
SetRollback(k, a, content) == rollback' = [rollback EXCEPT ![k][a] = content]

\* The transaction is rolled back, and what has been staged is to be restored.
Abort(k) ==
  /\ writer' = None
  /\ Goto(k, IF \A a \in Artifact : stage[k][a] # "none" THEN "restore" ELSE "mark")
  /\ UNCHANGED <<journal, ledger, sound, file, images, locals, faults>>

-----------------------------------------------------------------------------
(* Replay or intent. *)

\* The whole database is validated before the journal is looked at.
Open(k) ==
  /\ pc[k] = "idle"
  /\ Cardinality({j \in Call : pc[j] # "idle"}) < Calls
  /\ Goto(k, IF sound THEN "find" ELSE "error")
  /\ UNCHANGED <<stores, file, images, locals, faults>>

\* An intent whose command the ledger knows is marked by whoever looks at it.
Find(k) ==
  /\ pc[k] = "find"
  /\ LET admitted == ledger[CommandOf[k]] # None
         open == Status(k) = "recovery" \/ (Undecided(k) /\ ~admitted)
     IN  \/ Status(k) = "none" /\ Goto(k, "record")
         \/ Undecided(k) /\ admitted /\ Goto(k, "markFound")
         \/ (open \/ Status(k) = "committed") /\ ~SameDigest(k) /\ Goto(k, "conflict")
         \/ open /\ SameDigest(k) /\ Goto(k, "refused")
         \/ Status(k) = "committed" /\ SameDigest(k) /\ Goto(k, "resumeSource")
  /\ seen' = [seen EXCEPT ![k] = journal[CommandOf[k]].cleanup]
  /\ UNCHANGED <<stores, file, images, retried, faults>>

\* What a command turns into when it is marked: only an intent can.
Recovered(e) == IF e.status = "intent" THEN [e EXCEPT !.status = "recovery"] ELSE e

MarkFound(k) ==
  /\ pc[k] = "markFound"
  /\ \/ /\ Free /\ Status(k) # "committed"
        /\ journal' = [journal EXCEPT ![CommandOf[k]] = Recovered(@)]
        /\ Goto(k, IF SameDigest(k) THEN "refused" ELSE "conflict")
     \/ /\ ~Free \/ Status(k) = "committed"
        /\ Goto(k, "error")
        /\ UNCHANGED journal
  /\ UNCHANGED <<ledger, writer, sound, file, images, locals, faults>>

\* Two calls may both have found nothing: the second one's intent is refused.
RecordIntent(k) ==
  /\ pc[k] = "record"
  /\ \/ /\ Free /\ Status(k) = "none"
        /\ journal' = [journal EXCEPT ![CommandOf[k]].status = "intent",
                                      ![CommandOf[k]].digest = DigestOf[k]]
        /\ Goto(k, "begin")
     \/ /\ ~Free \/ Status(k) # "none"
        /\ Goto(k, "error")
        /\ UNCHANGED journal
  /\ UNCHANGED <<ledger, writer, sound, file, images, locals, faults>>

-----------------------------------------------------------------------------
(* The ledger's transaction and the publication inside it. *)

\* Mutant: only the command's own receipt is looked for.
PlanTakenByItself(k) == ledger[CommandOf[k]] # None

\* The plan's asset, alias or active ordinal is there.
PlanTaken(k) == \E c \in Command : ledger[c] # None /\ PlanOf[c] = PlanOf[CommandOf[k]]

Begin(k) ==
  /\ pc[k] = "begin"
  /\ \/ /\ Free /\ ~PlanTaken(k)
        /\ writer' = k
        /\ Goto(k, "render")
     \/ /\ ~Free \/ PlanTaken(k)
        /\ Goto(k, "mark")
        /\ UNCHANGED writer
  /\ UNCHANGED <<journal, ledger, sound, file, images, locals, faults>>

\* The receipt is appended to the records that the projection holds now.
Render(k) ==
  /\ pc[k] = "render"
  /\ \/ /\ file[Projection] # None
        /\ after' = [after EXCEPT ![k] = [a \in Artifact |->
             IF a = "source" THEN <<k>> ELSE Append(file[Projection], k)]]
        /\ Goto(k, "stage")
        /\ UNCHANGED <<stores, file, rollback, before, stage, locals, faults>>
     \/ file[Projection] = None /\ Abort(k)

\* The preimage is taken from the file as it is now, not as it was rendered from.
Stage(k, a) ==
  /\ pc[k] = "stage" /\ Turn(k, a, "none")
  /\ before' = [before EXCEPT ![k][a] = Target(k, a)]
  /\ SetStage(k, a, "staged")
  /\ IF a = "projection" THEN Goto(k, "publish") ELSE UNCHANGED pc
  /\ UNCHANGED <<stores, file, rollback, after, locals, faults>>

\* The source is published before the projection is looked at.
PublishTurn(k, a) == pc[k] = "publish" /\ (a = "projection" => stage[k]["source"] = "published")

\* The preimage is linked to the rollback path and the target removed.
Backup(k, a) ==
  /\ PublishTurn(k, a) /\ stage[k][a] = "staged" /\ before[k][a] # None
  /\ \/ /\ Target(k, a) = before[k][a]
        /\ SetRollback(k, a, before[k][a])
        /\ SetFile(k, a, None)
        /\ SetStage(k, a, "backed")
        /\ UNCHANGED <<stores, before, after, pc, locals, faults>>
     \/ Target(k, a) # before[k][a] /\ Abort(k)

\* The temporary is linked to the target, which must be free.
Link(k, a) ==
  /\ PublishTurn(k, a)
  /\ stage[k][a] = IF before[k][a] = None THEN "staged" ELSE "backed"
  /\ \/ /\ Vacant(k, a)
        /\ SetFile(k, a, after[k][a])
        /\ SetStage(k, a, "published")
        /\ IF a = "projection" THEN Goto(k, "commitLedger") ELSE UNCHANGED pc
        /\ UNCHANGED <<stores, rollback, before, after, locals, faults>>
     \/ ~Vacant(k, a) /\ Abort(k)

CommitLedger(k) ==
  /\ pc[k] = "commitLedger"
  /\ ledger' = [ledger EXCEPT ![CommandOf[k]] = k]
  /\ writer' = None
  /\ Goto(k, "commitJournal")
  /\ UNCHANGED <<journal, sound, file, images, locals, faults>>

-----------------------------------------------------------------------------
(* Recovery: restore outside the transaction, then mark. *)

\* Mutant: the target is removed without a look at whose it is by now.
RestoreTargetBlind(k, a) ==
  /\ pc[k] = "restore" /\ TurnBack(k, a, "published")
  /\ SetFile(k, a, None)
  /\ SetStage(k, a, IF rollback[k][a] = None THEN "restored" ELSE "backed")
  /\ IF a = "source" /\ rollback[k][a] = None THEN Goto(k, "mark") ELSE UNCHANGED pc
  /\ UNCHANGED <<stores, rollback, before, after, locals, faults>>

\* The published target is removed if it is still the call's own.
RestoreTarget(k, a) ==
  /\ pc[k] = "restore" /\ TurnBack(k, a, "published")
  /\ \/ /\ Target(k, a) = after[k][a]
        /\ SetFile(k, a, None)
        /\ SetStage(k, a, IF rollback[k][a] = None THEN "restored" ELSE "backed")
        /\ IF a = "source" /\ rollback[k][a] = None THEN Goto(k, "mark") ELSE UNCHANGED pc
     \/ /\ Target(k, a) # after[k][a]
        /\ Goto(k, "mark")
        /\ UNCHANGED <<file, stage>>
  /\ UNCHANGED <<stores, rollback, before, after, locals, faults>>

\* The preimage is linked back unless something else has taken its place.
RestorePreimage(k, a) ==
  /\ pc[k] = "restore" /\ TurnBack(k, a, "backed")
  /\ \/ /\ Vacant(k, a)
        /\ SetFile(k, a, rollback[k][a])
        /\ SetRollback(k, a, None)
        /\ SetStage(k, a, "restored")
        /\ IF a = "source" THEN Goto(k, "mark") ELSE UNCHANGED pc
     \/ /\ ~Vacant(k, a)
        /\ Goto(k, "mark")
        /\ UNCHANGED <<file, rollback, stage>>
  /\ UNCHANGED <<stores, before, after, locals, faults>>

\* Of what was only staged the temporary goes.
RestoreStaged(k, a) ==
  /\ pc[k] = "restore" /\ TurnBack(k, a, "staged")
  /\ SetStage(k, a, "restored")
  /\ IF a = "source" THEN Goto(k, "mark") ELSE UNCHANGED pc
  /\ UNCHANGED <<stores, file, rollback, before, after, locals, faults>>

\* recovery_required is recorded, unless the database is busy.
Mark(k) ==
  /\ pc[k] \in {"mark", "markCommitted"}
  /\ journal' = IF Free THEN [journal EXCEPT ![CommandOf[k]] = Recovered(@)] ELSE journal
  /\ Goto(k, "failed")
  /\ UNCHANGED <<ledger, writer, sound, file, images, locals, faults>>

-----------------------------------------------------------------------------
(* Journal commit and cleanup. *)

CommitJournal(k) ==
  /\ pc[k] = "commitJournal"
  /\ \/ /\ Free /\ Undecided(k)
        /\ journal' = [journal EXCEPT ![CommandOf[k]].status = "committed",
                                      ![CommandOf[k]].by = k,
                                      ![CommandOf[k]].cleanup = "pending"]
        /\ Goto(k, "finalize")
     \/ /\ ~Free \/ ~Undecided(k)
        /\ Goto(k, "markCommitted")
        /\ UNCHANGED journal
  /\ UNCHANGED <<ledger, writer, sound, file, images, locals, faults>>

\* Mutant: a failing cleanup is tried again and again.
CleanupFailsOnAndOn(k) == Goto(k, pc[k]) /\ retried' = retried

\* A failing cleanup is tried once more with the same token, then left pending.
CleanupFails(k) ==
  /\ Goto(k, IF retried[k] THEN "pending" ELSE pc[k])
  /\ retried' = [retried EXCEPT ![k] = TRUE]

\* Nobody else has replaced the target or removed the preimage put aside.
Intact(k, a) == Target(k, a) = after[k][a] /\ (before[k][a] # None => rollback[k][a] # None)

Finalize(k, a) ==
  /\ pc[k] = "finalize" /\ stage[k][a] = "published"
  /\ a = "projection" => stage[k]["source"] = "finalized"
  /\ \/ /\ Intact(k, a)
        /\ SetRollback(k, a, None)
        /\ SetStage(k, a, "finalized")
        /\ IF a = "projection" THEN Goto(k, "complete") ELSE UNCHANGED pc
        /\ UNCHANGED retried
     \/ ~Intact(k, a) /\ CleanupFails(k) /\ UNCHANGED <<rollback, stage>>
  /\ UNCHANGED <<stores, file, before, after, seen, faults>>

SetCleanup(k, s) == journal' = [journal EXCEPT ![CommandOf[k]].cleanup = s]

CompleteCleanup(k) ==
  /\ pc[k] = "complete"
  /\ \/ /\ Free
        /\ SetCleanup(k, "completed")
        /\ Goto(k, "created")
        /\ UNCHANGED retried
     \/ ~Free /\ CleanupFails(k) /\ UNCHANGED journal
  /\ UNCHANGED <<ledger, writer, sound, file, images, seen, faults>>

\* The cleanup is recorded as pending, whatever it was.  The validation of the
\* database accepts no cleanup event after a completed one.
MarkPending(k) ==
  /\ pc[k] = "pending"
  /\ \/ /\ Free
        /\ SetCleanup(k, "pending")
        /\ sound' = (sound /\ journal[CommandOf[k]].cleanup # "completed")
     \/ ~Free /\ UNCHANGED <<journal, sound>>
  /\ Goto(k, "cleanupPending")
  /\ UNCHANGED <<ledger, writer, file, images, locals, faults>>

-----------------------------------------------------------------------------
(* Replay of a committed command: another process takes up its cleanup. *)

ResumeFails(k) == Goto(k, IF seen[k] = "pending" THEN "pending" ELSE "cleanupPending")

\* Mutant: the projection is not looked at.
ResumedAtOnce(k) == IF seen[k] = "pending" THEN "replayComplete" ELSE "replayed"

Resumed(k) ==
  IF pc[k] = "resumeSource" THEN "resumeProjection"
  ELSE IF seen[k] = "pending" THEN "replayComplete" ELSE "replayed"

\* The target must be the postimage of the call that committed the command.
Resume(k, a) ==
  /\ pc[k] = IF a = "source" THEN "resumeSource" ELSE "resumeProjection"
  /\ LET o == journal[CommandOf[k]].by
     IN  \/ /\ Target(o, a) = after[o][a]
            /\ SetRollback(o, a, None)
            /\ Goto(k, Resumed(k))
         \/ Target(o, a) # after[o][a] /\ ResumeFails(k) /\ UNCHANGED rollback
  /\ UNCHANGED <<stores, file, before, after, stage, locals, faults>>

ReplayComplete(k) ==
  /\ pc[k] = "replayComplete"
  /\ \/ Free /\ SetCleanup(k, "completed") /\ Goto(k, "replayed")
     \/ ~Free /\ Goto(k, "pending") /\ UNCHANGED journal
  /\ UNCHANGED <<ledger, writer, sound, file, images, locals, faults>>

-----------------------------------------------------------------------------
(* Faults. *)

Fault == crashes + errors < Faults

\* A file operation fails, or the COMMIT does.
FileError(k) ==
  /\ Fault
  /\ errors' = errors + 1
  /\ \/ /\ pc[k] \in Publishing
        /\ writer' = None
        /\ Goto(k, IF pc[k] \in {"render", "stage"} THEN "mark" ELSE "restore")
        /\ UNCHANGED retried
     \/ pc[k] = "restore" /\ Goto(k, "mark") /\ UNCHANGED <<writer, retried>>
     \/ pc[k] = "finalize" /\ CleanupFails(k) /\ UNCHANGED writer
     \/ pc[k] \in {"resumeSource", "resumeProjection"} /\ ResumeFails(k)
           /\ UNCHANGED <<writer, retried>>
  /\ UNCHANGED <<journal, ledger, sound, file, images, seen, crashes>>

\* The process dies; an open transaction is rolled back.
Crash(k) ==
  /\ pc[k] \notin Ended \cup {"idle"}
  /\ Fault
  /\ crashes' = crashes + 1
  /\ writer' = IF writer = k THEN None ELSE writer
  /\ Goto(k, "crashed")
  /\ UNCHANGED <<journal, ledger, sound, file, images, locals, errors>>

Step(k) ==
  \/ Find(k) \/ MarkFound(k) \/ RecordIntent(k)
  \/ Begin(k) \/ Render(k) \/ CommitLedger(k) \/ Mark(k)
  \/ CommitJournal(k) \/ CompleteCleanup(k) \/ MarkPending(k) \/ ReplayComplete(k)
  \/ \E a \in Artifact :
       \/ Stage(k, a) \/ Backup(k, a) \/ Link(k, a)
       \/ RestoreTarget(k, a) \/ RestorePreimage(k, a) \/ RestoreStaged(k, a)
       \/ Finalize(k, a) \/ Resume(k, a)

Next == \E k \in Call : Open(k) \/ Step(k) \/ FileError(k) \/ Crash(k)

\* A call that has begun goes on; nobody has to begin one.
Spec == Init /\ [][Next]_vars /\ \A k \in Call : WF_vars(Step(k))
-----------------------------------------------------------------------------
(* Properties. *)

Admitted(c) == ledger[c] # None

\* Where a call is that has recorded its command's intent, until it ends.
Drafting == {"begin", "restore", "mark", "commitJournal", "markCommitted", "finalize",
             "complete", "created"} \cup Publishing

\* The journal and the ledger agree at every step, whatever crashes: a command is
\* admitted only under an intent of the same payload, committed only if admitted by
\* the same call, a plan is admitted under one command, and of the calls of a
\* command one at most gets past its intent (sqlite-draft-journal.ts, plan-draft-ledger.ts).
StoresAgree ==
  /\ \A c \in Command : Admitted(c) =>
       /\ CommandOf[ledger[c]] = c
       /\ journal[c].status # "none" /\ journal[c].digest = DigestOf[ledger[c]]
  /\ \A c \in Command : journal[c].status = "committed" =>
       Admitted(c) /\ ledger[c] = journal[c].by
  /\ \A c, d \in Command : Admitted(c) /\ Admitted(d) /\ PlanOf[c] = PlanOf[d] => c = d
  /\ \A j, k \in Call : pc[j] \in Drafting /\ pc[k] \in Drafting /\ CommandOf[j] = CommandOf[k]
       => j = k

\* The contents of the projection that are still on disk: the file, what is put aside.
Versions == {file[Projection]} \cup {rollback[k]["projection"] : k \in Call}

Holds(content, k) == content # None /\ \E i \in DOMAIN content : content[i] = k

\* As long as no file operation fails, there is one file on disk, the projection or a
\* preimage put aside, that holds the receipt of every admitted command, however drafts
\* overlap and wherever they die (node-atomic-draft-publisher.ts: publish, finalize,
\* resumeCleanup).
CrashesLoseNothing == errors = 0 => \E v \in Versions :
  v # None /\ \A c \in Command : Admitted(c) => Holds(v, ledger[c])

\* "created" and "replayed" are said only of a command that both stores hold and of
\* which no preimage is left beside the files (plan-draft-service.ts: execute).
Reported == \A k \in Call : pc[k] \in {"created", "replayed"} =>
  LET c == CommandOf[k] IN
  /\ journal[c].status = "committed" /\ Admitted(c) /\ journal[c].digest = DigestOf[k]
  /\ \A a \in Artifact : rollback[ledger[c]][a] = None

\* The source of an admitted plan stays on disk as its draft published it: no draft that
\* failed earlier and restores its files outside the write lock removes or replaces it,
\* wherever calls fail or die (node-atomic-draft-publisher.ts: publish, restore).
SourceStands == \A c \in Command : Admitted(c) => file[PlanOf[c]] = <<ledger[c]>>

DecisionKept == \A c \in Command :
  /\ journal[c].status \in {"recovery", "committed"} => journal'[c].status = journal[c].status
  /\ journal[c].status = "intent" => journal'[c].status # "none"
  /\ ledger[c] # None => ledger'[c] = ledger[c]

\* What the stores have decided of a command is final: a recorded intent is never
\* taken back, recovery_required never becomes committed, an admission stays.
DecidedForGood == [][DecisionKept]_vars

\* What the two stores and the answers promise together (PlanAdmission): a command is
\* decided once, with a payload and a call, its plan is admitted under no other command,
\* and created, replayed, conflict and refused are said only when they are so
\* (plan-draft-service.ts: execute, resolveReplay).
Answers == {"created", "replayed", "conflict", "refused"}
Promise == INSTANCE PlanAdmission WITH
             status <- [c \in Command |-> journal[c].status],
             digest <- [c \in Command |-> journal[c].digest],
             admitted <- ledger,
             answer <- [k \in Call |-> IF pc[k] \in Answers THEN pc[k] ELSE "none"]
AdmissionSpec == Promise!Spec

\* Every call that has begun ends, its retries included, and so no transaction stays
\* open for ever: from some point on there are only calls that ended and calls not begun.
EveryCallEnds == <>[](writer = None /\ \A k \in Call : pc[k] \in Ended \cup {"idle"})

\* What the schema's validation demands of the cleanup events
\* (plan-asset/ledger/schema.ts, artifactOperationEventsValid): no event follows a
\* completed one.  Without it no later call can open the ledger.
LedgerReadable == sound

\* A replay that finds its command committed and cleaned up is answered "replayed".
ReplayServed == \A k \in Call : pc[k] = "cleanupPending" => seen[k] # "completed"
=============================================================================
