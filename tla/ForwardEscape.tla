---------------------------- MODULE ForwardEscape ----------------------------
(***************************************************************************)
(* The projection of a Forward escape onto a GitHub issue                  *)
(* (src/execution/forward-escape.ts) through the SQLite journal            *)
(* (sqlite-forward-escape-journal.ts): workers of any number of processes  *)
(* certify a command, queue the intent to post it, call the create-or-get  *)
(* port and append what came of it.  The journal's transactions are atomic *)
(* and serialised (BEGIN IMMEDIATE); everything between them interleaves.  *)
(***************************************************************************)
EXTENDS Naturals, Sequences

CONSTANTS
  Worker,    \* calls that may run at the same time
  Command,   \* command ids, the idempotency keys of the issues
  Payload,   \* payloads a command id may be sent with
  Reason,    \* durable reasons of a deferral
  Revision,  \* revisions of a remote issue
  None

Queued(p) == [type |-> "Queued", payload |-> p, detail |-> None]
Deferred(p, reason) == [type |-> "Deferred", payload |-> p, detail |-> reason]
Projected(p, revision) == [type |-> "Projected", payload |-> p, detail |-> revision]

Task == [command : Command, payload : Payload]
Event == {Queued(p) : p \in Payload}
           \cup {Deferred(p, d) : p \in Payload, d \in Reason}
           \cup {Projected(p, r) : p \in Payload, r \in Revision}

ASSUME ForwardEscapeAssumption == None \notin Payload \cup Revision \cup Task \cup Event

VARIABLES
  certificate,  \* the payload certified for each command, or None
  journal,      \* the durable events of each command, in order
  issue,        \* the revision of the remote issue of each command, or None
  pc,           \* next step of each worker
  task,         \* the command and the payload a worker carries
  answer,       \* the event a worker makes of the port's answer
  outcome       \* what the last call of a worker gave its caller

vars == <<certificate, journal, issue, pc, task, answer, outcome>>
local == <<pc, task, answer, outcome>>

PC == {"idle", "certify", "read", "queue", "call", "append"}
Outcome == {"none", "projected", "deferred", "refused", "fault", "rejected"}

TypeOK ==
  /\ certificate \in [Command -> Payload \cup {None}]
  /\ journal \in [Command -> Seq(Event)]
  /\ issue \in [Command -> Revision \cup {None}]
  /\ pc \in [Worker -> PC]
  /\ task \in [Worker -> Task \cup {None}]
  /\ answer \in [Worker -> Event \cup {None}]
  /\ outcome \in [Worker -> Outcome]
  /\ \A w \in Worker :
       /\ pc[w] # "idle" => task[w] # None
       /\ pc[w] = "append" => answer[w] # None

Init ==
  /\ certificate = [c \in Command |-> None]
  /\ journal = [c \in Command |-> <<>>]
  /\ issue = [c \in Command |-> None]
  /\ pc = [w \in Worker |-> "idle"]
  /\ task = [w \in Worker |-> None]
  /\ answer = [w \in Worker |-> None]
  /\ outcome = [w \in Worker |-> "none"]

-----------------------------------------------------------------------------
(* The journal.                                                            *)

Events(c) == {journal[c][i] : i \in DOMAIN journal[c]}

IsProjected(c) == \E e \in Events(c) : e.type = "Projected"

\* assertProjectionFsm: the intent first and once, the projection last, one
\* payload throughout.
Audited(events) ==
  events # <<>> =>
    /\ events[1].type = "Queued"
    /\ \A i \in DOMAIN events :
         /\ events[i].payload = events[1].payload
         /\ i > 1 => events[i].type # "Queued"
         /\ i < Len(events) => events[i].type # "Projected"

\* Mutant: an event that is on record already is audited like a new one.
AcceptsOnlyNew(c, e) ==
  /\ certificate[c] = e.payload
  /\ Audited(Append(journal[c], e))

\* The transaction of append audits the journal with the new event in it.
Accepts(c, e) ==
  /\ certificate[c] = e.payload
  /\ e \in Events(c) \/ Audited(Append(journal[c], e))

\* An event that is already on record, to the letter, is not appended again.
Record(c, e) ==
  journal' = [journal EXCEPT ![c] = IF e \in Events(c) THEN @ ELSE Append(@, e)]

-----------------------------------------------------------------------------
(* A worker's call.                                                        *)

Goto(w, s) == pc' = [pc EXCEPT ![w] = s]

Return(w, result) ==
  /\ Goto(w, "idle")
  /\ outcome' = [outcome EXCEPT ![w] = result]

\* A validated command arrives, for the first time or again.
Start(w, c, p) ==
  /\ pc[w] = "idle"
  /\ task' = [task EXCEPT ![w] = [command |-> c, payload |-> p]]
  /\ outcome' = [outcome EXCEPT ![w] = "none"]
  /\ Goto(w, "certify")
  /\ UNCHANGED <<certificate, journal, issue, answer>>

\* Mutant: the certificate follows the latest payload.
CertifyLatest(w) ==
  /\ pc[w] = "certify"
  /\ certificate' = [certificate EXCEPT ![task[w].command] = task[w].payload]
  /\ Goto(w, "read")
  /\ UNCHANGED <<journal, issue, task, answer, outcome>>

\* issue: the first payload of a command id is certified; another is refused.
Certify(w) ==
  LET c == task[w].command
      p == task[w].payload
  IN  /\ pc[w] = "certify"
      /\ \/ /\ certificate[c] \in {None, p}
            /\ certificate' = [certificate EXCEPT ![c] = p]
            /\ Goto(w, "read")
            /\ UNCHANGED outcome
         \/ /\ certificate[c] \notin {None, p}
            /\ Return(w, "refused")
            /\ UNCHANGED certificate
      /\ UNCHANGED <<journal, issue, task, answer>>

\* Mutant: a deferred command is not taken up again.
ReadGivesUp(w) ==
  LET c == task[w].command
  IN  /\ pc[w] = "read"
      /\ \/ Events(c) \ {Queued(task[w].payload)} # {} /\ Return(w, "deferred")
         \/ /\ Events(c) \subseteq {Queued(task[w].payload)}
            /\ Goto(w, IF Events(c) = {} THEN "queue" ELSE "call")
            /\ UNCHANGED outcome
      /\ UNCHANGED <<certificate, journal, issue, task, answer>>

\* The certificate is verified and the journal read, once: what the worker
\* does next rests on this reading.
Read(w) ==
  LET c == task[w].command
  IN  /\ pc[w] = "read"
      /\ certificate[c] = task[w].payload
      /\ \/ IsProjected(c) /\ Return(w, "projected")
         \/ /\ ~IsProjected(c)
            /\ Goto(w, IF \E e \in Events(c) : e.type = "Queued" THEN "call" ELSE "queue")
            /\ UNCHANGED outcome
      /\ UNCHANGED <<certificate, journal, issue, task, answer>>

\* Mutant: the intent is not written down before the call.
QueueLater(w) ==
  /\ pc[w] = "queue"
  /\ Goto(w, "call")
  /\ UNCHANGED <<certificate, journal, issue, task, answer, outcome>>

Queue(w) ==
  LET c == task[w].command
      e == Queued(task[w].payload)
  IN  /\ pc[w] = "queue"
      /\ \/ Accepts(c, e) /\ Record(c, e) /\ Goto(w, "call") /\ UNCHANGED outcome
         \/ ~Accepts(c, e) /\ Return(w, "rejected") /\ UNCHANGED journal
      /\ UNCHANGED <<certificate, issue, task, answer>>

Answer(w, e) == answer' = [answer EXCEPT ![w] = e] /\ Goto(w, "append")

\* Mutant: an issue that the service reports is bound unseen.
CallTrusting(w) ==
  /\ pc[w] = "call"
  /\ \E r \in Revision : Answer(w, Projected(task[w].payload, r))
  /\ UNCHANGED <<certificate, journal, issue, task, outcome>>

\* The service holds an issue for the key and the answer binds it.
CallAnswered(w) ==
  LET c == task[w].command
  IN  /\ pc[w] = "call"
      /\ issue[c] = None => \E r \in Revision : issue' = [issue EXCEPT ![c] = r]
      /\ issue[c] # None => UNCHANGED issue
      /\ Answer(w, Projected(task[w].payload, issue'[c]))
      /\ UNCHANGED <<certificate, journal, task, outcome>>

\* The call fails, throws or answers something that does not bind, though the
\* service may have created the issue.
CallFailed(w) ==
  LET c == task[w].command
  IN  /\ pc[w] = "call"
      /\ \/ UNCHANGED issue
         \/ issue[c] = None /\ \E r \in Revision : issue' = [issue EXCEPT ![c] = r]
      /\ \E reason \in Reason : Answer(w, Deferred(task[w].payload, reason))
      /\ UNCHANGED <<certificate, journal, task, outcome>>

\* What came of the call is appended; a journal that does not take it makes
\* the call throw.
AppendAnswer(w) ==
  LET c == task[w].command
      e == answer[w]
  IN  /\ pc[w] = "append"
      /\ \/ /\ Accepts(c, e)
            /\ Record(c, e)
            /\ Return(w, IF e.type = "Projected" THEN "projected" ELSE "deferred")
         \/ /\ ~Accepts(c, e)
            /\ Return(w, "rejected")
            /\ UNCHANGED journal
      /\ UNCHANGED <<certificate, issue, task, answer>>

\* The database is busy or fails under a worker: the transaction rolls back.
DbFault(w) ==
  /\ pc[w] \in {"certify", "read", "queue", "append"}
  /\ Return(w, "fault")
  /\ UNCHANGED <<certificate, journal, issue, task, answer>>

Crash(w) ==
  /\ pc[w] # "idle"
  /\ Return(w, "none")
  /\ UNCHANGED <<certificate, journal, issue, task, answer>>

\* Somebody edits an issue: the service reports another revision.
Edited(c) ==
  /\ issue[c] # None
  /\ \E r \in Revision : issue' = [issue EXCEPT ![c] = r]
  /\ UNCHANGED <<certificate, journal>> /\ UNCHANGED local

Step(w) == \/ Certify(w) \/ Read(w) \/ Queue(w)
           \/ CallAnswered(w) \/ CallFailed(w) \/ AppendAnswer(w)

Next ==
  \/ \E w \in Worker :
       \/ \E c \in Command, p \in Payload : Start(w, c, p)
       \/ Step(w) \/ DbFault(w) \/ Crash(w)
  \/ \E c \in Command : Edited(c)

Spec == Init /\ [][Next]_vars

-----------------------------------------------------------------------------
(* Fairness: a command is sent again until it is projected, the database   *)
(* and the service answer now and then, and workers keep running.          *)

Resumed(w, c) == \E p \in Payload : p = certificate[c] /\ Start(w, c, p)
For(w, c, A) == task[w] = [command |-> c, payload |-> certificate[c]] /\ A
Bound(w) == pc[w] = "append" /\ answer[w].type = "Projected" /\ AppendAnswer(w)

Fairness ==
  \E w \in Worker : WF_vars(Step(w)) /\ \A c \in Command :
    /\ SF_vars(Resumed(w, c))
    /\ SF_vars(For(w, c, Certify(w))) /\ SF_vars(For(w, c, Read(w)))
    /\ SF_vars(For(w, c, Queue(w))) /\ SF_vars(For(w, c, CallAnswered(w)))
    /\ SF_vars(For(w, c, Bound(w)))

FairSpec == Spec /\ Fairness

-----------------------------------------------------------------------------
(* Properties.                                                             *)

\* The journal turns a worker away only from a command that another worker has
\* projected meanwhile: no intent queued twice on a stale reading, no deferral
\* of another worker, crash or repeated answer shuts anybody out of a command
\* that is still open (projectForwardEscapeIssue over append).
NobodyShutOut ==
  \A w \in Worker : outcome[w] = "rejected" => IsProjected(task[w].command)

\* Nothing is posted for a command whose intent is not on record.
IntentFirst == \A c \in Command : issue[c] # None => journal[c] # <<>>

\* What is on record for a command carries the payload it was certified with,
\* and a projection is bound to an issue that exists.
ProjectionBound ==
  \A c \in Command :
    /\ \A e \in Events(c) : e.payload = certificate[c]
    /\ IsProjected(c) => issue[c] # None

\* What a worker knows at its next step, whatever the others have done since.
Knows(w) ==
  LET c == task[w].command
  IN  /\ pc[w] \in {"read", "queue", "call", "append"}
           => certificate[c] = task[w].payload
      /\ pc[w] \in {"call", "append"} => journal[c] # <<>>
      /\ pc[w] = "append" =>
           /\ answer[w].type # "Queued"
           /\ answer[w].payload = task[w].payload
           /\ answer[w].type = "Projected" => issue[c] # None

\* The inductive part: nothing a worker knows goes stale in a harmful way, and
\* every journal on record passes the audit that append makes of it.
WorkerInv == \A w \in Worker : Knows(w)
JournalAuditable == \A c \in Command : Audited(journal[c])

\* What the projection promises (EscapeOutbox), with the stage of a command
\* read from its journal.
Outbox == INSTANCE EscapeOutbox WITH
            certified <- certificate,
            stage <- [c \in Command |->
                        IF journal[c] = <<>> THEN "new"
                        ELSE IF IsProjected(c) THEN "projected" ELSE "queued"]
OutboxSpec == Outbox!Spec
OutboxConverges == Outbox!Converges
=============================================================================
