--------------------------- MODULE ReviewCustody ---------------------------
(***************************************************************************)
(* The review of one head of one pull request by the other provider        *)
(* (src/feedback/review-attestation.ts, review-verdict-custody.ts and the  *)
(* delegation command).  A delegation writes the request, opens a numbered *)
(* attempt, runs the reviewer, who leaves a verdict file in the directory  *)
(* of the attempt, and turns the verdict into a receipt: the fact goes to  *)
(* the audit log first, then a complete temporary file is linked to the    *)
(* final name, which is never overwritten.  Requests, verdicts and         *)
(* receipts are files of a worktree, the audit log belongs to the          *)
(* repository; no lock is taken, on purpose.                               *)
(***************************************************************************)
EXTENDS Naturals, Sequences, FiniteSets

CONSTANTS
  Run,      \* runs of the delegation command, all for the same request identity
  Root,     \* worktrees of the repository
  None      \* no receipt

ASSUME ReviewCustodyAssumption ==
  /\ Run # {} /\ Root # {}
  /\ None \notin [verdict : {"PASS", "FLAG"}, at : Nat]

VARIABLES
  request,  \* when the request file of each worktree says it was issued; 0: no file
  receipt,  \* the receipt of each worktree
  verdict,  \* the verdict files of each worktree's attempts; as many as directories
  audit,    \* the audit log
  temp,     \* runs whose temporary receipt each worktree has
  clock,    \* the time, counted in the instants that somebody writes down
  alone,    \* history: so far one run at a time, and all of them in one worktree
  pc,       \* next step of each run
  me        \* what each run knows

files == <<request, receipt, verdict, audit, temp>>
custody == <<files, clock, alone, pc, me>>

Verdict == {"PASS", "FLAG"}                   \* PASS-WEAK counts as PASS everywhere
Receipt == [verdict : Verdict, at : Nat]
Outcome == {"failed", "rejected"}
Kind == Outcome \cup {"completed", "conflict", "superseded"}

Nothing == [root |-> None, started |-> 0, seen |-> 0, orphan |-> FALSE, attempt |-> 0,
            verdict |-> "none", at |-> 0, kind |-> "failed"]

CustodyInit ==
  /\ request = [w \in Root |-> 0]
  /\ receipt = [w \in Root |-> None]
  /\ verdict = [w \in Root |-> << >>]
  /\ audit = << >> /\ temp = [w \in Root |-> {}]
  /\ clock = 0 /\ alone = TRUE
  /\ pc = [r \in Run |-> "idle"]
  /\ me = [r \in Run |-> Nothing]

Goto(r, l) == pc' = [pc EXCEPT ![r] = l]
Know(r, k) == me' = [me EXCEPT ![r] = k]

\* A run that is over, in whatever way, leaves nothing but its files.
End(r) == Goto(r, "over") /\ Know(r, Nothing)

Discard(r) == temp' = [temp EXCEPT ![me[r].root] = @ \ {r}]

Content(r) == [verdict |-> me[r].verdict, at |-> me[r].at]

Event(r, k) == [kind |-> k, attempt |-> me[r].attempt, root |-> me[r].root,
                verdict |-> me[r].verdict, at |-> me[r].at]

Log(e) == audit' = Append(audit, e)

Logged(n, k, a) == {i \in 1..n : audit[i].kind = k /\ audit[i].attempt = a}

\* Attempt a of worktree w has been completed with the receipt that the worktree has, and
\* neither superseded nor contradicted.
TerminalReceipt(w) ==
  /\ receipt[w] # None
  /\ \E a \in 1..Len(verdict[w]) :
       /\ \E i \in Logged(Len(audit), "completed", a) :
            /\ audit[i].root = w
            /\ receipt[w] = [verdict |-> audit[i].verdict, at |-> audit[i].at]
       /\ Logged(Len(audit), "superseded", a + 1) = {}
       /\ Logged(Len(audit), "conflict", a) = {}

-----------------------------------------------------------------------------
(* The request. *)

\* The time that the request will carry is taken first.
Start(r) ==
  /\ pc[r] = "idle"
  /\ clock' = clock + 1
  /\ \E w \in Root : Know(r, [Nothing EXCEPT !.root = w, !.started = clock'])
  /\ Goto(r, "issue")
  /\ UNCHANGED <<files, alone>>

\* It is issued; whether the runs keep apart is noted.
Pass(r) ==
  /\ Goto(r, "request")
  /\ alone' = (/\ alone
               /\ \A q \in Run \ {r} : pc[q] \in {"idle", "over"}
               /\ \A w \in Root \ {me[r].root} : request[w] = 0)
  /\ UNCHANGED <<files, clock, me>>

\* Mutant: a receipt is looked for only when the attempt begins.
IssueAnyway(r) == pc[r] = "issue" /\ Pass(r)

\* Once there is a terminal receipt the request is not issued again.
Issue(r) ==
  /\ pc[r] = "issue"
  /\ \/ TerminalReceipt(me[r].root) /\ End(r) /\ UNCHANGED <<files, clock, alone>>
     \/ ~TerminalReceipt(me[r].root) /\ Pass(r)

\* The file of an earlier request is overwritten, with a later time.
WriteRequest(r) ==
  /\ pc[r] = "request"
  /\ request' = [request EXCEPT ![me[r].root] = me[r].started]
  /\ Know(r, [me[r] EXCEPT !.started = 0])
  /\ Goto(r, "look")
  /\ UNCHANGED <<receipt, verdict, audit, temp, clock, alone>>

-----------------------------------------------------------------------------
(* The attempt. *)

LookForReceipt(r) ==
  /\ pc[r] = "look"
  /\ Know(r, [me[r] EXCEPT !.orphan = receipt[me[r].root] # None])
  /\ Goto(r, "history")
  /\ UNCHANGED <<files, clock, alone>>

ReadHistory(r) ==
  /\ pc[r] = "history"
  /\ Know(r, [me[r] EXCEPT !.seen = Len(audit)])
  /\ Goto(r, "check")
  /\ UNCHANGED <<files, clock, alone>>

\* Temporary receipts are taken for those of runs that died.
CheckAndSweep(r) ==
  /\ pc[r] = "check"
  /\ \/ /\ TerminalReceipt(me[r].root)
        /\ End(r)
        /\ UNCHANGED temp
     \/ /\ ~TerminalReceipt(me[r].root)
        /\ temp' = [temp EXCEPT ![me[r].root] = {}]
        /\ Goto(r, "number")
        /\ UNCHANGED me
  /\ UNCHANGED <<request, receipt, verdict, audit, clock, alone>>

\* Outcomes of attempt a in the history that run r has read.
Outcomes(r, a) == Logged(me[r].seen, "failed", a) \cup Logged(me[r].seen, "rejected", a)

\* What is known of attempt a allows another one: exactly one failure of this worktree whose
\* verdict file is as it was, or none and a receipt that is not terminal, or none and one
\* completion of this worktree whose receipt is missing.
Retryable(r, a) ==
  LET w == me[r].root
      completions == Logged(me[r].seen, "completed", a)
  IN  \/ /\ Cardinality(Outcomes(r, a)) = 1
         /\ \A i \in Outcomes(r, a) : audit[i].root = w /\ audit[i].verdict = verdict[w][a]
      \/ /\ Outcomes(r, a) = {}
         /\ \/ me[r].orphan
            \/ /\ Cardinality(completions) = 1 /\ receipt[w] = None
               /\ \A i \in completions : audit[i].root = w

\* No conflict, and nobody has superseded the attempt before it failed or since.
Undisputed(r, a) ==
  LET superseded == {i \in 1..me[r].seen : audit[i].kind = "superseded"}
  IN  /\ Logged(me[r].seen, "conflict", a) = {}
      /\ \A i \in superseded : audit[i].attempt # a + 1
      /\ \A i \in superseded, j \in Outcomes(r, a) : i < j => audit[i].attempt <= a
      /\ Outcomes(r, a) = {} => \A i \in superseded : i < me[r].seen => audit[i].attempt <= a

\* Mutant: an attempt without an outcome is taken for one that died.
NumberAnyway(r) ==
  /\ pc[r] = "number"
  /\ LET n == Len(verdict[me[r].root])
     IN  /\ Know(r, [me[r] EXCEPT !.attempt = n + 1, !.seen = 0, !.orphan = FALSE])
         /\ Goto(r, IF n = 0 THEN "mkdir" ELSE "supersede")
  /\ UNCHANGED <<files, clock, alone>>

Number(r) ==
  /\ pc[r] = "number"
  /\ LET n == Len(verdict[me[r].root])
     IN  \/ /\ n = 0
            /\ Know(r, [me[r] EXCEPT !.attempt = 1, !.seen = 0, !.orphan = FALSE])
            /\ Goto(r, "mkdir")
         \/ /\ n > 0 /\ Retryable(r, n) /\ Undisputed(r, n)
            /\ Know(r, [me[r] EXCEPT !.attempt = n + 1, !.seen = 0, !.orphan = FALSE])
            /\ Goto(r, "supersede")
         \/ /\ n > 0 /\ ~(Retryable(r, n) /\ Undisputed(r, n))
            /\ End(r)
  /\ UNCHANGED <<files, clock, alone>>

Supersede(r) ==
  /\ pc[r] = "supersede"
  /\ Log(Event(r, "superseded"))
  /\ Goto(r, "mkdir")
  /\ UNCHANGED <<request, receipt, verdict, temp, clock, alone, me>>

\* Two runs may have taken the same number: the directory is then there already.
MakeDirectory(r) ==
  /\ pc[r] = "mkdir"
  /\ verdict' = [verdict EXCEPT ![me[r].root] =
       IF me[r].attempt > Len(@) THEN Append(@, "none") ELSE @]
  /\ Goto(r, "review")
  /\ UNCHANGED <<request, receipt, audit, temp, clock, alone, me>>

-----------------------------------------------------------------------------
(* The review and its outcome. *)

\* The reviewer leaves a verdict, something that is none, or nothing, and its process ends
\* with exit code zero or not.
Reviewed(r) ==
  /\ pc[r] = "review"
  /\ \/ UNCHANGED verdict
     \/ \E v \in Verdict \cup {"bad"} : verdict' = [verdict EXCEPT ![me[r].root][me[r].attempt] = v]
  /\ \/ /\ clock' = clock + 1
        /\ Know(r, [me[r] EXCEPT !.at = clock', !.kind = "rejected"])
        /\ Goto(r, "project")
     \/ Goto(r, "record") /\ UNCHANGED <<clock, me>>
  /\ UNCHANGED <<request, receipt, audit, temp, alone>>

File(r) == verdict[me[r].root][me[r].attempt]

Project(r) ==
  /\ pc[r] = "project"
  /\ \/ /\ File(r) \in Verdict
        /\ Know(r, [me[r] EXCEPT !.verdict = File(r)])
        /\ Goto(r, "retain")
     \/ /\ File(r) \notin Verdict
        /\ Know(r, [me[r] EXCEPT !.at = 0])
        /\ Goto(r, "record")
  /\ UNCHANGED <<files, clock, alone>>

\* The verdict file is read again; one that has changed makes no receipt, and no outcome.
Retain(r) ==
  /\ pc[r] = "retain"
  /\ \/ File(r) = me[r].verdict /\ Goto(r, "stage") /\ UNCHANGED me
     \/ File(r) # me[r].verdict /\ End(r)
  /\ UNCHANGED <<files, clock, alone>>

\* An attempt that has been completed, in whichever worktree, is not completed again.
Stage(r) ==
  /\ pc[r] = "stage"
  /\ \/ /\ Logged(Len(audit), "completed", me[r].attempt) # {}
        /\ End(r)
        /\ UNCHANGED temp
     \/ /\ Logged(Len(audit), "completed", me[r].attempt) = {}
        /\ temp' = [temp EXCEPT ![me[r].root] = @ \cup {r}]
        /\ Goto(r, "append")
        /\ UNCHANGED me
  /\ UNCHANGED <<request, receipt, verdict, audit, clock, alone>>

\* The fact is appended, or the attempt is recorded as a failed one.
AppendFact(r) ==
  /\ pc[r] = "append"
  /\ \/ /\ Log(Event(r, "completed"))
        /\ Goto(r, "link")
        /\ UNCHANGED <<temp, me>>
     \/ /\ Discard(r)
        /\ Know(r, [me[r] EXCEPT !.kind = "failed"])
        /\ Goto(r, "record")
        /\ UNCHANGED audit
  /\ UNCHANGED <<request, receipt, verdict, clock, alone>>

\* The link never replaces a file; the temporary one may have been swept.
LinkReceipt(r) ==
  /\ pc[r] = "link"
  /\ LET w == me[r].root
     IN  \/ r \notin temp[w] /\ End(r) /\ UNCHANGED receipt
         \/ /\ r \in temp[w] /\ receipt[w] = None
            /\ receipt' = [receipt EXCEPT ![w] = Content(r)]
            /\ End(r)
         \/ /\ r \in temp[w] /\ receipt[w] # None
            /\ Goto(r, "conflict")
            /\ UNCHANGED <<receipt, me>>
  /\ Discard(r)
  /\ UNCHANGED <<request, verdict, audit, clock, alone>>

Contradict(r) ==
  /\ pc[r] = "conflict"
  /\ Log(Event(r, "conflict"))
  /\ End(r)
  /\ UNCHANGED <<request, receipt, verdict, temp, clock, alone>>

\* The failure of an attempt is written once; a second one, or that of another worktree's
\* attempt of this number, is a conflict, which is written once too.  Failures that look the
\* same here may differ all the same, in the exit code or the reason given.
Record(r) ==
  /\ pc[r] = "record"
  /\ LET a == me[r].attempt
         e == Event(r, me[r].kind)
         earlier == {i \in 1..Len(audit) : audit[i].kind \in Outcome /\ audit[i].attempt = a}
         new == [me[r] EXCEPT !.verdict = File(r), !.at = 0]
     IN  \/ earlier = {} /\ Know(r, new) /\ Goto(r, "note")
         \/ /\ Cardinality(earlier) = 1 /\ Logged(Len(audit), "conflict", a) = {}
            /\ Know(r, [new EXCEPT !.kind = "conflict"])
            /\ Goto(r, "note")
         \/ /\ earlier # {}
            /\ \/ Cardinality(earlier) > 1 \/ Logged(Len(audit), "conflict", a) # {}
               \/ \A i \in earlier : audit[i] = [e EXCEPT !.verdict = File(r), !.at = 0]
            /\ End(r)
  /\ UNCHANGED <<files, clock, alone>>

Note(r) ==
  /\ pc[r] = "note"
  /\ Log(Event(r, me[r].kind))
  /\ End(r)
  /\ UNCHANGED <<request, receipt, verdict, temp, clock, alone>>

\* The process is killed; a temporary receipt stays behind.
Die(r) ==
  /\ pc[r] \notin {"idle", "over"}
  /\ End(r)
  /\ UNCHANGED <<files, clock, alone>>

Delegation(r) ==
  \/ Start(r) \/ Issue(r) \/ WriteRequest(r)
  \/ LookForReceipt(r) \/ ReadHistory(r) \/ CheckAndSweep(r) \/ Number(r) \/ Supersede(r)
  \/ MakeDirectory(r) \/ Reviewed(r) \/ Project(r) \/ Retain(r) \/ Stage(r)
  \/ AppendFact(r) \/ LinkReceipt(r) \/ Contradict(r) \/ Record(r) \/ Note(r) \/ Die(r)
=============================================================================
