-------------------------- MODULE ReviewGateProofs --------------------------
(***************************************************************************)
(* Theorems about ReviewCustody and ReviewGate, for any number of          *)
(* delegations, worktrees and runs of the gate.                            *)
(***************************************************************************)
EXTENDS ReviewGate, SequenceTheorems, FiniteSetTheorems, TLAPS

USE ReviewCustodyAssumption, ReviewGateAssumption
    DEF ReviewCustodyAssumption, ReviewGateAssumption

-----------------------------------------------------------------------------
(* Types. *)

Steps == {"idle", "issue", "request", "look", "history", "check", "number", "supersede", "mkdir",
          "review", "project", "retain", "stage", "append", "link", "conflict", "record", "note",
          "over"}
Written == Verdict \cup {"none", "bad"}
Entry == [kind : Kind, attempt : Nat, root : Root, verdict : Written, at : Nat]
Knowledge == [root : Root \cup {None}, started : Nat, seen : Nat, orphan : BOOLEAN, attempt : Nat,
              verdict : Written, at : Nat, kind : Kind]

\* The steps of a run that has a directory, and of one whose verdict is to become a receipt.
Attempting == {"review", "project", "retain", "stage", "append", "link", "conflict", "record", "note"}
Completing == {"retain", "stage", "append", "link", "conflict"}

RunOK(r) ==
  /\ me[r].seen <= Len(audit)
  /\ pc[r] \notin {"idle", "over"} => me[r].root \in Root
  /\ pc[r] \in {"issue", "request"} => me[r].started # 0
  /\ pc[r] \in {"supersede", "mkdir"} => me[r].attempt \in 1..(Len(verdict[me[r].root]) + 1)
  /\ pc[r] \in Attempting => me[r].attempt \in 1..Len(verdict[me[r].root])
  /\ pc[r] \in Completing => me[r].verdict \in Verdict

FilesOK ==
  /\ request \in [Root -> Nat] /\ receipt \in [Root -> Receipt \cup {None}]
  /\ verdict \in [Root -> Seq(Written)] /\ audit \in Seq(Entry)
  /\ temp \in [Root -> SUBSET Run] /\ clock \in Nat

RunsOK == pc \in [Run -> Steps] /\ me \in [Run -> Knowledge] /\ \A r \in Run : RunOK(r)

GateOK ==
  /\ head \in Heads
  /\ step \in [Gate -> {"idle", "view", "requests", "receipts", "evaluate", "intent", "merge",
                        "merged", "failed", "over"}]
  /\ now \in [Gate -> Nat] /\ left \in [Gate -> SUBSET Root]
  /\ requests \in [Gate -> SUBSET Nat] /\ receipts \in [Gate -> SUBSET Receipt]
  /\ log \subseteq Gate \X {"intent", "merge", "merge_failed"}
  /\ merged \in [Gate -> Heads \cup {None}] /\ warned \subseteq Gate

Typed == FilesOK /\ RunsOK /\ GateOK

-----------------------------------------------------------------------------
(* Attempts follow one another on record. *)

\* Attempt a of worktree w has come to an outcome at one of the events I, or w has a receipt.
Settled(w, a, I) ==
  \/ receipt[w] # None
  \/ \E j \in I : /\ audit[j].kind \in Outcome \cup {"completed"}
                  /\ audit[j].root = w /\ audit[j].attempt = a

\* Attempt a of worktree w supersedes one that was settled before.
Accounted(w, a) ==
  \E i \in DOMAIN audit :
    /\ audit[i].kind = "superseded" /\ audit[i].root = w /\ audit[i].attempt = a
    /\ Settled(w, a - 1, 1..(i - 1))

\* The next number is taken from a settled attempt, and its directory is made only on record.
NumberTaken ==
  \A r \in Run, w \in Root, a \in Nat : me[r].root = w /\ me[r].attempt = a =>
    /\ me[r].orphan => receipt[w] # None
    /\ pc[r] = "supersede" => Settled(w, a - 1, DOMAIN audit)
    /\ pc[r] = "mkdir" => a = 1 \/ Accounted(w, a)

RetryInv == NumberTaken /\ \A w \in Root : \A a \in 1..(Len(verdict[w]) - 1) : Accounted(w, a + 1)

-----------------------------------------------------------------------------
(* Receipts and what the gate makes of them. *)

\* The completion of an attempt of worktree w with receipt c is on record.
OnRecord(w, c) ==
  \E i \in DOMAIN audit : /\ audit[i].kind = "completed" /\ audit[i].root = w
                          /\ c = [verdict |-> audit[i].verdict, at |-> audit[i].at]

\* Every receipt has its fact in the audit log, from before it was linked.
ReceiptsOnRecord ==
  /\ \A w \in Root : receipt[w] # None => OnRecord(w, receipt[w])
  /\ \A r \in Run : pc[r] = "link" => OnRecord(me[r].root, Content(r))

\* What the gate has read is still there.
ReadStands == \A g \in Gate : \A c \in receipts[g] : \E w \in Root : receipt[w] = c

\* A worktree holds a PASS that is on record.
Passed == \E w \in Root, i \in DOMAIN audit :
            /\ audit[i].kind = "completed" /\ audit[i].root = w
            /\ receipt[w] = [verdict |-> "PASS", at |-> audit[i].at]

Decided == {"intent", "merge", "merged", "failed"}

MergeInv ==
  \A g \in Gate :
    /\ step[g] \in Decided \/ merged[g] # None => Passed
    /\ step[g] = "merge" \/ merged[g] # None => <<g, "intent">> \in log
    /\ merged[g] # None => merged[g] = "reviewed" /\ step[g] \in {"merged", "failed", "over"}

\* A FLAG that was there when the gate began to read receipts is among those it has read, or
\* is in a worktree that it has still to read.
FlagInv ==
  \A g \in warned :
    /\ g \in Gate /\ merged[g] = None
    /\ step[g] \in {"receipts", "evaluate", "over"}
    /\ step[g] # "over" =>
         \E w \in Root : /\ receipt[w] # None /\ receipt[w].verdict = "FLAG"
                         /\ receipt[w] \in receipts[g] \/ (step[g] = "receipts" /\ w \in left[g])

GateInv == ReceiptsOnRecord /\ ReadStands /\ MergeInv /\ FlagInv

-----------------------------------------------------------------------------
(* One run after the other. *)

Working(r) == pc[r] \notin {"idle", "issue", "over"}

\* A worktree where anything has happened has a request.
RequestFirst ==
  /\ \A w \in Root : request[w] = 0 => receipt[w] = None /\ verdict[w] = << >>
  /\ \A i \in DOMAIN audit : request[audit[i].root] # 0
  /\ \A r \in Run : Working(r) /\ pc[r] # "request" => request[me[r].root] # 0

\* Requests and receipts are of the past, in this order.
Dated ==
  /\ \A w \in Root : request[w] <= clock
  /\ \A r \in Run : pc[r] \in {"issue", "request"} => me[r].started \in 1..clock

\* The runs that keep apart are in one worktree, one at work at a time.
Apart ==
  alone => /\ \A r, q \in Run : Working(r) /\ Working(q) => r = q
           /\ \A w, v \in Root : request[w] # 0 /\ request[v] # 0 => w = v
           /\ \A r \in Run, w \in Root : Working(r) /\ request[w] # 0 => me[r].root = w

\* Then the events on record are of the attempts there are, or of the one to come.
InOrder ==
  \A i \in DOMAIN audit :
    LET n == Len(verdict[audit[i].root])
    IN  /\ audit[i].kind # "conflict"
        /\ audit[i].attempt <= IF audit[i].kind = "superseded" THEN n + 1 ELSE n

\* The completion of its attempt that a run has written is on record.
FactWritten(r) ==
  \E i \in DOMAIN audit :
    /\ audit[i].kind = "completed" /\ audit[i].root = me[r].root
    /\ audit[i].attempt = me[r].attempt
    /\ Content(r) = [verdict |-> audit[i].verdict, at |-> audit[i].at]

\* The run at work finds no receipt, and has the last attempt to itself, of which nothing is
\* on record but that it supersedes another one, and what the run has written.
FreshRun(r) ==
  LET w == me[r].root
      n == Len(verdict[w])
  IN  /\ receipt[w] = None /\ pc[r] # "conflict"
      /\ pc[r] \in {"supersede", "mkdir"} => me[r].attempt = n + 1
      /\ pc[r] \in Attempting =>
           /\ me[r].attempt = n
           /\ \A i \in DOMAIN audit : audit[i].kind = "superseded" => audit[i].attempt <= n
      /\ pc[r] \in Attempting \ {"link"} =>
           \A i \in DOMAIN audit : audit[i].kind # "superseded" => audit[i].attempt < n
      /\ pc[r] = "link" => FactWritten(r)
      /\ pc[r] \in Completing \cup {"project"} => request[w] <= me[r].at

Fresh ==
  alone => /\ InOrder
           /\ \A r \in Run : me[r].kind # "conflict" /\ (Working(r) => FreshRun(r))

AloneInv == RequestFirst /\ Dated /\ Apart /\ Fresh /\ ReceiptStands

-----------------------------------------------------------------------------
(* Type correctness. *)

\* What is appended to the audit log is an entry, and the log only grows.
LEMMA LogGrows ==
  ASSUME audit \in Seq(Entry), NEW e \in Entry, Log(e)
  PROVE  /\ audit' \in Seq(Entry) /\ Len(audit') = Len(audit) + 1 /\ Len(audit) \in Nat
         /\ DOMAIN audit = 1..Len(audit) /\ DOMAIN audit' = 1..(Len(audit) + 1)
         /\ \A i \in 1..Len(audit) : audit'[i] = audit[i]
         /\ audit'[Len(audit) + 1] = e
BY AppendProperties, LenProperties DEF Log

\* The files never lose what they hold: receipts stay, directories and events are added.
Grown ==
  /\ \A i \in DOMAIN audit : i \in DOMAIN audit' /\ audit'[i] = audit[i]
  /\ Len(audit) <= Len(audit')
  /\ \A w \in Root : /\ receipt[w] # None => receipt'[w] = receipt[w]
                     /\ Len(verdict[w]) <= Len(verdict'[w])
                     /\ request[w] # 0 => request'[w] # 0

\* A delegation changes nobody else's step and knowledge.
Others(r) == \A q \in Run \ {r} : pc'[q] = pc[q] /\ me'[q] = me[q]

\* What a run comes to know is knowledge.
LEMMA Learn ==
  ASSUME NEW m \in Knowledge, NEW x \in Nat, NEW v \in Written, NEW k \in Kind, NEW b \in BOOLEAN
  PROVE  /\ [m EXCEPT !.started = x] \in Knowledge
         /\ [m EXCEPT !.orphan = b] \in Knowledge
         /\ [m EXCEPT !.seen = x] \in Knowledge
         /\ [m EXCEPT !.attempt = x, !.seen = 0, !.orphan = FALSE] \in Knowledge
         /\ [m EXCEPT !.at = x, !.kind = k] \in Knowledge
         /\ [m EXCEPT !.verdict = v] \in Knowledge
         /\ [m EXCEPT !.at = x] \in Knowledge
         /\ [m EXCEPT !.kind = k] \in Knowledge
         /\ [m EXCEPT !.verdict = v, !.at = x] \in Knowledge
BY DEF Knowledge

\* A step of a delegation keeps the types, only adds to the files, and leaves the step and
\* the knowledge of other delegations alone.
LEMMA CustodyStep ==
  ASSUME FilesOK, RunsOK, NEW r \in Run, Delegation(r)
  PROVE  FilesOK' /\ RunsOK' /\ Grown /\ Others(r)
<1> DEFINE w == me[r].root
           Kept == FilesOK' /\ RunsOK' /\ Grown /\ Others(r)
<1>0. /\ audit \in Seq(Entry) /\ Len(audit) \in Nat /\ DOMAIN audit = 1..Len(audit)
      /\ \A v \in Root : verdict[v] \in Seq(Written) /\ Len(verdict[v]) \in Nat
      /\ Nothing \in Knowledge /\ Nothing.seen = 0
      /\ pc \in [Run -> Steps] /\ me \in [Run -> Knowledge] /\ RunOK(r) /\ me[r] \in Knowledge
  BY LenProperties DEF Nothing, Knowledge, Written, Kind, Outcome, FilesOK, RunsOK
\* It is enough to look at the run itself.
<1>1. ASSUME FilesOK', Grown, NEW l \in Steps, NEW k \in Knowledge, Goto(r, l), Know(r, k),
             (pc'[r] = l /\ me'[r] = k) => RunOK(r)'
      PROVE  Kept
  <2>1. /\ pc' \in [Run -> Steps] /\ me' \in [Run -> Knowledge] /\ Others(r)
        /\ pc'[r] = l /\ me'[r] = k
    BY <1>0, <1>1 DEF Goto, Know, Others
  <2>2. ASSUME NEW q \in Run, q # r PROVE RunOK(q)'
    <3>1. pc'[q] = pc[q] /\ me'[q] = me[q] /\ RunOK(q) /\ me[q] \in Knowledge
      BY <2>1, <2>2 DEF Others, RunsOK
    <3>2. /\ Len(audit') \in Nat /\ me[q].seen \in Nat /\ me[q].attempt \in Nat
          /\ \A v \in Root : Len(verdict'[v]) \in Nat
      BY <1>1, <3>1, LenProperties DEF Knowledge, FilesOK
    <3>3. /\ Len(audit') >= Len(audit)
          /\ \A v \in Root : Len(verdict'[v]) >= Len(verdict[v]) /\ Len(verdict[v]) \in Nat
      BY <1>0, <1>1, <3>2 DEF Grown
    <3>4. /\ pc[q] \in {"supersede", "mkdir"} => me[q].attempt \in 1..(Len(verdict'[me[q].root]) + 1)
          /\ pc[q] \in Attempting => me[q].attempt \in 1..Len(verdict'[me[q].root])
      <4>1. CASE me[q].root \in Root
        <5> DEFINE a == Len(verdict[me[q].root])
                   b == Len(verdict'[me[q].root])
        <5>1. a \in Nat /\ b \in Nat /\ b >= a  BY <3>2, <3>3, <4>1
        <5>2. /\ pc[q] \in {"supersede", "mkdir"} => me[q].attempt \in 1..(a + 1)
              /\ pc[q] \in Attempting => me[q].attempt \in 1..a
          BY <3>1 DEF RunOK
        <5>3. (1..a) \subseteq (1..b) /\ (1..(a + 1)) \subseteq (1..(b + 1))  BY <5>1
        <5> QED  BY <5>2, <5>3
      <4>2. CASE pc[q] \in {"idle", "over"}  BY <4>2 DEF Attempting, Completing
      <4> QED  BY <3>1, <4>1, <4>2 DEF RunOK
    <3>5. me[q].seen <= Len(audit')  BY <1>0, <3>1, <3>2, <3>3 DEF RunOK
    <3> QED  BY <3>1, <3>4, <3>5 DEF RunOK
  <2> QED  BY <1>1, <2>1, <2>2 DEF RunsOK
<1>2. ASSUME NEW l \in Steps, UNCHANGED me PROVE Know(r, me[r])
  BY <1>0, <1>2 DEF Know
<1>3. ASSUME FilesOK', Grown, End(r) PROVE Kept
  <2>1. (pc'[r] = "over" /\ me'[r] = Nothing) => RunOK(r)'
    BY <1>3, <1>0, LenProperties DEF RunOK, FilesOK, Attempting, Completing
  <2> QED  BY <1>0, <1>1, <1>3, <2>1 DEF End, Steps
<1>4. ASSUME UNCHANGED <<request, receipt, verdict, audit>>, temp' \in [Root -> SUBSET Run], clock' \in Nat
      PROVE  FilesOK' /\ Grown
  BY <1>0, <1>4 DEF FilesOK, Grown
<1>5. ASSUME NEW k \in Kind, Log(Event(r, k)), w \in Root,
             UNCHANGED <<verdict, receipt, request, clock>>, temp' \in [Root -> SUBSET Run]
      PROVE  FilesOK' /\ Grown
  <2>1. Event(r, k) \in Entry  BY <1>0, <1>5 DEF Event, Entry, Knowledge
  <2> QED  BY <1>0, <1>5, <2>1, LogGrows DEF Grown, FilesOK
<1>6. temp \in [Root -> SUBSET Run] /\ clock \in Nat  BY DEF FilesOK
<1> USE DEF Steps, Attempting, Completing, files
<1>11. CASE Start(r)
  <2>0. PICK y : y = clock'  OBVIOUS
  <2>5. PICK v \in Root : Know(r, [Nothing EXCEPT !.root = v, !.started = y])
    BY <1>11, <2>0 DEF Start
  <2>1. PICK k : k = [Nothing EXCEPT !.root = v, !.started = y] /\ Know(r, k)  BY <2>5
  <2>2. Goto(r, "issue") /\ FilesOK' /\ Grown /\ y \in Nat /\ y # 0
    BY <1>4, <1>6, <1>11, <2>0 DEF Start
  <2>3. k \in Knowledge /\ k.seen = 0 /\ k.root = v /\ k.started # 0
    BY <2>1, <2>2 DEF Knowledge, Nothing, Written, Kind, Outcome
  <2>4. (pc'[r] = "issue" /\ me'[r] = k) => RunOK(r)'
    BY <2>2, <2>3, LenProperties DEF RunOK, FilesOK
  <2> QED  BY <1>1, <2>1, <2>2, <2>3, <2>4
<1>12. CASE Issue(r)
  <2>1. FilesOK' /\ Grown  BY <1>4, <1>6, <1>12 DEF Issue, Pass
  <2>2. CASE Pass(r)
    <3>1. Goto(r, "request") /\ UNCHANGED <<audit, verdict, me>> /\ pc[r] = "issue"
      BY <1>12, <2>2 DEF Issue, Pass
    <3> QED  BY <1>0, <1>1, <1>2, <2>1, <3>1 DEF RunOK
  <2>3. CASE End(r)  BY <1>3, <2>1, <2>3
  <2> QED  BY <1>12, <2>2, <2>3 DEF Issue
<1> USE DEF RunOK
<1>13. CASE WriteRequest(r)
  <2>1. w \in Root /\ me[r].started \in Nat \ {0}  BY <1>0, <1>13 DEF WriteRequest, Knowledge
  <2>2. /\ request' = [request EXCEPT ![w] = me[r].started]
        /\ UNCHANGED <<receipt, verdict, audit, temp, clock>>
    BY <1>13 DEF WriteRequest
  <2>3. FilesOK' /\ Grown  BY <1>0, <2>1, <2>2 DEF FilesOK, Grown
  <2> DEFINE k == [me[r] EXCEPT !.started = 0]
  <2>4. k \in Knowledge /\ k.seen = me[r].seen /\ k.root = w  BY <1>0, Learn DEF Knowledge
  <2>5. Know(r, k) /\ Goto(r, "look")  BY <1>13 DEF WriteRequest
  <2> HIDE DEF k
  <2> QED  BY <1>0, <1>1, <2>1, <2>2, <2>3, <2>4, <2>5
<1>14. CASE LookForReceipt(r)
  <2>1. FilesOK' /\ Grown  BY <1>4, <1>6, <1>14 DEF LookForReceipt
  <2> DEFINE k == [me[r] EXCEPT !.orphan = receipt[me[r].root] # None]
  <2>2. k \in Knowledge /\ k.seen = me[r].seen /\ k.root = w  BY <1>0, Learn DEF Knowledge
  <2>3. Know(r, k) /\ Goto(r, "history") /\ w \in Root /\ UNCHANGED audit
    BY <1>0, <1>14 DEF LookForReceipt
  <2> HIDE DEF k
  <2> QED  BY <1>0, <1>1, <2>1, <2>2, <2>3
<1>15. CASE ReadHistory(r)
  <2>1. FilesOK' /\ Grown  BY <1>4, <1>6, <1>15 DEF ReadHistory
  <2>2. w \in Root /\ UNCHANGED audit  BY <1>0, <1>15 DEF ReadHistory
  <2> DEFINE k == [me[r] EXCEPT !.seen = Len(audit)]
  <2>3. k \in Knowledge /\ k.seen = Len(audit) /\ k.root = w  BY <1>0, Learn DEF Knowledge
  <2>4. Goto(r, "check") /\ Know(r, k)  BY <1>15 DEF ReadHistory
  <2> HIDE DEF k
  <2>5. (pc'[r] = "check" /\ me'[r] = k) => RunOK(r)'  BY <1>0, <2>2, <2>3
  <2> QED  BY <1>1, <2>1, <2>3, <2>4, <2>5
<1>16. CASE CheckAndSweep(r)
  <2>1. w \in Root  BY <1>0, <1>16 DEF CheckAndSweep
  <2>2. FilesOK' /\ Grown  BY <1>4, <1>6, <1>16, <2>1 DEF CheckAndSweep
  <2>3. CASE Goto(r, "number") /\ UNCHANGED me
    BY <1>0, <1>1, <1>2, <1>16, <2>1, <2>2, <2>3 DEF CheckAndSweep
  <2> QED  BY <1>3, <1>16, <2>2, <2>3 DEF CheckAndSweep
<1>17. CASE Number(r)
  <2>1. w \in Root  BY <1>0, <1>17 DEF Number
  <2>2. FilesOK' /\ Grown  BY <1>4, <1>6, <1>17 DEF Number
  <2> DEFINE n == Len(verdict[w])
             Taken(m) == [me[r] EXCEPT !.attempt = m, !.seen = 0, !.orphan = FALSE]
  <2>3. \A m \in Nat : /\ Taken(m) \in Knowledge /\ Taken(m).attempt = m
                       /\ Taken(m).seen = 0 /\ Taken(m).root = w
    <3>0. 0 \in Nat /\ FALSE \in BOOLEAN /\ me[r].kind \in Kind /\ me[r].verdict \in Written
      BY <1>0 DEF Knowledge
    <3>1. ASSUME NEW m \in Nat PROVE Taken(m) \in Knowledge  BY <1>0, <3>0, <3>1, Learn
    <3> QED  BY <1>0, <3>1 DEF Knowledge
  <2>4. \/ End(r)
        \/ n = 0 /\ Know(r, Taken(1)) /\ Goto(r, "mkdir")
        \/ Know(r, Taken(n + 1)) /\ Goto(r, "supersede")
    BY <1>17 DEF Number
  <2>5. UNCHANGED <<verdict, audit>> /\ n \in Nat  BY <1>0, <1>17, <2>1 DEF Number, files
  <2> HIDE DEF Taken
  <2>6. CASE n = 0 /\ Know(r, Taken(1)) /\ Goto(r, "mkdir")
    <3>1. (pc'[r] = "mkdir" /\ me'[r] = Taken(1)) => RunOK(r)'  BY <2>1, <2>3, <2>5, <2>6
    <3> QED  BY <1>1, <2>2, <2>3, <2>6, <3>1
  <2>7. CASE Know(r, Taken(n + 1)) /\ Goto(r, "supersede")
    <3>1. (pc'[r] = "supersede" /\ me'[r] = Taken(n + 1)) => RunOK(r)'
      BY <2>1, <2>3, <2>5, <2>7
    <3> QED  BY <1>1, <2>2, <2>3, <2>5, <2>7, <3>1
  <2> QED  BY <1>3, <2>2, <2>4, <2>6, <2>7
<1>18. CASE Supersede(r)
  <2>1. w \in Root /\ "superseded" \in Kind  BY <1>0, <1>18 DEF Supersede, Kind
  <2>2. FilesOK' /\ Grown  BY <1>5, <1>6, <1>18, <2>1 DEF Supersede
  <2>3. Len(audit') \in Nat /\ Len(audit) <= Len(audit')
    BY <2>2, LenProperties DEF FilesOK, Grown
  <2>4. /\ Goto(r, "mkdir") /\ UNCHANGED <<me, verdict>> /\ pc[r] = "supersede"
        /\ me[r].seen \in Nat
    BY <1>0, <1>18 DEF Supersede, Knowledge
  <2>5. (pc'[r] = "mkdir" /\ me'[r] = me[r]) => RunOK(r)'  BY <1>0, <2>1, <2>3, <2>4
  <2> QED  BY <1>0, <1>1, <1>2, <2>2, <2>4, <2>5
<1>19. CASE MakeDirectory(r)
  <2>1. w \in Root /\ me[r].attempt \in 1..(Len(verdict[w]) + 1)  BY <1>0, <1>19 DEF MakeDirectory
  <2> DEFINE d == IF me[r].attempt > Len(verdict[w]) THEN Append(verdict[w], "none") ELSE verdict[w]
  <2>2. d \in Seq(Written) /\ Len(d) >= Len(verdict[w]) /\ me[r].attempt \in 1..Len(d) /\ Len(d) \in Nat
    BY <1>0, <2>1, AppendProperties DEF Written
  <2> HIDE DEF d
  <2>3. verdict' = [verdict EXCEPT ![w] = d]  BY <1>19 DEF MakeDirectory, d
  <2>4. /\ UNCHANGED <<request, receipt, audit, temp, clock, me>> /\ Goto(r, "review")
        /\ verdict' \in [Root -> Seq(Written)] /\ verdict'[w] = d
        /\ \A v \in Root : v # w => verdict'[v] = verdict[v]
    <3>1. UNCHANGED <<request, receipt, audit, temp, clock, me>> /\ Goto(r, "review")
      BY <1>19 DEF MakeDirectory
    <3>2. verdict \in [Root -> Seq(Written)]  BY DEF FilesOK
    <3> QED  BY <2>1, <2>2, <2>3, <3>1, <3>2
  <2>5. FilesOK'  BY <2>4 DEF FilesOK
  <2>6. Grown
    <3>1. ASSUME NEW v \in Root PROVE Len(verdict[v]) <= Len(verdict'[v])
      <4>1. CASE v = w  BY <2>2, <2>4, <4>1
      <4>2. CASE v # w  BY <1>0, <2>4, <4>2
      <4> QED  BY <4>1, <4>2
    <3> QED  BY <1>0, <2>4, <3>1 DEF Grown
  <2> QED  BY <1>0, <1>1, <1>2, <2>1, <2>2, <2>4, <2>5, <2>6
<1>20. CASE Reviewed(r)
  <2>1. w \in Root /\ me[r].attempt \in 1..Len(verdict[w]) /\ pc[r] = "review"
    BY <1>0, <1>20 DEF Reviewed
  <2>2. /\ UNCHANGED <<request, receipt, audit, temp>>
        /\ \/ UNCHANGED verdict
           \/ \E v \in Verdict \cup {"bad"} : verdict' = [verdict EXCEPT ![w][me[r].attempt] = v]
    BY <1>20 DEF Reviewed
  <2>3. PICK d \in Seq(Written) : verdict' = [verdict EXCEPT ![w] = d] /\ Len(d) = Len(verdict[w])
    <3>1. CASE UNCHANGED verdict  BY <1>0, <2>1, <3>1 DEF FilesOK
    <3>2. ASSUME NEW v \in Verdict \cup {"bad"}, verdict' = [verdict EXCEPT ![w][me[r].attempt] = v]
          PROVE  \E d \in Seq(Written) : verdict' = [verdict EXCEPT ![w] = d] /\ Len(d) = Len(verdict[w])
      <4>1. [verdict[w] EXCEPT ![me[r].attempt] = v] \in Seq(Written)
        BY <1>0, <2>1, ExceptSeq DEF Written
      <4>2. Len([verdict[w] EXCEPT ![me[r].attempt] = v]) = Len(verdict[w])
        BY <1>0, <2>1, ExceptSeq DEF Written
      <4> QED  BY <3>2, <4>1, <4>2
    <3> QED  BY <2>2, <3>1, <3>2
  <2>4. /\ verdict' \in [Root -> Seq(Written)]
        /\ \A v \in Root : Len(verdict'[v]) = Len(verdict[v])
    BY <1>0, <2>1, <2>3 DEF FilesOK
  <2>5. clock' \in Nat  BY <1>6, <1>20 DEF Reviewed
  <2>6. FilesOK' /\ Grown  BY <1>0, <2>2, <2>4, <2>5 DEF FilesOK, Grown
  <2> DEFINE k == [me[r] EXCEPT !.at = clock', !.kind = "rejected"]
  <2>7. k \in Knowledge /\ k.seen = me[r].seen /\ k.root = w /\ k.attempt = me[r].attempt
    <3>1. "rejected" \in Kind /\ me[r].orphan \in BOOLEAN /\ me[r].verdict \in Written
      BY <1>0 DEF Kind, Outcome, Knowledge
    <3>2. k \in Knowledge  BY <1>0, <2>5, <3>1, Learn
    <3> QED  BY <1>0, <3>2 DEF Knowledge
  <2>8. \/ Know(r, k) /\ Goto(r, "project")
        \/ UNCHANGED me /\ Goto(r, "record")
    BY <1>20 DEF Reviewed
  <2> HIDE DEF k
  <2>9. CASE Know(r, k) /\ Goto(r, "project")
    <3>1. (pc'[r] = "project" /\ me'[r] = k) => RunOK(r)'
      BY <1>0, <2>1, <2>2, <2>4, <2>7
    <3> QED  BY <1>1, <2>6, <2>7, <2>9, <3>1
  <2>10. CASE UNCHANGED me /\ Goto(r, "record")
    <3>1. (pc'[r] = "record" /\ me'[r] = me[r]) => RunOK(r)'
      BY <1>0, <2>1, <2>2, <2>4
    <3> QED  BY <1>0, <1>1, <1>2, <2>6, <2>10, <3>1
  <2> QED  BY <2>8, <2>9, <2>10
<1>21. ASSUME pc[r] \in Attempting PROVE /\ w \in Root /\ me[r].attempt \in 1..Len(verdict[w])
                                         /\ File(r) \in Written
  <2>1. w \in Root /\ me[r].attempt \in 1..Len(verdict[w])  BY <1>0, <1>21
  <2> QED  BY <1>0, <2>1, ElementOfSeq DEF File
<1>22. CASE Project(r)
  <2>1. FilesOK' /\ Grown  BY <1>4, <1>6, <1>22 DEF Project
  <2>2. UNCHANGED <<verdict, audit>> /\ pc[r] = "project"  BY <1>22 DEF Project
  <2>3. /\ [me[r] EXCEPT !.verdict = File(r)] \in Knowledge
        /\ [me[r] EXCEPT !.at = 0] \in Knowledge
    <3>1. /\ File(r) \in Written /\ 0 \in Nat /\ TRUE \in BOOLEAN
          /\ me[r].kind \in Kind /\ me[r].verdict \in Written
      BY <1>0, <1>21, <2>2 DEF Knowledge
    <3> QED  BY <1>0, <3>1, Learn
  <2> DEFINE k == [me[r] EXCEPT !.verdict = File(r)]
             m == [me[r] EXCEPT !.at = 0]
  <2>4. /\ k.seen = me[r].seen /\ k.root = w /\ k.attempt = me[r].attempt /\ k.verdict = File(r)
        /\ m.seen = me[r].seen /\ m.root = w /\ m.attempt = me[r].attempt
    BY <1>0 DEF Knowledge
  <2>5. \/ File(r) \in Verdict /\ Know(r, k) /\ Goto(r, "retain")
        \/ Know(r, m) /\ Goto(r, "record")
    BY <1>22 DEF Project
  <2> HIDE DEF k, m
  <2>6. CASE File(r) \in Verdict /\ Know(r, k) /\ Goto(r, "retain")
    BY <1>0, <1>1, <1>21, <2>1, <2>2, <2>3, <2>4, <2>6 DEF k
  <2>7. CASE Know(r, m) /\ Goto(r, "record")
    BY <1>0, <1>1, <1>21, <2>1, <2>2, <2>3, <2>4, <2>7 DEF m
  <2> QED  BY <2>5, <2>6, <2>7
<1>23. CASE Retain(r)
  <2>1. FilesOK' /\ Grown  BY <1>4, <1>6, <1>23 DEF Retain
  <2>2. CASE Goto(r, "stage") /\ UNCHANGED me
    BY <1>0, <1>1, <1>2, <1>23, <2>1, <2>2 DEF Retain
  <2> QED  BY <1>3, <1>23, <2>1, <2>2 DEF Retain
<1>24. CASE Stage(r)
  <2>1. FilesOK' /\ Grown  BY <1>0, <1>4, <1>6, <1>24 DEF Stage
  <2>2. CASE Goto(r, "append") /\ UNCHANGED me
    BY <1>0, <1>1, <1>2, <1>24, <2>1, <2>2 DEF Stage
  <2> QED  BY <1>3, <1>24, <2>1, <2>2 DEF Stage
<1>25. CASE AppendFact(r)
  <2>1. w \in Root /\ pc[r] = "append" /\ "completed" \in Kind  BY <1>0, <1>25 DEF AppendFact, Kind
  <2>2. CASE Log(Event(r, "completed")) /\ Goto(r, "link") /\ UNCHANGED <<temp, me>>
    <3>1. FilesOK' /\ Grown  BY <1>5, <1>6, <1>25, <2>1, <2>2 DEF AppendFact
    <3>2. Len(audit') \in Nat /\ Len(audit) <= Len(audit') /\ me[r].seen \in Nat
      BY <1>0, <3>1, LenProperties DEF FilesOK, Grown, Knowledge
    <3>3. UNCHANGED verdict  BY <1>25 DEF AppendFact
    <3>4. (pc'[r] = "link" /\ me'[r] = me[r]) => RunOK(r)'  BY <1>0, <2>1, <3>2, <3>3
    <3> QED  BY <1>0, <1>1, <1>2, <2>2, <3>1, <3>4
  <2> DEFINE k == [me[r] EXCEPT !.kind = "failed"]
  <2>3. CASE Discard(r) /\ Know(r, k) /\ Goto(r, "record") /\ UNCHANGED audit
    <3>1. FilesOK' /\ Grown  BY <1>0, <1>4, <1>6, <1>25, <2>1, <2>3 DEF AppendFact, Discard
    <3>2. k \in Knowledge /\ k.seen = me[r].seen /\ k.root = w /\ k.attempt = me[r].attempt
      BY <1>0 DEF Knowledge, Kind, Outcome
    <3>3. UNCHANGED verdict  BY <1>25 DEF AppendFact
    <3> HIDE DEF k
    <3> QED  BY <1>0, <1>1, <2>1, <2>3, <3>1, <3>2, <3>3
  <2> QED  BY <1>25, <2>2, <2>3 DEF AppendFact
<1>26. CASE LinkReceipt(r)
  <2>1. w \in Root /\ pc[r] = "link" /\ me[r].verdict \in Verdict  BY <1>0, <1>26 DEF LinkReceipt
  <2>2. Content(r) \in Receipt  BY <1>0, <2>1 DEF Content, Receipt, Knowledge
  <2>3. temp' \in [Root -> SUBSET Run] /\ UNCHANGED <<request, verdict, audit, clock>>
    BY <1>6, <1>26, <2>1 DEF LinkReceipt, Discard
  <2>4. CASE receipt[w] = None /\ receipt' = [receipt EXCEPT ![w] = Content(r)] /\ End(r)
    <3>1. FilesOK' /\ Grown  BY <1>0, <2>1, <2>2, <2>3, <2>4 DEF FilesOK, Grown
    <3> QED  BY <1>3, <2>4, <3>1
  <2>5. CASE UNCHANGED receipt /\ End(r)  BY <1>3, <1>4, <1>6, <2>3, <2>5
  <2>6. CASE UNCHANGED <<receipt, me>> /\ Goto(r, "conflict")
    BY <1>0, <1>1, <1>2, <1>4, <1>6, <2>1, <2>3, <2>6
  <2> QED  BY <1>26, <2>4, <2>5, <2>6 DEF LinkReceipt
<1>27. CASE Contradict(r)
  <2>1. w \in Root /\ "conflict" \in Kind  BY <1>0, <1>27 DEF Contradict, Kind
  <2> QED  BY <1>3, <1>5, <1>6, <1>27, <2>1 DEF Contradict
<1>28. CASE Record(r)
  <2>1. FilesOK' /\ Grown  BY <1>4, <1>6, <1>28 DEF Record
  <2>2. UNCHANGED <<verdict, audit>> /\ pc[r] = "record"  BY <1>28 DEF Record
  <2> DEFINE k == [me[r] EXCEPT !.verdict = File(r), !.at = 0]
             m == [k EXCEPT !.kind = "conflict"]
  <2>3. /\ k \in Knowledge /\ k.seen = me[r].seen /\ k.root = w /\ k.attempt = me[r].attempt
        /\ m \in Knowledge /\ m.seen = me[r].seen /\ m.root = w /\ m.attempt = me[r].attempt
    BY <1>0, <1>21, <2>2 DEF Knowledge, Kind
  <2>4. \/ End(r)
        \/ Know(r, k) /\ Goto(r, "note")
        \/ Know(r, m) /\ Goto(r, "note")
    BY <1>28 DEF Record
  <2> HIDE DEF k, m
  <2>5. CASE Know(r, k) /\ Goto(r, "note")  BY <1>0, <1>1, <1>21, <2>1, <2>2, <2>3, <2>5
  <2>6. CASE Know(r, m) /\ Goto(r, "note")  BY <1>0, <1>1, <1>21, <2>1, <2>2, <2>3, <2>6
  <2> QED  BY <1>3, <2>1, <2>4, <2>5, <2>6
<1>29. CASE Note(r)
  <2>1. w \in Root /\ me[r].kind \in Kind  BY <1>0, <1>29 DEF Note, Knowledge
  <2> QED  BY <1>3, <1>5, <1>6, <1>29, <2>1 DEF Note
<1>30. CASE Die(r)
  <2>1. FilesOK' /\ Grown  BY <1>4, <1>6, <1>30 DEF Die
  <2> QED  BY <1>3, <1>30, <2>1 DEF Die
<1> QED  BY <1>11, <1>12, <1>13, <1>14, <1>15, <1>16, <1>17, <1>18, <1>19,
            <1>20, <1>22, <1>23, <1>24, <1>25, <1>26, <1>27, <1>28, <1>29, <1>30
       DEF Delegation

\* A step is one of a delegation, or leaves everything of the delegations as it is.
LEMMA StepSplit ==
  ASSUME [Next]_vars
  PROVE  \/ \E r \in Run : Delegation(r) /\ UNCHANGED gate
         \/ /\ UNCHANGED custody
            /\ (\E g \in Gate : Merging(g)) \/ Push \/ UNCHANGED gate
<1>1. ASSUME NEW g \in Gate, Merging(g) PROVE UNCHANGED custody
  BY <1>1 DEF Merging, FirstView, SecondView, Evaluate, WriteIntent, Merge, WriteResult,
              ReadRequests, ReadReceipts
<1>2. Push => UNCHANGED custody  BY DEF Push
<1>3. UNCHANGED vars => UNCHANGED custody /\ UNCHANGED gate  BY DEF vars
<1> QED  BY <1>1, <1>2, <1>3 DEF Next

\* The files grow at every step, and stay well typed with what the runs know.
LEMMA FilesGrow ==
  ASSUME FilesOK, RunsOK, [Next]_vars
  PROVE  FilesOK' /\ RunsOK' /\ Grown
<1>1. CASE UNCHANGED custody
  <2>1. UNCHANGED <<request, receipt, verdict, audit, temp, clock, pc, me>>
    BY <1>1 DEF custody, files
  <2>2. \A w \in Root : Len(verdict[w]) \in Nat
    BY LenProperties DEF FilesOK
  <2>3. Len(audit) \in Nat  BY LenProperties DEF FilesOK
  <2> QED  BY <2>1, <2>2, <2>3 DEF FilesOK, RunsOK, RunOK, Grown
<1> QED  BY <1>1, StepSplit, CustodyStep

\* A worktree's files are typed, and the gate keeps the types of what it reads.
LEMMA GateStep ==
  ASSUME FilesOK, GateOK, [Next]_vars
  PROVE  GateOK'
<1> USE DEF GateOK, FilesOK, Heads, reading
<1>1. CASE UNCHANGED gate  BY <1>1 DEF gate
<1>2. CASE Push  BY <1>2 DEF Push
<1>3. ASSUME NEW g \in Gate, Merging(g) PROVE GateOK'
  <2>0. ASSUME Deny(g), UNCHANGED <<head, merged, warned>> PROVE GateOK'
    <3>1. Forget(g) => /\ now' \in [Gate -> Nat] /\ left' \in [Gate -> SUBSET Root]
                       /\ requests' \in [Gate -> SUBSET Nat] /\ receipts' \in [Gate -> SUBSET Receipt]
      BY DEF Forget
    <3> QED  BY <2>0, <3>1 DEF Deny, To
  <2>1. CASE FirstView(g)
    <3>1. CASE To(g, "view") /\ now' = [now EXCEPT ![g] = clock] /\ UNCHANGED <<left, requests, receipts, log>>
      BY <2>1, <3>1 DEF FirstView, To
    <3> QED  BY <2>0, <2>1, <3>1 DEF FirstView
  <2>2. CASE SecondView(g)
    <3>1. CASE To(g, "requests") /\ left' = [left EXCEPT ![g] = Root] /\ UNCHANGED <<now, requests, receipts, log>>
      BY <2>2, <3>1 DEF SecondView, To
    <3> QED  BY <2>0, <2>2, <3>1 DEF SecondView
  <2>3. CASE Evaluate(g)
    <3>1. CASE To(g, "intent") /\ Forget(g) /\ UNCHANGED log
      <4>1. /\ now' \in [Gate -> Nat] /\ left' \in [Gate -> SUBSET Root]
            /\ requests' \in [Gate -> SUBSET Nat] /\ receipts' \in [Gate -> SUBSET Receipt]
        BY <3>1 DEF Forget
      <4> QED  BY <2>3, <3>1, <4>1 DEF Evaluate, To
    <3> QED  BY <2>0, <2>3, <3>1 DEF Evaluate
  <2>4. CASE WriteIntent(g)
    <3>1. CASE To(g, "merge") /\ log' = log \cup {<<g, "intent">>} /\ UNCHANGED reading
      BY <2>4, <3>1 DEF WriteIntent, To
    <3> QED  BY <2>0, <2>4, <3>1 DEF WriteIntent
  <2>5. CASE Merge(g)  BY <2>5 DEF Merge, To
  <2>6. CASE WriteResult(g)
    <3>1. <<g, "merge">> \in Gate \X {"intent", "merge", "merge_failed"}
          /\ <<g, "merge_failed">> \in Gate \X {"intent", "merge", "merge_failed"}
      OBVIOUS
    <3>2. step' \in [Gate -> {"idle", "view", "requests", "receipts", "evaluate", "intent", "merge",
                        "merged", "failed", "over"}]
      BY <2>6 DEF WriteResult, To
    <3>3. log' \subseteq Gate \X {"intent", "merge", "merge_failed"}
      BY <2>6, <3>1 DEF WriteResult
    <3> QED  BY <2>6, <3>2, <3>3 DEF WriteResult
  <2>7. ASSUME NEW w \in Root, ReadRequests(g, w) PROVE GateOK'
    <3>1. requests' \in [Gate -> SUBSET Nat]  BY <2>7 DEF ReadRequests
    <3>2. left' \in [Gate -> SUBSET Root]
      <4>1. left' = [left EXCEPT ![g] = @ \ {w}] \/ left' = [left EXCEPT ![g] = Root]
        BY <2>7 DEF ReadRequests
      <4>2. CASE left' = [left EXCEPT ![g] = @ \ {w}]  BY <4>2
      <4>3. CASE left' = [left EXCEPT ![g] = Root]  BY <4>3
      <4> QED  BY <4>1, <4>2, <4>3
    <3>3. UNCHANGED step \/ To(g, "receipts")  BY <2>7 DEF ReadRequests
    <3>4. warned' \subseteq Gate /\ UNCHANGED <<head, now, receipts, log, merged>>
      BY <2>7 DEF ReadRequests
    <3> QED  BY <3>1, <3>2, <3>3, <3>4 DEF To
  <2>8. ASSUME NEW w \in Root, ReadReceipts(g, w) PROVE GateOK'  BY <2>8 DEF ReadReceipts, To
  <2> QED  BY <1>3, <2>1, <2>2, <2>3, <2>4, <2>5, <2>6, <2>7, <2>8 DEF Merging
<1> QED  BY <1>1, <1>2, <1>3, StepSplit

LEMMA TypedStep ==
  ASSUME Typed, [Next]_vars
  PROVE  Typed'
BY FilesGrow, GateStep DEF Typed

LEMMA TypedInit == Init => Typed
<1> SUFFICES ASSUME Init PROVE Typed
  OBVIOUS
<1> USE DEF Init, CustodyInit
<1>1. FilesOK  BY EmptySeq DEF FilesOK
<1>2. RunsOK
  <2>1. Nothing \in Knowledge  BY DEF Nothing, Knowledge, Written, Kind, Outcome
  <2>2. \A r \in Run : pc[r] = "idle" /\ me[r] = Nothing  OBVIOUS
  <2>3. \A r \in Run : RunOK(r)
    BY <2>2, EmptySeq DEF RunOK, Nothing, Attempting, Completing
  <2> QED  BY <2>1, <2>3 DEF RunsOK, Steps
<1>3. GateOK  BY DEF GateOK, Heads
<1> QED  BY <1>1, <1>2, <1>3 DEF Typed

LEMMA TypedSuffices == Typed => TypeOK
<1> SUFFICES ASSUME Typed PROVE TypeOK
  OBVIOUS
<1>1. \A i \in DOMAIN audit : audit[i] \in Entry
  BY LenProperties, ElementOfSeq DEF Typed, FilesOK
<1> QED  BY <1>1 DEF Typed, FilesOK, GateOK, TypeOK, Written, Entry

-----------------------------------------------------------------------------
(* Retries. *)

\* What is settled stays so.
LEMMA SettledStays ==
  ASSUME FilesOK, FilesOK', Grown, NEW w \in Root, NEW a \in Nat
  PROVE  /\ Settled(w, a - 1, DOMAIN audit) => Settled(w, a - 1, DOMAIN audit)'
         /\ Accounted(w, a) => Accounted(w, a)'
<1>1. DOMAIN audit = 1..Len(audit) /\ Len(audit) \in Nat  BY LenProperties DEF FilesOK
<1>2. Settled(w, a - 1, DOMAIN audit) => Settled(w, a - 1, DOMAIN audit)'
  BY DEF Settled, Grown
<1>3. ASSUME NEW i \in DOMAIN audit, Settled(w, a - 1, 1..(i - 1)) PROVE Settled(w, a - 1, 1..(i - 1))'
  <2>1. \A j \in 1..(i - 1) : j \in DOMAIN audit  BY <1>1
  <2> QED  BY <1>3, <2>1 DEF Settled, Grown
<1>4. Accounted(w, a) => Accounted(w, a)'
  BY <1>3 DEF Accounted, Grown
<1> QED  BY <1>2, <1>4

\* How a run comes to a number, and to think that a receipt is there.
LEMMA NumberSteps ==
  ASSUME RunsOK, NEW r \in Run, Delegation(r)
  PROVE  /\ me'[r].orphan => \/ LookForReceipt(r)
                             \/ me[r].orphan /\ me'[r].root = me[r].root
         /\ pc'[r] \in {"supersede", "mkdir"} => Number(r) \/ Supersede(r)
<1>0. /\ me[r] \in Knowledge /\ Nothing.orphan = FALSE
      /\ pc \in [Run -> Steps] /\ me \in [Run -> Knowledge]
  BY DEF RunsOK, Nothing
<1> DEFINE k == me[r]
           Kept(m) == m.orphan => k.orphan /\ m.root = k.root
\* What changes in a run's knowledge leaves these two alone, but for the look itself.
<1>1. /\ \A x : /\ Kept([k EXCEPT !.started = x]) /\ Kept([k EXCEPT !.seen = x])
                /\ Kept([k EXCEPT !.verdict = x]) /\ Kept([k EXCEPT !.at = x])
                /\ Kept([k EXCEPT !.kind = x]) /\ Kept([k EXCEPT !.at = x, !.kind = "rejected"])
                /\ Kept([k EXCEPT !.verdict = x, !.at = 0])
                /\ Kept([[k EXCEPT !.verdict = x, !.at = 0] EXCEPT !.kind = "conflict"])
      /\ \A x : Kept([k EXCEPT !.attempt = x, !.seen = 0, !.orphan = FALSE])
      /\ \A x, y : Kept([Nothing EXCEPT !.root = x, !.started = y])
      /\ Kept(k) /\ Kept(Nothing)
  BY <1>0 DEF Knowledge, Nothing
<1> HIDE DEF Kept
<1>2. ASSUME NEW l, Goto(r, l) PROVE pc'[r] = l  BY <1>0, <1>2 DEF Goto
<1>3. ASSUME NEW m, Know(r, m) PROVE me'[r] = m  BY <1>0, <1>3 DEF Know
<1>4. End(r) => pc'[r] = "over" /\ Kept(me'[r])  BY <1>1, <1>2, <1>3 DEF End
<1>5. UNCHANGED me => Kept(me'[r])  BY <1>1
<1>6. \/ LookForReceipt(r)
      \/ Kept(me'[r])
  <2>0. PICK y : y = clock'  OBVIOUS
  <2>1. CASE Start(r)
    <3>1. PICK v \in Root : Know(r, [Nothing EXCEPT !.root = v, !.started = y])
      BY <2>0, <2>1 DEF Start
    <3>2. me'[r] = [Nothing EXCEPT !.root = v, !.started = y]  BY <1>3, <3>1
    <3>3. Kept([Nothing EXCEPT !.root = v, !.started = y])  BY <1>1
    <3> QED  BY <3>2, <3>3
  <2>2. CASE Issue(r)  BY <1>4, <1>5, <2>2 DEF Issue, Pass
  <2>3. CASE WriteRequest(r)  BY <1>1, <1>3, <2>3 DEF WriteRequest
  <2>4. CASE ReadHistory(r)  BY <1>1, <1>3, <2>4 DEF ReadHistory
  <2>5. CASE CheckAndSweep(r)  BY <1>4, <1>5, <2>5 DEF CheckAndSweep
  <2>6. CASE Number(r)  BY <1>1, <1>3, <1>4, <2>6 DEF Number
  <2>7. CASE Supersede(r) \/ MakeDirectory(r)  BY <1>5, <2>7 DEF Supersede, MakeDirectory
  <2>8. CASE Reviewed(r)
    <3>1. UNCHANGED me \/ Know(r, [me[r] EXCEPT !.at = y, !.kind = "rejected"])
      BY <2>0, <2>8 DEF Reviewed
    <3>2. UNCHANGED me \/ me'[r] = [k EXCEPT !.at = y, !.kind = "rejected"]  BY <1>3, <3>1
    <3>3. Kept([k EXCEPT !.at = y, !.kind = "rejected"])  BY <1>1
    <3> QED  BY <1>5, <3>2, <3>3
  <2>9. CASE Project(r)  BY <1>1, <1>3, <2>9 DEF Project
  <2>10. CASE Retain(r) \/ Stage(r)  BY <1>4, <1>5, <2>10 DEF Retain, Stage
  <2>11. CASE AppendFact(r)  BY <1>1, <1>3, <1>5, <2>11 DEF AppendFact
  <2>12. CASE LinkReceipt(r)  BY <1>4, <1>5, <2>12 DEF LinkReceipt
  <2>13. CASE Contradict(r) \/ Note(r) \/ Die(r)  BY <1>4, <2>13 DEF Contradict, Note, Die
  <2>14. CASE Record(r)  BY <1>1, <1>3, <1>4, <2>14 DEF Record
  <2> QED  BY <2>1, <2>2, <2>3, <2>4, <2>5, <2>6, <2>7, <2>8, <2>9, <2>10, <2>11, <2>12, <2>13, <2>14
           DEF Delegation
<1>7. pc'[r] \in {"supersede", "mkdir"} => Number(r) \/ Supersede(r)
  <2>1. CASE Start(r) \/ Issue(r) \/ WriteRequest(r) \/ LookForReceipt(r)
    BY <1>2, <1>4, <2>1 DEF Start, Issue, Pass, WriteRequest, LookForReceipt
  <2>2. CASE ReadHistory(r)
    <3>1. pc'[r] \in {"history", "check"}  BY <1>2, <2>2 DEF ReadHistory
    <3> QED  BY <3>1
  <2>3. CASE CheckAndSweep(r) \/ MakeDirectory(r) \/ Reviewed(r) \/ Project(r)
    BY <1>2, <1>4, <2>3 DEF CheckAndSweep, MakeDirectory, Reviewed, Project
  <2>4. CASE Retain(r) \/ Stage(r) \/ AppendFact(r) \/ LinkReceipt(r)
    BY <1>2, <1>4, <2>4 DEF Retain, Stage, AppendFact, LinkReceipt
  <2>5. CASE Contradict(r) \/ Note(r) \/ Die(r) \/ Record(r)
    BY <1>2, <1>4, <2>5 DEF Contradict, Note, Die, Record
  <2> QED  BY <2>1, <2>2, <2>3, <2>4, <2>5 DEF Delegation
<1> QED  BY <1>6, <1>7 DEF Kept

\* A number that is given to a retry is that of an attempt which is settled.
LEMMA RetrySettled ==
  ASSUME FilesOK, RunsOK, NumberTaken, NEW r \in Run, NEW w \in Root, me[r].root = w,
         NEW n \in Nat, n = Len(verdict[w]), Retryable(r, n)
  PROVE  Settled(w, n, DOMAIN audit)
<1>1. DOMAIN audit = 1..Len(audit) /\ Len(audit) \in Nat /\ me[r].seen \in Nat /\ me[r].seen <= Len(audit)
  BY LenProperties DEF FilesOK, RunsOK, RunOK, Knowledge
<1>2. Cardinality({}) = 0  BY FS_EmptySet
<1>3. CASE me[r].orphan
  <2>1. me[r].attempt \in Nat  BY DEF RunsOK, Knowledge
  <2> QED  BY <1>3, <2>1 DEF NumberTaken, Settled
<1>4. CASE Cardinality(Outcomes(r, n)) = 1 /\ \A i \in Outcomes(r, n) : audit[i].root = w
  <2>0. Outcomes(r, n) # {}
    <3> SUFFICES ASSUME Outcomes(r, n) = {} PROVE FALSE
      OBVIOUS
    <3>1. Cardinality({}) = 1  BY <1>4
    <3> QED  BY <1>2, <3>1
  <2>1. PICK i \in Outcomes(r, n) : TRUE  BY <2>0
  <2> QED  BY <1>1, <1>4, <2>1 DEF Outcomes, Logged, Settled, Outcome
<1>5. CASE /\ Cardinality(Logged(me[r].seen, "completed", n)) = 1
           /\ \A i \in Logged(me[r].seen, "completed", n) : audit[i].root = w
  <2> DEFINE C == Logged(me[r].seen, "completed", n)
  <2>0. C # {}
    <3> SUFFICES ASSUME C = {} PROVE FALSE
      OBVIOUS
    <3>1. Cardinality({}) = 1  BY <1>5
    <3> QED  BY <1>2, <3>1
  <2>1. PICK i \in C : TRUE  BY <2>0
  <2> QED  BY <1>1, <1>5, <2>1 DEF Logged, Settled
<1> QED  BY <1>3, <1>4, <1>5 DEF Retryable

\* Every run keeps to what it knows of its number.
LEMMA NumberTakenStep ==
  ASSUME FilesOK, RunsOK, FilesOK', RunsOK', Grown, NumberTaken, NEW r \in Run, Delegation(r), Others(r)
  PROVE  NumberTaken'
<1> SUFFICES ASSUME NEW q \in Run, NEW w \in Root, NEW a \in Nat, me'[q].root = w, me'[q].attempt = a
             PROVE  /\ me'[q].orphan => receipt'[w] # None
                    /\ pc'[q] = "supersede" => Settled(w, a - 1, DOMAIN audit)'
                    /\ pc'[q] = "mkdir" => a = 1 \/ Accounted(w, a)'
  BY DEF NumberTaken
<1>0. me[r] \in Knowledge /\ pc \in [Run -> Steps] /\ me \in [Run -> Knowledge]  BY DEF RunsOK
<1>1. CASE q # r
  <2>1. pc'[q] = pc[q] /\ me'[q] = me[q]  BY <1>1 DEF Others
  <2> QED  BY <2>1, SettledStays DEF NumberTaken, Grown
<1>2. CASE q = r
  <2>1. me'[r].orphan => receipt'[w] # None
    <3>1. CASE LookForReceipt(r)
      BY <1>0, <1>2, <3>1 DEF LookForReceipt, Know, Knowledge, files
    <3>2. CASE me[r].orphan /\ me'[r].root = me[r].root
      <4>1. me[r].attempt \in Nat  BY <1>0 DEF Knowledge
      <4> QED  BY <1>2, <3>2, <4>1 DEF NumberTaken, Grown
    <3> QED  BY <3>1, <3>2, NumberSteps
  <2>2. CASE Number(r)
    <3> DEFINE n == Len(verdict[w])
               Taken(m) == [me[r] EXCEPT !.attempt = m, !.seen = 0, !.orphan = FALSE]
    <3>1. \A m \in Nat : Taken(m).attempt = m /\ Taken(m).root = me[r].root
      BY <1>0 DEF Knowledge
    <3>2. n \in Nat  BY LenProperties DEF FilesOK
    <3>3. \/ pc'[r] = "over"
          \/ pc'[r] = "mkdir" /\ me'[r] = Taken(1)
          \/ /\ pc'[r] = "supersede"
             /\ LET l == Len(verdict[me[r].root]) IN Retryable(r, l) /\ me'[r] = Taken(l + 1)
      BY <1>0, <2>2 DEF Number, End, Goto, Know
    <3> HIDE DEF Taken
    <3>4. CASE pc'[r] = "mkdir" /\ me'[r] = Taken(1)  BY <1>2, <2>1, <3>1, <3>4
    <3>5. CASE /\ pc'[r] = "supersede"
               /\ LET l == Len(verdict[me[r].root]) IN Retryable(r, l) /\ me'[r] = Taken(l + 1)
      <4>1. me[r].root \in Root  BY <2>2 DEF Number, RunsOK, RunOK
      <4>2. Len(verdict[me[r].root]) \in Nat  BY <4>1, LenProperties DEF FilesOK
      <4>3. me[r].root = w /\ a = n + 1 /\ Retryable(r, n)
        <5> DEFINE l == Len(verdict[me[r].root])
        <5>1. Retryable(r, l) /\ me'[r] = Taken(l + 1) /\ l + 1 \in Nat  BY <3>5, <4>2
        <5>2. me'[r].attempt = l + 1 /\ me'[r].root = me[r].root  BY <3>1, <5>1
        <5> QED  BY <1>2, <5>1, <5>2
      <4>4. Settled(w, a - 1, DOMAIN audit)
        <5>1. Settled(w, n, DOMAIN audit)  BY <3>2, <4>3, RetrySettled
        <5> QED  BY <3>2, <4>3, <5>1
      <4> QED  BY <1>2, <2>1, <3>5, <4>4, SettledStays
    <3> QED  BY <1>2, <2>1, <3>3, <3>4, <3>5
  <2>3. CASE Supersede(r)
    <3>1. /\ UNCHANGED <<me, receipt>> /\ pc[r] = "supersede" /\ pc'[r] = "mkdir" /\ Log(Event(r, "superseded"))
      BY <1>0, <2>3 DEF Supersede, Goto
    <3>2. Settled(w, a - 1, DOMAIN audit)  BY <1>2, <3>1 DEF NumberTaken
    <3>3. Event(r, "superseded") \in Entry
      BY <1>0, <1>2, <3>1 DEF Event, Entry, Kind, Outcome, Knowledge
    <3> DEFINE i == Len(audit) + 1
    <3>4. /\ i \in DOMAIN audit' /\ audit'[i] = Event(r, "superseded")
          /\ 1..(i - 1) = DOMAIN audit
      BY <3>1, <3>3, LogGrows DEF FilesOK
    <3>5. audit'[i].kind = "superseded" /\ audit'[i].root = w /\ audit'[i].attempt = a
      BY <1>2, <3>1, <3>4 DEF Event
    <3>6. \/ receipt'[w] # None
          \/ \E j \in 1..(i - 1) : /\ audit'[j].kind \in Outcome \cup {"completed"}
                                  /\ audit'[j].root = w /\ audit'[j].attempt = a - 1
      BY <3>1, <3>2, <3>4 DEF Settled, Grown
    <3> HIDE DEF i
    <3>7. Accounted(w, a)'  BY <3>4, <3>5, <3>6 DEF Accounted, Settled
    <3> QED  BY <1>2, <2>1, <3>1, <3>7
  <2> QED  BY <1>2, <2>1, <2>2, <2>3, NumberSteps
<1> QED  BY <1>1, <1>2

\* A directory is made for the attempt after the last one, if at all.
LEMMA Directories ==
  ASSUME FilesOK, RunsOK, NEW r \in Run, Delegation(r), NEW w \in Root
  PROVE  \/ Len(verdict'[w]) = Len(verdict[w])
         \/ /\ MakeDirectory(r) /\ w = me[r].root /\ me[r].attempt = Len(verdict[w]) + 1
            /\ Len(verdict'[w]) = me[r].attempt
<1>0. /\ \A v \in Root : verdict[v] \in Seq(Written) /\ Len(verdict[v]) \in Nat
      /\ me[r] \in Knowledge /\ RunOK(r) /\ verdict \in [Root -> Seq(Written)]
  BY LenProperties DEF FilesOK, RunsOK
<1>1. CASE MakeDirectory(r)
  <2>1. pc[r] = "mkdir" /\ me[r].root \in Root /\ me[r].attempt \in 1..(Len(verdict[me[r].root]) + 1)
    BY <1>0, <1>1 DEF MakeDirectory, RunOK
  <2> DEFINE v == me[r].root
             d == IF me[r].attempt > Len(verdict[v]) THEN Append(verdict[v], "none") ELSE verdict[v]
  <2>2. /\ me[r].attempt = Len(verdict[v]) + 1 => Len(d) = me[r].attempt
        /\ me[r].attempt # Len(verdict[v]) + 1 => Len(d) = Len(verdict[v])
    BY <1>0, <2>1, AppendProperties DEF Written
  <2> HIDE DEF d
  <2>3. verdict' = [verdict EXCEPT ![v] = d]  BY <1>1 DEF MakeDirectory, d
  <2> QED  BY <1>0, <1>1, <2>1, <2>2, <2>3
<1>2. CASE Reviewed(r)
  <2>1. me[r].root \in Root /\ me[r].attempt \in 1..Len(verdict[me[r].root])
    BY <1>0, <1>2 DEF Reviewed, RunOK, Attempting
  <2>2. CASE UNCHANGED verdict  BY <2>2
  <2>3. ASSUME NEW v \in Verdict \cup {"bad"}, verdict' = [verdict EXCEPT ![me[r].root][me[r].attempt] = v]
        PROVE  Len(verdict'[w]) = Len(verdict[w])
    <3>1. Len([verdict[me[r].root] EXCEPT ![me[r].attempt] = v]) = Len(verdict[me[r].root])
      BY <1>0, <2>1, ExceptSeq DEF Written
    <3> QED  BY <1>0, <2>1, <2>3, <3>1
  <2> QED  BY <1>2, <2>2, <2>3 DEF Reviewed
<1>3. ASSUME ~MakeDirectory(r), ~Reviewed(r) PROVE UNCHANGED verdict
  BY <1>3 DEF Delegation, Start, Issue, Pass, WriteRequest, LookForReceipt, ReadHistory, CheckAndSweep,
              Number, Supersede, Project, Retain, Stage, AppendFact, LinkReceipt, Contradict, Record,
              Note, Die, files
<1> QED  BY <1>1, <1>2, <1>3

\* No step takes a number that is not accounted for.
LEMMA RetryStep ==
  ASSUME FilesOK, RunsOK, RetryInv, [Next]_vars
  PROVE  RetryInv'
<1>1. CASE UNCHANGED custody
  <2>1. UNCHANGED <<receipt, verdict, audit, pc, me>>  BY <1>1 DEF custody, files
  <2>2. \A w, a, I : Settled(w, a, I)' <=> Settled(w, a, I)  BY <2>1 DEF Settled
  <2> QED  BY <2>1, <2>2 DEF RetryInv, NumberTaken, Accounted
<1>2. ASSUME NEW r \in Run, Delegation(r) PROVE RetryInv'
  <2>1. FilesOK' /\ RunsOK' /\ Grown /\ Others(r)  BY <1>2, CustodyStep
  <2>2. NumberTaken'  BY <1>2, <2>1, NumberTakenStep DEF RetryInv
  <2>3. ASSUME NEW w \in Root, NEW a \in 1..(Len(verdict'[w]) - 1) PROVE Accounted(w, a + 1)'
    <3>1. Len(verdict[w]) \in Nat /\ Len(verdict'[w]) \in Nat /\ a \in Nat /\ a >= 1
      BY <2>1, LenProperties DEF FilesOK
    <3>2. Accounted(w, a + 1) => Accounted(w, a + 1)'  BY <2>1, <3>1, SettledStays
    <3>3. CASE a <= Len(verdict[w]) - 1
      <4>1. a \in 1..(Len(verdict[w]) - 1)  BY <3>1, <3>3
      <4> QED  BY <3>2, <4>1 DEF RetryInv
    <3>4. CASE ~(a <= Len(verdict[w]) - 1)
      <4>1. /\ MakeDirectory(r) /\ w = me[r].root /\ me[r].attempt = Len(verdict[w]) + 1
            /\ Len(verdict'[w]) = me[r].attempt
        BY <1>2, <3>1, <3>4, Directories
      <4>2. a + 1 = me[r].attempt /\ me[r].attempt # 1 /\ me[r].attempt \in Nat  BY <3>1, <3>4, <4>1
      <4>3. pc[r] = "mkdir"  BY <4>1 DEF MakeDirectory
      <4>4. Accounted(w, me[r].attempt)  BY <4>1, <4>2, <4>3 DEF RetryInv, NumberTaken
      <4> QED  BY <3>2, <4>2, <4>4
    <3> QED  BY <3>3, <3>4
  <2> QED  BY <2>2, <2>3 DEF RetryInv
<1> QED  BY <1>1, <1>2, StepSplit

LEMMA RetryInit == Init => RetryInv
<1> SUFFICES ASSUME Init PROVE RetryInv
  OBVIOUS
<1>1. \A w \in Root : verdict[w] = << >>  BY DEF Init, CustodyInit
<1>2. \A w \in Root : 1..(Len(verdict[w]) - 1) = {}  BY <1>1
<1>3. \A r \in Run : me[r] = Nothing /\ pc[r] = "idle"  BY DEF Init, CustodyInit
<1>4. NumberTaken
  <2>1. \A r \in Run : me[r].orphan = FALSE /\ pc[r] = "idle"  BY <1>3 DEF Nothing
  <2> QED  BY <2>1 DEF NumberTaken
<1> QED  BY <1>2, <1>4 DEF RetryInv

-----------------------------------------------------------------------------
(* The gate. *)

\* A receipt appears when a run links it, and a run gets there by appending its fact.
LEMMA ReceiptSteps ==
  ASSUME FilesOK, RunsOK, NEW r \in Run, Delegation(r)
  PROVE  /\ \A w \in Root : \/ receipt'[w] = receipt[w]
                            \/ /\ pc[r] = "link" /\ w = me[r].root /\ receipt[w] = None
                               /\ receipt'[w] = Content(r)
         /\ pc'[r] = "link" => /\ pc[r] = "append" /\ Log(Event(r, "completed"))
                               /\ UNCHANGED <<me, receipt>>
<1>0. /\ receipt \in [Root -> Receipt \cup {None}] /\ pc \in [Run -> Steps]
      /\ pc[r] # "idle" /\ pc[r] # "over" => me[r].root \in Root
  BY DEF FilesOK, RunsOK, RunOK
<1>1. ASSUME NEW l, Goto(r, l) PROVE pc'[r] = l  BY <1>0, <1>1 DEF Goto
<1>2. End(r) => pc'[r] = "over"  BY <1>1 DEF End
<1>3. CASE LinkReceipt(r)
  <2>1. me[r].root \in Root /\ pc[r] = "link"  BY <1>0, <1>3 DEF LinkReceipt
  <2>2. \/ UNCHANGED receipt
        \/ /\ receipt[me[r].root] = None
           /\ receipt' = [receipt EXCEPT ![me[r].root] = Content(r)]
    BY <1>3 DEF LinkReceipt
  <2>3. pc'[r] \in {"over", "conflict"}  BY <1>1, <1>2, <1>3 DEF LinkReceipt
  <2> QED  BY <1>0, <2>1, <2>2, <2>3
<1>4. ASSUME ~LinkReceipt(r) PROVE UNCHANGED receipt
  BY <1>4 DEF Delegation, Start, Issue, Pass, WriteRequest, LookForReceipt, ReadHistory, CheckAndSweep,
              Number, Supersede, MakeDirectory, Reviewed, Project, Retain, Stage, AppendFact,
              Contradict, Record, Note, Die, files
<1>5. CASE AppendFact(r)
  <2>1. pc[r] = "append" /\ UNCHANGED receipt  BY <1>5 DEF AppendFact
  <2>2. \/ Log(Event(r, "completed")) /\ UNCHANGED me
        \/ pc'[r] = "record"
    BY <1>1, <1>5 DEF AppendFact
  <2> QED  BY <2>1, <2>2
<1>6. ASSUME ~LinkReceipt(r), ~AppendFact(r) PROVE pc'[r] # "link"
  <2>1. CASE Start(r) \/ Issue(r) \/ WriteRequest(r) \/ LookForReceipt(r)
    BY <1>1, <1>2, <2>1 DEF Start, Issue, Pass, WriteRequest, LookForReceipt
  <2>2. CASE ReadHistory(r)
    BY <1>1, <2>2 DEF ReadHistory
  <2>3. CASE CheckAndSweep(r) \/ MakeDirectory(r) \/ Reviewed(r) \/ Project(r)
    BY <1>1, <1>2, <2>3 DEF CheckAndSweep, MakeDirectory, Reviewed, Project
  <2>4. CASE Retain(r) \/ Stage(r) \/ Number(r) \/ Supersede(r)
    BY <1>1, <1>2, <2>4 DEF Retain, Stage, Number, Supersede
  <2>5. CASE Contradict(r) \/ Note(r) \/ Die(r) \/ Record(r)
    BY <1>1, <1>2, <2>5 DEF Contradict, Note, Die, Record
  <2> QED  BY <1>6, <2>1, <2>2, <2>3, <2>4, <2>5 DEF Delegation
<1> QED  BY <1>3, <1>4, <1>5, <1>6

\* What is on record stays there.
LEMMA RecordStays ==
  ASSUME Grown, NEW w, NEW c, OnRecord(w, c)
  PROVE  \E i \in DOMAIN audit' : /\ audit'[i].kind = "completed" /\ audit'[i].root = w
                                  /\ c = [verdict |-> audit'[i].verdict, at |-> audit'[i].at]
BY DEF OnRecord, Grown

\* No receipt is linked before its fact is appended.
LEMMA ReceiptsStep ==
  ASSUME FilesOK, RunsOK, ReceiptsOnRecord, [Next]_vars
  PROVE  ReceiptsOnRecord'
<1>1. CASE UNCHANGED custody
  <2>1. UNCHANGED <<receipt, audit, pc, me>>  BY <1>1 DEF custody, files
  <2> QED  BY <2>1 DEF ReceiptsOnRecord, OnRecord, Content
<1>2. ASSUME NEW r \in Run, Delegation(r) PROVE ReceiptsOnRecord'
  <2>1. FilesOK' /\ RunsOK' /\ Grown /\ Others(r)  BY <1>2, CustodyStep
  <2>2. ASSUME NEW w \in Root, receipt'[w] # None PROVE OnRecord(w, receipt[w])'
    <3>1. CASE receipt'[w] = receipt[w]
      <4>1. OnRecord(w, receipt[w])  BY <2>2, <3>1 DEF ReceiptsOnRecord
      <4> QED  BY <2>1, <3>1, <4>1, RecordStays DEF OnRecord
    <3>2. CASE receipt'[w] # receipt[w]
      <4>1. pc[r] = "link" /\ w = me[r].root /\ receipt'[w] = Content(r)
        BY <1>2, <3>2, ReceiptSteps
      <4>2. OnRecord(w, Content(r))  BY <4>1 DEF ReceiptsOnRecord
      <4> QED  BY <2>1, <4>1, <4>2, RecordStays DEF OnRecord
    <3> QED  BY <3>1, <3>2
  <2>3. ASSUME NEW q \in Run, pc'[q] = "link" PROVE OnRecord(me[q].root, Content(q))'
    <3>1. CASE q # r
      <4>1. pc'[q] = pc[q] /\ me'[q] = me[q]  BY <2>1, <3>1 DEF Others
      <4>2. OnRecord(me[q].root, Content(q))  BY <2>3, <4>1 DEF ReceiptsOnRecord
      <4> QED  BY <2>1, <4>1, <4>2, RecordStays DEF OnRecord, Content
    <3>2. CASE q = r
      <4>1. pc[r] = "append" /\ Log(Event(r, "completed")) /\ UNCHANGED me
        BY <1>2, <2>3, <3>2, ReceiptSteps
      <4>2. me[r] \in Knowledge /\ me[r].root \in Root  BY <4>1 DEF RunsOK, RunOK
      <4>3. Event(r, "completed") \in Entry  BY <4>2 DEF Event, Entry, Kind, Knowledge
      <4> DEFINE i == Len(audit) + 1
      <4>4. i \in DOMAIN audit' /\ audit'[i] = Event(r, "completed")
        BY <4>1, <4>3, LogGrows DEF FilesOK
      <4> HIDE DEF i
      <4>5. audit'[i].kind = "completed" /\ audit'[i].root = me[r].root
            /\ Content(r) = [verdict |-> audit'[i].verdict, at |-> audit'[i].at]
        BY <4>4 DEF Event, Content
      <4> QED  BY <3>2, <4>1, <4>4, <4>5 DEF OnRecord, Content
    <3> QED  BY <3>1, <3>2
  <2> QED  BY <2>2, <2>3 DEF ReceiptsOnRecord
<1> QED  BY <1>1, <1>2, StepSplit

\* The receipts that a run of the gate has read stay where they are.
LEMMA ReadStep ==
  ASSUME FilesOK, RunsOK, GateOK, ReadStands, [Next]_vars
  PROVE  ReadStands'
<1>1. Grown  BY FilesGrow
<1>2. CASE UNCHANGED receipts
  <2>1. \A g \in Gate : \A c \in receipts[g] : c # None  BY DEF GateOK, Receipt, Verdict
  <2> QED  BY <1>1, <1>2, <2>1 DEF ReadStands, Grown
<1>3. ASSUME NEW g \in Gate, Merging(g) PROVE ReadStands'
  <2>1. UNCHANGED receipt
    BY <1>3 DEF Merging, FirstView, SecondView, Evaluate, WriteIntent, Merge, WriteResult,
                ReadRequests, ReadReceipts, custody, files
  <2>2. CASE Forget(g)
    BY <2>1, <2>2 DEF Forget, ReadStands, GateOK
  <2>3. ASSUME NEW w \in Root, ReadReceipts(g, w) PROVE ReadStands'
    BY <2>1, <2>3 DEF ReadReceipts, ReadStands, GateOK
  <2>4. UNCHANGED receipts \/ Forget(g) \/ \E w \in Root : ReadReceipts(g, w)
    BY <1>3 DEF Merging, FirstView, SecondView, Evaluate, WriteIntent, Merge, WriteResult,
                ReadRequests, Deny, reading
  <2> QED  BY <1>2, <2>2, <2>3, <2>4
<1>4. (\E r \in Run : UNCHANGED gate) \/ Push \/ UNCHANGED gate => UNCHANGED receipts
  BY DEF Push, gate, reading
<1> QED  BY <1>2, <1>3, <1>4, StepSplit

\* Who is ready to merge has read a PASS that is on record and nothing else.
LEMMA ReadyPassed ==
  ASSUME GateOK, ReceiptsOnRecord, ReadStands, NEW g \in Gate, MergeReady(g)
  PROVE  /\ Passed
         /\ \A w \in Root : receipt[w] \in receipts[g] => receipt[w].verdict = "PASS"
<1>1. PICK c \in receipts[g] : receipts[g] = {c} /\ c.verdict = "PASS"  BY DEF MergeReady
<1>2. PICK w \in Root : receipt[w] = c  BY <1>1 DEF ReadStands
<1>3. receipt[w] # None
  <2>1. c \in Receipt  BY DEF GateOK
  <2> QED  BY <1>2, <2>1 DEF Receipt, Verdict
<1>4. PICK i \in DOMAIN audit : /\ audit[i].kind = "completed" /\ audit[i].root = w
                                /\ c = [verdict |-> audit[i].verdict, at |-> audit[i].at]
  BY <1>2, <1>3 DEF ReceiptsOnRecord, OnRecord
<1>5. audit[i].verdict = "PASS"  BY <1>1, <1>4
<1>6. receipt[w] = [verdict |-> "PASS", at |-> audit[i].at]  BY <1>2, <1>4, <1>5
<1> QED  BY <1>1, <1>4, <1>6 DEF Passed

\* A PASS that is on record stays so.
LEMMA PassedStays ==
  ASSUME FilesOK, Grown, Passed
  PROVE  Passed'
<1>1. PICK w \in Root, i \in DOMAIN audit :
        /\ audit[i].kind = "completed" /\ audit[i].root = w
        /\ receipt[w] = [verdict |-> "PASS", at |-> audit[i].at]
  BY DEF Passed
<1>2. audit[i] \in Entry  BY ElementOfSeq, LenProperties DEF FilesOK
<1>3. [verdict |-> "PASS", at |-> audit[i].at] \in Receipt  BY <1>2 DEF Entry, Receipt, Verdict
<1>4. receipt[w] # None  BY <1>1, <1>3 DEF Receipt, Verdict
<1>5. i \in DOMAIN audit' /\ audit'[i] = audit[i] /\ receipt'[w] = receipt[w]
  BY <1>4 DEF Grown
<1> QED  BY <1>1, <1>5 DEF Passed

\* A run of the gate decides, writes its intent and merges in this order.
LEMMA MergeStep ==
  ASSUME FilesOK, RunsOK, GateOK, GateInv, [Next]_vars
  PROVE  MergeInv'
<1> USE DEF GateInv
<1>1. Grown  BY FilesGrow
<1>2. Passed => Passed'  BY <1>1, PassedStays
<1>3. CASE UNCHANGED <<step, merged, log>>  BY <1>2, <1>3 DEF MergeInv, Decided
<1>4. ASSUME NEW g \in Gate, Merging(g) PROVE MergeInv'
  <2> DEFINE M(h) ==
        /\ step[h] \in Decided \/ merged[h] # None => Passed
        /\ step[h] = "merge" \/ merged[h] # None => <<h, "intent">> \in log
        /\ merged[h] # None => merged[h] = "reviewed" /\ step[h] \in {"merged", "failed", "over"}
  <2>0. /\ step \in [Gate -> {"idle", "view", "requests", "receipts", "evaluate", "intent", "merge",
                              "merged", "failed", "over"}]
        /\ merged \in [Gate -> Heads \cup {None}] /\ \A h \in Gate : M(h)
    BY DEF GateOK, MergeInv
  \* The log grows, and it is enough to look at the run itself.
  <2>1. ASSUME NEW l, To(g, l), UNCHANGED merged, log \subseteq log',
               /\ l \in Decided => Passed
               /\ l = "merge" => <<g, "intent">> \in log'
               /\ merged[g] # None => l \in {"merged", "failed", "over"}
        PROVE  MergeInv'
    BY <1>2, <2>0, <2>1 DEF To, MergeInv, Decided
  <2> USE DEF Decided
  <2>2. CASE FirstView(g)
    <3>1. (To(g, "view") \/ To(g, "over")) /\ UNCHANGED <<merged, log>>
      BY <2>2 DEF FirstView, Deny
    <3>2. merged[g] = None  BY <2>0, <2>2 DEF FirstView
    <3> QED  BY <2>1, <3>1, <3>2
  <2>3. CASE SecondView(g)
    <3>1. (To(g, "requests") \/ To(g, "over")) /\ UNCHANGED <<merged, log>>
      BY <2>3 DEF SecondView, Deny
    <3>2. merged[g] = None  BY <2>0, <2>3 DEF SecondView
    <3> QED  BY <2>1, <3>1, <3>2
  <2>4. CASE Evaluate(g)
    <3>1. /\ (MergeReady(g) /\ To(g, "intent")) \/ To(g, "over")
          /\ UNCHANGED <<merged, log>>
      BY <2>4 DEF Evaluate, Deny
    <3>2. merged[g] = None  BY <2>0, <2>4 DEF Evaluate
    <3>3. MergeReady(g) => Passed  BY ReadyPassed
    <3> QED  BY <2>1, <3>1, <3>2, <3>3
  <2>5. CASE WriteIntent(g)
    <3>1. /\ \/ To(g, "merge") /\ log' = log \cup {<<g, "intent">>}
             \/ To(g, "over") /\ UNCHANGED log
          /\ UNCHANGED merged
      BY <2>5 DEF WriteIntent, Deny
    <3>2. merged[g] = None /\ Passed  BY <2>0, <2>5 DEF WriteIntent
    <3> QED  BY <2>1, <3>1, <3>2
  <2>6. CASE Merge(g)
    <3>1. step[g] = "merge" /\ Passed /\ <<g, "intent">> \in log /\ UNCHANGED log
      BY <2>0, <2>6 DEF Merge
    <3>2. To(g, "merged") \/ To(g, "failed")  BY <2>6 DEF Merge
    <3>3. \/ UNCHANGED merged
          \/ head = "reviewed" /\ merged' = [merged EXCEPT ![g] = head]
      BY <2>6 DEF Merge
    <3> QED  BY <1>2, <2>0, <3>1, <3>2, <3>3 DEF To, MergeInv
  <2>7. CASE WriteResult(g)
    <3>1. To(g, "over") /\ UNCHANGED merged /\ log \subseteq log'  BY <2>7 DEF WriteResult
    <3> QED  BY <2>1, <3>1
  <2>8. ASSUME NEW w \in Root, ReadRequests(g, w) PROVE MergeInv'
    <3>1. (UNCHANGED step \/ To(g, "receipts")) /\ UNCHANGED <<merged, log>>
      BY <2>8 DEF ReadRequests
    <3>2. merged[g] = None  BY <2>0, <2>8 DEF ReadRequests
    <3> QED  BY <1>3, <2>1, <3>1, <3>2
  <2>9. ASSUME NEW w \in Root, ReadReceipts(g, w) PROVE MergeInv'
    <3>1. (UNCHANGED step \/ To(g, "evaluate")) /\ UNCHANGED <<merged, log>>
      BY <2>9 DEF ReadReceipts
    <3>2. merged[g] = None  BY <2>0, <2>9 DEF ReadReceipts
    <3> QED  BY <1>3, <2>1, <3>1, <3>2
  <2> QED  BY <1>4, <2>2, <2>3, <2>4, <2>5, <2>6, <2>7, <2>8, <2>9 DEF Merging
<1>5. Push \/ UNCHANGED gate => UNCHANGED <<step, merged, log>>
  BY DEF Push, gate
<1> QED  BY <1>3, <1>4, <1>5, StepSplit

\* The FLAG that was there is read, and then there is no merge.
LEMMA FlagStep ==
  ASSUME FilesOK, RunsOK, GateOK, GateInv, [Next]_vars
  PROVE  FlagInv'
<1> USE DEF GateInv
<1> DEFINE Flag(g, w) ==
      /\ receipt[w] # None /\ receipt[w].verdict = "FLAG"
      /\ receipt[w] \in receipts[g] \/ (step[g] = "receipts" /\ w \in left[g])
    F(g) == /\ g \in Gate /\ merged[g] = None
            /\ step[g] \in {"receipts", "evaluate", "over"}
            /\ step[g] # "over" => \E w \in Root : Flag(g, w)
<1>0. \A g \in warned : F(g)  BY DEF FlagInv
<1>1. Grown  BY FilesGrow
<1>2. CASE UNCHANGED <<step, left, receipts, merged, warned>>
  <2>1. ASSUME NEW g \in warned, NEW w \in Root, Flag(g, w) PROVE Flag(g, w)'
    BY <1>1, <1>2, <2>1 DEF Grown
  <2> QED  BY <1>0, <1>2, <2>1 DEF FlagInv
<1>3. ASSUME NEW g \in Gate, Merging(g) PROVE FlagInv'
  <2>0. /\ step \in [Gate -> {"idle", "view", "requests", "receipts", "evaluate", "intent", "merge",
                              "merged", "failed", "over"}]
        /\ left \in [Gate -> SUBSET Root] /\ receipts \in [Gate -> SUBSET Receipt]
        /\ UNCHANGED receipt
    BY <1>3 DEF GateOK, Merging, FirstView, SecondView, Evaluate, WriteIntent, Merge, WriteResult,
                ReadRequests, ReadReceipts, custody, files
  \* A run that goes nowhere near a merge and does not begin to read receipts.
  <2>1. ASSUME To(g, "over"), Forget(g), UNCHANGED <<merged, warned>> PROVE FlagInv'
    <3>1. \A h \in Gate \ {g} : step'[h] = step[h] /\ left'[h] = left[h] /\ receipts'[h] = receipts[h]
      BY <2>0, <2>1 DEF To, Forget
    <3>2. step'[g] = "over"  BY <2>0, <2>1 DEF To
    <3> QED  BY <1>0, <2>0, <2>1, <3>1, <3>2 DEF FlagInv
  <2>2. ASSUME g \notin warned, warned' = warned, \A h \in Gate \ {g} : merged'[h] = merged[h],
               \A h \in Gate \ {g} : step'[h] = step[h] /\ left'[h] = left[h] /\ receipts'[h] = receipts[h]
        PROVE  FlagInv'
    BY <1>0, <2>0, <2>2 DEF FlagInv
  <2>3. CASE FirstView(g)
    <3>1. g \notin warned  BY <1>0, <2>3 DEF FirstView
    <3>2. CASE Deny(g)  BY <2>1, <2>3, <3>2 DEF FirstView, Deny
    <3>3. CASE To(g, "view") /\ UNCHANGED <<left, receipts>>
      BY <2>0, <2>2, <2>3, <3>1, <3>3 DEF FirstView, To
    <3> QED  BY <2>3, <3>2, <3>3 DEF FirstView
  <2>4. CASE SecondView(g)
    <3>1. g \notin warned  BY <1>0, <2>4 DEF SecondView
    <3>2. CASE Deny(g)  BY <2>1, <2>4, <3>2 DEF SecondView, Deny
    <3>3. CASE To(g, "requests") /\ left' = [left EXCEPT ![g] = Root] /\ UNCHANGED receipts
      BY <2>0, <2>2, <2>4, <3>1, <3>3 DEF SecondView, To
    <3> QED  BY <2>4, <3>2, <3>3 DEF SecondView
  <2>5. CASE Evaluate(g)
    <3>1. CASE Deny(g)  BY <2>1, <2>5, <3>1 DEF Evaluate, Deny
    <3>2. CASE MergeReady(g) /\ To(g, "intent") /\ Forget(g)
      <4>1. g \notin warned
        <5> SUFFICES ASSUME g \in warned PROVE FALSE
          OBVIOUS
        <5>1. step[g] = "evaluate"  BY <2>5 DEF Evaluate
        <5>2. PICK w \in Root : Flag(g, w)  BY <1>0, <5>1
        <5>3. receipt[w].verdict = "FLAG" /\ receipt[w] \in receipts[g]  BY <5>1, <5>2
        <5>4. receipt[w].verdict = "PASS"  BY <3>2, <5>3, ReadyPassed
        <5> QED  BY <5>3, <5>4
      <4> QED  BY <2>0, <2>2, <2>5, <3>2, <4>1 DEF Evaluate, To, Forget
    <3> QED  BY <2>5, <3>1, <3>2 DEF Evaluate
  <2>6. CASE WriteIntent(g)
    <3>1. g \notin warned  BY <1>0, <2>6 DEF WriteIntent
    <3>2. CASE Deny(g)  BY <2>1, <2>6, <3>2 DEF WriteIntent, Deny
    <3>3. CASE To(g, "merge") /\ UNCHANGED reading
      BY <2>0, <2>2, <2>6, <3>1, <3>3 DEF WriteIntent, To, reading
    <3> QED  BY <2>6, <3>2, <3>3 DEF WriteIntent
  <2>7. CASE Merge(g)
    <3>1. g \notin warned  BY <1>0, <2>7 DEF Merge
    <3>2. UNCHANGED <<left, receipts, warned>> /\ (To(g, "merged") \/ To(g, "failed"))
      BY <2>7 DEF Merge, reading
    <3>3. \A h \in Gate \ {g} : merged'[h] = merged[h]  BY <2>7 DEF Merge, GateOK
    <3> QED  BY <2>0, <2>2, <3>1, <3>2, <3>3 DEF To
  <2>8. CASE WriteResult(g)
    <3>1. g \notin warned  BY <1>0, <2>8 DEF WriteResult
    <3>2. UNCHANGED <<left, receipts, warned, merged>> /\ To(g, "over")
      BY <2>8 DEF WriteResult, reading
    <3> QED  BY <2>0, <2>2, <3>1, <3>2 DEF To
  <2>9. ASSUME NEW w \in Root, ReadRequests(g, w) PROVE FlagInv'
    <3>1. g \notin warned /\ UNCHANGED <<merged, receipts>>  BY <1>0, <2>9 DEF ReadRequests
    <3>2. merged[g] = None  BY <2>9 DEF ReadRequests, MergeInv
    <3>3. CASE left' = [left EXCEPT ![g] = @ \ {w}] /\ UNCHANGED <<step, warned>>
      BY <2>0, <2>2, <3>1, <3>3
    <3>4. CASE /\ left' = [left EXCEPT ![g] = Root] /\ To(g, "receipts")
               /\ warned' = IF \E v \in Root : receipt[v] # None /\ receipt[v].verdict = "FLAG"
                            THEN warned \cup {g} ELSE warned
      <4>1. \A h \in Gate \ {g} : step'[h] = step[h] /\ left'[h] = left[h] /\ receipts'[h] = receipts[h]
        BY <2>0, <3>1, <3>4 DEF To
      <4>2. step'[g] = "receipts" /\ left'[g] = Root  BY <2>0, <3>4 DEF To
      <4>3. CASE \E v \in Root : receipt[v] # None /\ receipt[v].verdict = "FLAG"
        <5>1. PICK v \in Root : receipt[v] # None /\ receipt[v].verdict = "FLAG"  BY <4>3
        <5>2. F(g)'  BY <2>0, <3>1, <3>2, <4>2, <5>1
        <5>3. \A h \in warned : F(h)'  BY <1>0, <2>0, <3>1, <4>1
        <5> QED  BY <3>4, <4>3, <5>2, <5>3 DEF FlagInv
      <4>4. CASE ~ \E v \in Root : receipt[v] # None /\ receipt[v].verdict = "FLAG"
        BY <2>2, <3>1, <3>4, <4>1, <4>4
      <4> QED  BY <4>3, <4>4
    <3> QED  BY <2>9, <3>3, <3>4 DEF ReadRequests
  <2>10. ASSUME NEW w \in Root, ReadReceipts(g, w) PROVE FlagInv'
    <3>1. /\ UNCHANGED <<merged, warned>> /\ step[g] = "receipts" /\ w \in left[g]
          /\ receipts' = [receipts EXCEPT ![g] = @ \cup ({receipt[w]} \ {None})]
          /\ left' = [left EXCEPT ![g] = @ \ {w}]
          /\ IF left[g] = {w} THEN To(g, "evaluate") ELSE UNCHANGED step
      BY <2>10 DEF ReadReceipts
    <3>2. \A h \in Gate \ {g} : step'[h] = step[h] /\ left'[h] = left[h] /\ receipts'[h] = receipts[h]
      BY <2>0, <3>1 DEF To
    <3>3. /\ receipts'[g] = receipts[g] \cup ({receipt[w]} \ {None}) /\ left'[g] = left[g] \ {w}
          /\ step'[g] = IF left[g] = {w} THEN "evaluate" ELSE "receipts"
      BY <2>0, <3>1 DEF To
    <3>4. ASSUME NEW v \in Root, Flag(g, v) PROVE Flag(g, v)'
      BY <2>0, <3>1, <3>3, <3>4
    <3>5. ASSUME g \in warned PROVE F(g)'
      BY <1>0, <3>1, <3>3, <3>4, <3>5
    <3>6. ASSUME NEW h \in warned, h # g PROVE F(h)'
      BY <1>0, <2>0, <3>1, <3>2, <3>6
    <3> QED  BY <3>1, <3>5, <3>6 DEF FlagInv
  <2> QED  BY <1>3, <2>3, <2>4, <2>5, <2>6, <2>7, <2>8, <2>9, <2>10 DEF Merging
<1>4. Push \/ UNCHANGED gate => UNCHANGED <<step, left, receipts, merged, warned>>
  BY DEF Push, gate, reading
<1> QED  BY <1>2, <1>3, <1>4, StepSplit

-----------------------------------------------------------------------------
(* One run after the other: a receipt stands. *)

\* What a run was told to review stays, it is at work only once its request may be issued,
\* and the files change only at its work.
LEMMA Moves ==
  ASSUME FilesOK, RunsOK, NEW r \in Run, Delegation(r)
  PROVE  /\ pc'[r] \notin {"idle", "over", "issue"} => me'[r].root = me[r].root
         /\ pc'[r] \notin {"idle", "over", "issue", "request"} => Working(r)
         /\ pc'[r] = "issue" => me'[r].started = clock' /\ clock' = clock + 1 /\ Start(r)
         /\ pc'[r] = "request" => Issue(r) /\ Pass(r)
         /\ clock <= clock' /\ (alone' => alone)
         /\ UNCHANGED request \/ WriteRequest(r)
         /\ UNCHANGED receipt \/ LinkReceipt(r)
         /\ UNCHANGED verdict \/ MakeDirectory(r) \/ Reviewed(r)
         /\ \/ UNCHANGED audit
            \/ \E k \in Kind : Log(Event(r, k)) /\ pc[r] \in {"supersede", "append", "conflict", "note"}
<1>0. /\ me[r] \in Knowledge /\ pc \in [Run -> Steps] /\ me \in [Run -> Knowledge] /\ clock \in Nat
  BY DEF FilesOK, RunsOK
<1> DEFINE k == me[r]
           Kept(m) == m.root = k.root
<1>1. /\ \A x : /\ Kept([k EXCEPT !.started = x]) /\ Kept([k EXCEPT !.seen = x])
                /\ Kept([k EXCEPT !.verdict = x]) /\ Kept([k EXCEPT !.at = x])
                /\ Kept([k EXCEPT !.kind = x]) /\ Kept([k EXCEPT !.orphan = x])
                /\ Kept([k EXCEPT !.at = x, !.kind = "rejected"])
                /\ Kept([k EXCEPT !.verdict = x, !.at = 0])
                /\ Kept([[k EXCEPT !.verdict = x, !.at = 0] EXCEPT !.kind = "conflict"])
      /\ \A x : Kept([k EXCEPT !.attempt = x, !.seen = 0, !.orphan = FALSE])
      /\ Kept(k)
  BY <1>0 DEF Knowledge
<1> HIDE DEF Kept
<1>2. ASSUME NEW l, Goto(r, l) PROVE pc'[r] = l  BY <1>0, <1>2 DEF Goto
<1>3. ASSUME NEW m, Know(r, m) PROVE me'[r] = m  BY <1>0, <1>3 DEF Know
<1>4. End(r) => pc'[r] = "over"  BY <1>2 DEF End
<1>5. UNCHANGED me => Kept(me'[r])  BY <1>1
<1>6. \/ pc'[r] \in {"over", "issue"}
      \/ Kept(me'[r])
  <2>0. PICK y : y = clock'  OBVIOUS
  <2>1. CASE Start(r)  BY <1>2, <2>1 DEF Start
  <2>2. CASE Issue(r)  BY <1>4, <1>5, <2>2 DEF Issue, Pass
  <2>3. CASE WriteRequest(r)  BY <1>1, <1>3, <2>3 DEF WriteRequest
  <2>4. CASE ReadHistory(r)  BY <1>1, <1>3, <2>4 DEF ReadHistory
  <2>5. CASE CheckAndSweep(r)  BY <1>4, <1>5, <2>5 DEF CheckAndSweep
  <2>6. CASE Number(r)
    <3> DEFINE Taken(x) == [k EXCEPT !.attempt = x, !.seen = 0, !.orphan = FALSE]
    <3>1. \/ Know(r, Taken(1)) \/ Know(r, Taken(Len(verdict[me[r].root]) + 1)) \/ End(r)
      BY <2>6 DEF Number
    <3>2. \A x : Kept(Taken(x))  BY <1>1
    <3> HIDE DEF Taken
    <3> QED  BY <1>3, <1>4, <3>1, <3>2
  <2>7. CASE Supersede(r) \/ MakeDirectory(r)  BY <1>5, <2>7 DEF Supersede, MakeDirectory
  <2>8. CASE Reviewed(r)
    <3>1. UNCHANGED me \/ Know(r, [me[r] EXCEPT !.at = y, !.kind = "rejected"])
      BY <2>0, <2>8 DEF Reviewed
    <3>2. UNCHANGED me \/ me'[r] = [k EXCEPT !.at = y, !.kind = "rejected"]  BY <1>3, <3>1
    <3>3. Kept([k EXCEPT !.at = y, !.kind = "rejected"])  BY <1>1
    <3> QED  BY <1>5, <3>2, <3>3
  <2>9. CASE Project(r)  BY <1>1, <1>3, <2>9 DEF Project
  <2>10. CASE Retain(r) \/ Stage(r)  BY <1>4, <1>5, <2>10 DEF Retain, Stage
  <2>11. CASE AppendFact(r)  BY <1>1, <1>3, <1>5, <2>11 DEF AppendFact
  <2>12. CASE LinkReceipt(r)  BY <1>4, <1>5, <2>12 DEF LinkReceipt
  <2>13. CASE Contradict(r) \/ Note(r) \/ Die(r)  BY <1>4, <2>13 DEF Contradict, Note, Die
  <2>14. CASE Record(r)  BY <1>1, <1>3, <1>4, <2>14 DEF Record
  <2>15. CASE LookForReceipt(r)
    <3> DEFINE Looked(x) == [k EXCEPT !.orphan = x]
    <3>1. \E x : Know(r, Looked(x))  BY <2>15 DEF LookForReceipt
    <3>2. \A x : Kept(Looked(x))  BY <1>1
    <3> HIDE DEF Looked
    <3> QED  BY <1>3, <3>1, <3>2
  <2> QED  BY <2>1, <2>2, <2>3, <2>4, <2>5, <2>6, <2>7, <2>8, <2>9, <2>10, <2>11, <2>12, <2>13,
              <2>14, <2>15 DEF Delegation
<1>7. /\ pc'[r] \notin {"idle", "over", "issue", "request"} => Working(r)
      /\ pc'[r] = "issue" => Start(r)
      /\ pc'[r] = "request" => Issue(r) /\ Pass(r)
  <2> USE DEF Working
  <2>1. CASE Start(r)  BY <1>2, <2>1 DEF Start
  <2>2. CASE Issue(r)  BY <1>2, <1>4, <2>2 DEF Issue, Pass
  <2>3. CASE WriteRequest(r)  BY <1>2, <2>3 DEF WriteRequest
  <2>4. CASE ReadHistory(r)  BY <1>2, <2>4 DEF ReadHistory
  <2>5. CASE CheckAndSweep(r) \/ LookForReceipt(r)
    BY <1>2, <1>4, <2>5 DEF CheckAndSweep, LookForReceipt
  <2>6. CASE Number(r) \/ Supersede(r) \/ MakeDirectory(r)
    BY <1>2, <1>4, <2>6 DEF Number, Supersede, MakeDirectory
  <2>7. CASE Reviewed(r) \/ Project(r)  BY <1>2, <2>7 DEF Reviewed, Project
  <2>8. CASE Retain(r) \/ Stage(r) \/ AppendFact(r) \/ LinkReceipt(r)
    BY <1>2, <1>4, <2>8 DEF Retain, Stage, AppendFact, LinkReceipt
  <2>9. CASE Contradict(r) \/ Note(r) \/ Record(r)
    BY <1>2, <1>4, <2>9 DEF Contradict, Note, Record
  <2>10. CASE Die(r)  BY <1>4, <2>10 DEF Die
  <2> QED  BY <2>1, <2>2, <2>3, <2>4, <2>5, <2>6, <2>7, <2>8, <2>9, <2>10 DEF Delegation
<1>8. Start(r) => me'[r].started = clock' /\ clock' = clock + 1
  <2> SUFFICES ASSUME Start(r) PROVE me'[r].started = clock' /\ clock' = clock + 1
    OBVIOUS
  <2>1. clock' = clock + 1  BY DEF Start
  <2>2. PICK v \in Root : Know(r, [Nothing EXCEPT !.root = v, !.started = clock'])  BY DEF Start
  <2>3. me'[r] = [Nothing EXCEPT !.root = v, !.started = clock']  BY <1>0, <2>2 DEF Know
  <2> QED  BY <2>1, <2>3 DEF Nothing
<1>9. clock <= clock'
  <2>1. Start(r) \/ Reviewed(r) => clock' = clock + 1 \/ clock' = clock
    BY DEF Start, Reviewed
  <2>2. ASSUME ~Start(r), ~Reviewed(r) PROVE UNCHANGED clock
    BY <2>2 DEF Delegation, Issue, Pass, WriteRequest, LookForReceipt, ReadHistory, CheckAndSweep,
                Number, Supersede, MakeDirectory, Project, Retain, Stage, AppendFact, LinkReceipt,
                Contradict, Record, Note, Die
  <2> QED  BY <1>0, <2>1, <2>2
<1>12. alone' => alone
  <2>1. CASE Pass(r)  BY <2>1 DEF Pass
  <2>2. ASSUME ~Pass(r) PROVE alone' = alone
    BY <2>2 DEF Delegation, Start, Issue, WriteRequest, LookForReceipt, ReadHistory, CheckAndSweep,
                Number, Supersede, MakeDirectory, Reviewed, Project, Retain, Stage, AppendFact,
                LinkReceipt, Contradict, Record, Note, Die
  <2> QED  BY <2>1, <2>2
<1>10. /\ UNCHANGED request \/ WriteRequest(r)
       /\ UNCHANGED receipt \/ LinkReceipt(r)
       /\ UNCHANGED verdict \/ MakeDirectory(r) \/ Reviewed(r)
  BY DEF Delegation, Start, Issue, Pass, WriteRequest, LookForReceipt, ReadHistory, CheckAndSweep,
         Number, Supersede, MakeDirectory, Reviewed, Project, Retain, Stage, AppendFact, LinkReceipt,
         Contradict, Record, Note, Die, files
<1>11. \/ UNCHANGED audit
       \/ \E l \in Kind : Log(Event(r, l)) /\ pc[r] \in {"supersede", "append", "conflict", "note"}
  <2>1. me[r].kind \in Kind /\ "superseded" \in Kind /\ "completed" \in Kind /\ "conflict" \in Kind
    BY <1>0 DEF Knowledge, Kind
  <2>2. CASE Supersede(r) \/ AppendFact(r) \/ Contradict(r) \/ Note(r)
    BY <2>1, <2>2 DEF Supersede, AppendFact, Contradict, Note
  <2>3. ASSUME ~(Supersede(r) \/ AppendFact(r) \/ Contradict(r) \/ Note(r)) PROVE UNCHANGED audit
    BY <2>3 DEF Delegation, Start, Issue, Pass, WriteRequest, LookForReceipt, ReadHistory, CheckAndSweep,
         Number, MakeDirectory, Reviewed, Project, Retain, Stage, LinkReceipt, Record, Die, files
  <2> QED  BY <2>2, <2>3
<1> QED  BY <1>1, <1>6, <1>7, <1>8, <1>9, <1>10, <1>11, <1>12 DEF Kept

\* A run that is to write its request writes it before anything else.
LEMMA AtRequest ==
  ASSUME RunsOK, NEW r \in Run, Delegation(r), pc[r] = "request"
  PROVE  WriteRequest(r) \/ pc'[r] = "over"
<1>1. End(r) => pc'[r] = "over"  BY DEF End, Goto, RunsOK
<1> QED  BY <1>1 DEF Delegation, Start, Issue, LookForReceipt, ReadHistory, CheckAndSweep,
                Number, Supersede, MakeDirectory, Reviewed, Project, Retain, Stage, AppendFact,
                LinkReceipt, Contradict, Record, Note, Die

\* Verdict files change in the run's own worktree, at its work.
LEMMA VerdictSteps ==
  ASSUME FilesOK, RunsOK, NEW r \in Run, Delegation(r), NEW w \in Root, verdict'[w] # verdict[w]
  PROVE  w = me[r].root /\ pc[r] \in {"mkdir", "review"}
<1>1. verdict \in [Root -> Seq(Written)]  BY DEF FilesOK
<1>2. MakeDirectory(r) \/ Reviewed(r)  BY Moves
<1>3. CASE MakeDirectory(r)
  <2> DEFINE d == IF me[r].attempt > Len(verdict[me[r].root])
                  THEN Append(verdict[me[r].root], "none") ELSE verdict[me[r].root]
  <2>1. verdict' = [verdict EXCEPT ![me[r].root] = d] /\ pc[r] = "mkdir"  BY <1>3 DEF MakeDirectory
  <2> HIDE DEF d
  <2> QED  BY <1>1, <2>1
<1>4. CASE Reviewed(r)
  <2>1. pc[r] = "review"  BY <1>4 DEF Reviewed
  <2>2. \E d : verdict' = [verdict EXCEPT ![me[r].root] = d]  BY <1>4 DEF Reviewed
  <2> QED  BY <1>1, <2>1, <2>2
<1> QED  BY <1>2, <1>3, <1>4

\* A worktree gets its request before anything else.
LEMMA RequestStep ==
  ASSUME FilesOK, RunsOK, RequestFirst, NEW r \in Run, Delegation(r)
  PROVE  RequestFirst'
<1>0. FilesOK' /\ RunsOK' /\ Grown /\ Others(r)  BY CustodyStep
<1>1. /\ pc[r] \notin {"idle", "over"} => me[r].root \in Root
      /\ Working(r) /\ pc[r] # "request" => request[me[r].root] # 0
  BY DEF RunsOK, RunOK, RequestFirst
<1>2. ASSUME NEW w \in Root, request'[w] = 0 PROVE receipt'[w] = None /\ verdict'[w] = << >>
  <2>1. request[w] = 0 /\ receipt[w] = None /\ verdict[w] = << >>
    BY <1>0, <1>2 DEF Grown, RequestFirst
  <2>2. receipt'[w] = receipt[w]  BY <1>1, <2>1, ReceiptSteps DEF Working
  <2>3. verdict'[w] = verdict[w]  BY <1>1, <2>1, VerdictSteps DEF Working
  <2> QED  BY <2>1, <2>2, <2>3
<1>3. ASSUME NEW i \in DOMAIN audit' PROVE request'[audit'[i].root] # 0
  <2>0. \A j \in DOMAIN audit : audit[j].root \in Root /\ request[audit[j].root] # 0
    <3>1. \A j \in DOMAIN audit : audit[j] \in Entry  BY ElementOfSeq, LenProperties DEF FilesOK
    <3> QED  BY <3>1 DEF RequestFirst, Entry
  <2>1. CASE UNCHANGED audit  BY <1>0, <1>3, <2>0, <2>1 DEF Grown
  <2>2. ASSUME NEW k \in Kind, Log(Event(r, k)), pc[r] \in {"supersede", "append", "conflict", "note"}
        PROVE  request'[audit'[i].root] # 0
    <3>1. me[r] \in Knowledge /\ me[r].root \in Root /\ request[me[r].root] # 0
      BY <1>1, <2>2 DEF RunsOK, Working
    <3>2. Event(r, k) \in Entry  BY <3>1 DEF Event, Entry, Knowledge
    <3>3. i \in DOMAIN audit \/ audit'[i] = Event(r, k)
      BY <1>3, <2>2, <3>2, LogGrows DEF FilesOK
    <3> QED  BY <1>0, <2>0, <3>1, <3>3 DEF Grown, Event
  <2> QED  BY <2>1, <2>2, Moves
<1>4. ASSUME NEW q \in Run, Working(q)', pc'[q] # "request" PROVE request'[me'[q].root] # 0
  <2>1. CASE q # r
    <3>1. pc'[q] = pc[q] /\ me'[q] = me[q]  BY <1>0, <2>1 DEF Others
    <3>2. Working(q) /\ pc[q] # "request"  BY <1>4, <3>1 DEF Working
    <3>3. me[q].root \in Root /\ request[me[q].root] # 0
      BY <3>2 DEF RequestFirst, RunsOK, RunOK, Working
    <3> QED  BY <1>0, <3>1, <3>3 DEF Grown
  <2>2. CASE q = r
    <3>1. me'[r].root = me[r].root /\ Working(r) /\ pc'[r] # "over"
      BY <1>4, <2>2, Moves DEF Working
    <3>2. CASE pc[r] = "request"
      <4>1. request' = [request EXCEPT ![me[r].root] = me[r].started]
        BY <3>1, <3>2, AtRequest DEF WriteRequest
      <4>2. me[r].root \in Root /\ me[r].started # 0 /\ request \in [Root -> Nat]
        BY <3>2 DEF FilesOK, RunsOK, RunOK
      <4> QED  BY <2>2, <3>1, <4>1, <4>2
    <3>3. CASE pc[r] # "request"
      BY <1>0, <1>1, <2>2, <3>1, <3>3 DEF Grown, Working
    <3> QED  BY <3>2, <3>3
  <2> QED  BY <2>1, <2>2
<1> QED  BY <1>2, <1>3, <1>4 DEF RequestFirst

\* Nothing is dated in the future.
LEMMA DatedStep ==
  ASSUME FilesOK, RunsOK, Dated, NEW r \in Run, Delegation(r)
  PROVE  Dated'
<1>0. FilesOK' /\ RunsOK' /\ Grown /\ Others(r)  BY CustodyStep
<1>1. /\ clock \in Nat /\ clock' \in Nat /\ clock <= clock' /\ request \in [Root -> Nat]
      /\ \A q \in Run : me[q].started \in Nat
  BY <1>0, Moves DEF FilesOK, RunsOK, Knowledge
<1>2. ASSUME NEW w \in Root PROVE request'[w] <= clock'
  <2>1. request[w] <= clock /\ request[w] \in Nat  BY <1>1 DEF Dated
  <2>2. CASE UNCHANGED request  BY <1>1, <2>1, <2>2
  <2>3. CASE WriteRequest(r)
    <3>1. request' = [request EXCEPT ![me[r].root] = me[r].started] /\ me[r].started <= clock
      BY <2>3 DEF WriteRequest, Dated
    <3> QED  BY <1>1, <2>1, <3>1
  <2> QED  BY <2>2, <2>3, Moves
<1>3. ASSUME NEW q \in Run, pc'[q] \in {"issue", "request"} PROVE me'[q].started \in 1..clock'
  <2>1. CASE q # r
    <3>1. pc'[q] = pc[q] /\ me'[q] = me[q] /\ me[q].started \in 1..clock
      BY <1>0, <1>3, <2>1 DEF Others, Dated
    <3> QED  BY <1>1, <3>1
  <2>2. CASE q = r /\ pc'[r] = "issue"
    <3>1. me'[r].started = clock' /\ clock' = clock + 1  BY <2>2, Moves
    <3> QED  BY <1>1, <2>2, <3>1
  <2>3. CASE q = r /\ pc'[r] = "request"
    <3>1. Issue(r) /\ Pass(r)  BY <2>3, Moves
    <3>2. me' = me /\ pc[r] = "issue"  BY <3>1 DEF Issue, Pass
    <3>3. me[r].started \in 1..clock  BY <3>2 DEF Dated
    <3> QED  BY <1>1, <2>3, <3>2, <3>3
  <2> QED  BY <1>3, <2>1, <2>2, <2>3
<1> QED  BY <1>2, <1>3 DEF Dated

\* Runs that keep apart are in one worktree, one at work at a time.
LEMMA ApartStep ==
  ASSUME FilesOK, RunsOK, Apart, NEW r \in Run, Delegation(r)
  PROVE  Apart'
<1> SUFFICES ASSUME alone'
             PROVE  /\ \A p, q \in Run : Working(p)' /\ Working(q)' => p = q
                    /\ \A w, v \in Root : request'[w] # 0 /\ request'[v] # 0 => w = v
                    /\ \A q \in Run, w \in Root : Working(q)' /\ request'[w] # 0 => me'[q].root = w
  BY DEF Apart
<1>0. FilesOK' /\ RunsOK' /\ Grown /\ Others(r)  BY CustodyStep
<1>1. alone  BY Moves
<1>2. /\ \A p, q \in Run : Working(p) /\ Working(q) => p = q
      /\ \A w, v \in Root : request[w] # 0 /\ request[v] # 0 => w = v
      /\ \A q \in Run, w \in Root : Working(q) /\ request[w] # 0 => me[q].root = w
  BY <1>1 DEF Apart
<1>3. \A q \in Run \ {r} : pc'[q] = pc[q] /\ me'[q] = me[q]  BY <1>0 DEF Others
<1>4. CASE pc'[r] = "request"
  <2>1. Pass(r) /\ Issue(r)  BY <1>4, Moves
  <2>2. /\ UNCHANGED <<me, request>>
        /\ \A q \in Run \ {r} : pc[q] \in {"idle", "over"}
        /\ \A w \in Root \ {me[r].root} : request[w] = 0
    BY <2>1 DEF Pass, files
  <2>3. \A q \in Run : Working(q)' => q = r  BY <1>3, <2>2 DEF Working
  <2> QED  BY <1>2, <2>2, <2>3
<1>5. CASE pc'[r] # "request"
  <2>1. Working(r)' => Working(r) /\ me'[r].root = me[r].root  BY <1>5, Moves DEF Working
  <2>2. \A q \in Run : Working(q)' => Working(q) /\ me'[q].root = me[q].root
    BY <1>3, <2>1 DEF Working
  <2>3. CASE UNCHANGED request  BY <1>2, <2>2, <2>3
  <2>4. CASE WriteRequest(r)
    <3>1. /\ request' = [request EXCEPT ![me[r].root] = me[r].started]
          /\ Working(r) /\ request \in [Root -> Nat]
      BY <2>4 DEF WriteRequest, Working, FilesOK
    <3>2. \A w \in Root : request'[w] # 0 => w = me[r].root  BY <1>2, <3>1
    <3> QED  BY <1>2, <2>2, <3>1, <3>2
  <2> QED  BY <2>3, <2>4, Moves
<1> QED  BY <1>4, <1>5

\* While runs keep apart, the one at work is in the worktree of all events and finds no receipt.
LEMMA AtWork ==
  ASSUME FilesOK, RunsOK, AloneInv, alone, NEW r \in Run, Working(r)
  PROVE  /\ me[r].root \in Root /\ me[r] \in Knowledge /\ FreshRun(r) /\ InOrder
         /\ me[r].kind # "conflict"
         /\ \A v \in Root : receipt[v] = None
         /\ \A i \in DOMAIN audit : audit[i] \in Entry /\ audit[i].root = me[r].root
<1>1. me[r].root \in Root /\ me[r] \in Knowledge /\ FreshRun(r) /\ InOrder /\ me[r].kind # "conflict"
  BY DEF AloneInv, Fresh, RunsOK, RunOK, Working
<1>2. \A v \in Root : request[v] # 0 => me[r].root = v  BY DEF AloneInv, Apart
<1>3. \A v \in Root : receipt[v] = None
  BY <1>1, <1>2 DEF AloneInv, RequestFirst, FreshRun
<1>4. \A i \in DOMAIN audit : audit[i] \in Entry  BY ElementOfSeq, LenProperties DEF FilesOK
<1>5. \A i \in DOMAIN audit : audit[i].root = me[r].root
  BY <1>2, <1>4 DEF AloneInv, RequestFirst, Entry
<1> QED  BY <1>1, <1>3, <1>4, <1>5

\* A run that is not at work leaves the files alone.
LEMMA AtRest ==
  ASSUME NEW r \in Run, Delegation(r), ~Working(r)
  PROVE  UNCHANGED files
<1>1. Start(r) \/ Issue(r) \/ Die(r)
  BY DEF Working, Delegation, WriteRequest, LookForReceipt, ReadHistory, CheckAndSweep,
         Number, Supersede, MakeDirectory, Reviewed, Project, Retain, Stage, AppendFact,
         LinkReceipt, Contradict, Record, Note
<1>2. Start(r) \/ Die(r) => UNCHANGED files  BY DEF Start, Die
<1>3. Issue(r) => UNCHANGED files  BY DEF Issue, Pass
<1> QED  BY <1>1, <1>2, <1>3

\* The events on record stay in order.
LEMMA InOrderStep ==
  ASSUME FilesOK, RunsOK, AloneInv, alone, NEW r \in Run, Delegation(r)
  PROVE  InOrder'
<1>0. FilesOK' /\ RunsOK' /\ Grown /\ Others(r) /\ InOrder
  BY CustodyStep DEF AloneInv, Fresh
<1>1. /\ \A i \in DOMAIN audit : audit[i] \in Entry
      /\ \A v \in Root : Len(verdict[v]) \in Nat /\ Len(verdict'[v]) \in Nat
  BY <1>0, ElementOfSeq, LenProperties DEF FilesOK
<1> DEFINE Bound(e) == /\ e.kind # "conflict"
                       /\ e.attempt <= IF e.kind = "superseded" THEN Len(verdict[e.root]) + 1
                                                                ELSE Len(verdict[e.root])
           Bound2(e) == /\ e.kind # "conflict"
                        /\ e.attempt <= IF e.kind = "superseded" THEN Len(verdict'[e.root]) + 1
                                                                 ELSE Len(verdict'[e.root])
<1>2. ASSUME NEW e \in Entry, Bound(e) PROVE Bound2(e)
  <2>1. e.root \in Root /\ e.attempt \in Nat  BY DEF Entry
  <2>2. Len(verdict[e.root]) <= Len(verdict'[e.root])  BY <1>0, <2>1 DEF Grown
  <2> QED  BY <1>1, <1>2, <2>1, <2>2
<1>3. \A i \in DOMAIN audit : Bound2(audit[i])
  <2>1. \A i \in DOMAIN audit : Bound(audit[i])  BY <1>0 DEF InOrder
  <2> QED  BY <1>1, <1>2, <2>1
<1>4. CASE UNCHANGED audit
  <2>1. \A i \in DOMAIN audit' : Bound2(audit'[i])  BY <1>3, <1>4
  <2> QED  BY <2>1 DEF InOrder
<1>5. ASSUME NEW k \in Kind, Log(Event(r, k)), Working(r), Bound(Event(r, k)) PROVE InOrder'
  <2>1. Event(r, k) \in Entry
    BY <1>5, AtWork DEF Event, Entry, Knowledge
  <2>2. Bound2(Event(r, k))  BY <1>2, <1>5, <2>1
  <2>3. \A i \in DOMAIN audit' : Bound2(audit'[i])
    <3>1. \A i \in DOMAIN audit' : \/ i \in DOMAIN audit /\ audit'[i] = audit[i]
                                   \/ audit'[i] = Event(r, k)
      <4>1. PICK e \in Entry : e = Event(r, k) /\ Log(e)  BY <1>5, <2>1
      <4>2. /\ DOMAIN audit = 1..Len(audit) /\ DOMAIN audit' = 1..(Len(audit) + 1)
            /\ \A i \in 1..Len(audit) : audit'[i] = audit[i]
            /\ audit'[Len(audit) + 1] = e /\ Len(audit) \in Nat
        BY <4>1, LogGrows DEF FilesOK
      <4>3. \A i \in DOMAIN audit' : i \in DOMAIN audit \/ i = Len(audit) + 1  BY <4>2
      <4> QED  BY <4>1, <4>2, <4>3
    <3> HIDE DEF Bound2
    <3> QED  BY <1>3, <2>2, <3>1
  <2> QED  BY <2>3 DEF InOrder
<1>6. CASE Supersede(r)
  <2>1. Log(Event(r, "superseded")) /\ Working(r) /\ pc[r] = "supersede" /\ "superseded" \in Kind
    BY <1>6 DEF Supersede, Working, Kind
  <2>2. me[r].attempt = Len(verdict[me[r].root]) + 1 /\ me[r].attempt \in Nat
    BY <2>1, AtWork DEF FreshRun, Knowledge
  <2>3. Bound(Event(r, "superseded"))  BY <2>2 DEF Event
  <2> QED  BY <1>5, <2>1, <2>3
<1>7. CASE AppendFact(r)
  <2>1. UNCHANGED audit \/ Log(Event(r, "completed"))  BY <1>7 DEF AppendFact
  <2>2. Working(r) /\ pc[r] = "append" /\ "completed" \in Kind  BY <1>7 DEF AppendFact, Working, Kind
  <2>3. me[r].attempt = Len(verdict[me[r].root]) /\ me[r].attempt \in Nat
    BY <2>2, AtWork DEF FreshRun, Knowledge, Attempting
  <2>4. Bound(Event(r, "completed"))  BY <2>3 DEF Event
  <2> QED  BY <1>4, <1>5, <2>1, <2>2, <2>4
<1>8. CASE Note(r)
  <2>1. Working(r) /\ pc[r] = "note" /\ Log(Event(r, me[r].kind))  BY <1>8 DEF Note, Working
  <2>2. /\ me[r].attempt = Len(verdict[me[r].root]) /\ me[r].attempt \in Nat
        /\ me[r].kind \in Kind /\ me[r].kind # "conflict" /\ me[r].root \in Root
    BY <2>1, AtWork DEF FreshRun, Knowledge, Attempting
  <2>3. Bound(Event(r, me[r].kind))  BY <1>1, <2>2 DEF Event
  <2> QED  BY <1>5, <2>1, <2>2, <2>3
<1>9. ~Contradict(r)
  <2> SUFFICES ASSUME Contradict(r) PROVE FALSE
    OBVIOUS
  <2>1. pc[r] = "conflict" /\ Working(r)  BY DEF Contradict, Working
  <2> QED  BY <2>1, AtWork DEF FreshRun
<1>10. ASSUME ~(Supersede(r) \/ AppendFact(r) \/ Contradict(r) \/ Note(r)) PROVE UNCHANGED audit
  BY <1>10 DEF Delegation, Start, Issue, Pass, WriteRequest, LookForReceipt, ReadHistory, CheckAndSweep,
       Number, MakeDirectory, Reviewed, Project, Retain, Stage, LinkReceipt, Record, Die, files
<1> QED  BY <1>4, <1>6, <1>7, <1>8, <1>9, <1>10

\* No run finds an outcome of its attempt that contradicts its own.
LEMMA NoConflictStep ==
  ASSUME FilesOK, RunsOK, AloneInv, alone, NEW r \in Run, Delegation(r)
  PROVE  me'[r].kind # "conflict"
<1>0. /\ me[r] \in Knowledge /\ me \in [Run -> Knowledge] /\ me[r].kind # "conflict"
      /\ Nothing.kind = "failed"
  BY DEF RunsOK, AloneInv, Fresh, Nothing
<1> DEFINE k == me[r]
           Fine(m) == m.kind # "conflict"
<1>1. /\ \A x : /\ Fine([k EXCEPT !.started = x]) /\ Fine([k EXCEPT !.seen = x])
                /\ Fine([k EXCEPT !.verdict = x]) /\ Fine([k EXCEPT !.at = x])
                /\ Fine([k EXCEPT !.orphan = x]) /\ Fine([k EXCEPT !.kind = "failed"])
                /\ Fine([k EXCEPT !.at = x, !.kind = "rejected"])
                /\ Fine([k EXCEPT !.verdict = x, !.at = 0])
      /\ \A x : Fine([k EXCEPT !.attempt = x, !.seen = 0, !.orphan = FALSE])
      /\ \A x, y : Fine([Nothing EXCEPT !.root = x, !.started = y])
      /\ Fine(k) /\ Fine(Nothing)
  BY <1>0 DEF Knowledge, Nothing
<1> HIDE DEF Fine
<1>3. ASSUME NEW m, Know(r, m) PROVE me'[r] = m  BY <1>0, <1>3 DEF Know
<1>4. End(r) => Fine(me'[r])  BY <1>1, <1>3 DEF End
<1>5. UNCHANGED me => Fine(me'[r])  BY <1>1
<1>6. Fine(me'[r])
  <2>0. PICK y : y = clock'  OBVIOUS
  <2>1. CASE Start(r)
    <3>1. PICK v \in Root : Know(r, [Nothing EXCEPT !.root = v, !.started = y])
      BY <2>0, <2>1 DEF Start
    <3>2. me'[r] = [Nothing EXCEPT !.root = v, !.started = y]  BY <1>3, <3>1
    <3>3. Fine([Nothing EXCEPT !.root = v, !.started = y])  BY <1>1
    <3> QED  BY <3>2, <3>3
  <2>2. CASE Issue(r)  BY <1>4, <1>5, <2>2 DEF Issue, Pass
  <2>3. CASE WriteRequest(r)  BY <1>1, <1>3, <2>3 DEF WriteRequest
  <2>4. CASE ReadHistory(r)  BY <1>1, <1>3, <2>4 DEF ReadHistory
  <2>5. CASE CheckAndSweep(r)  BY <1>4, <1>5, <2>5 DEF CheckAndSweep
  <2>6. CASE Number(r)
    <3> DEFINE Taken(x) == [k EXCEPT !.attempt = x, !.seen = 0, !.orphan = FALSE]
    <3>1. \/ Know(r, Taken(1)) \/ Know(r, Taken(Len(verdict[me[r].root]) + 1)) \/ End(r)
      BY <2>6 DEF Number
    <3>2. \A x : Fine(Taken(x))  BY <1>1
    <3> HIDE DEF Taken
    <3> QED  BY <1>3, <1>4, <3>1, <3>2
  <2>7. CASE Supersede(r) \/ MakeDirectory(r)  BY <1>5, <2>7 DEF Supersede, MakeDirectory
  <2>8. CASE Reviewed(r)
    <3>1. UNCHANGED me \/ Know(r, [me[r] EXCEPT !.at = y, !.kind = "rejected"])
      BY <2>0, <2>8 DEF Reviewed
    <3>2. UNCHANGED me \/ me'[r] = [k EXCEPT !.at = y, !.kind = "rejected"]  BY <1>3, <3>1
    <3>3. Fine([k EXCEPT !.at = y, !.kind = "rejected"])  BY <1>1
    <3> QED  BY <1>5, <3>2, <3>3
  <2>9. CASE Project(r)  BY <1>1, <1>3, <2>9 DEF Project
  <2>10. CASE Retain(r) \/ Stage(r)  BY <1>4, <1>5, <2>10 DEF Retain, Stage
  <2>11. CASE AppendFact(r)  BY <1>1, <1>3, <1>5, <2>11 DEF AppendFact
  <2>12. CASE LinkReceipt(r)  BY <1>4, <1>5, <2>12 DEF LinkReceipt
  <2>13. CASE Contradict(r) \/ Note(r) \/ Die(r)  BY <1>4, <2>13 DEF Contradict, Note, Die
  <2>14. CASE Record(r)
    <3> DEFINE earlier == {i \in 1..Len(audit) : audit[i].kind \in Outcome /\ audit[i].attempt = me[r].attempt}
    <3>1. pc[r] = "record" /\ Working(r)  BY <2>14 DEF Record, Working
    <3>2. earlier = {}
      <4>1. /\ me[r].attempt = Len(verdict[me[r].root])
            /\ \A i \in DOMAIN audit : audit[i].kind # "superseded" => audit[i].attempt < Len(verdict[me[r].root])
        BY <3>1, AtWork DEF FreshRun, Attempting
      <4>2. DOMAIN audit = 1..Len(audit) /\ me[r].attempt \in Nat
        BY <1>0, LenProperties DEF FilesOK, Knowledge
      <4> QED  BY <4>1, <4>2 DEF Outcome
    <3>3. Cardinality({}) = 0  BY FS_EmptySet
    <3>4. \/ Know(r, [me[r] EXCEPT !.verdict = File(r), !.at = 0])
          \/ Cardinality(earlier) = 1
          \/ earlier # {} /\ End(r)
      BY <2>14 DEF Record
    <3> HIDE DEF earlier
    <3>5. Know(r, [me[r] EXCEPT !.verdict = File(r), !.at = 0])  BY <3>2, <3>3, <3>4
    <3> QED  BY <1>1, <1>3, <3>5
  <2>15. CASE LookForReceipt(r)
    <3> DEFINE Looked(x) == [k EXCEPT !.orphan = x]
    <3>1. \E x : Know(r, Looked(x))  BY <2>15 DEF LookForReceipt
    <3>2. \A x : Fine(Looked(x))  BY <1>1
    <3> HIDE DEF Looked
    <3> QED  BY <1>3, <3>1, <3>2
  <2> QED  BY <2>1, <2>2, <2>3, <2>4, <2>5, <2>6, <2>7, <2>8, <2>9, <2>10, <2>11, <2>12, <2>13,
              <2>14, <2>15 DEF Delegation
<1> QED  BY <1>6 DEF Fine

\* The run at work stays the first one of its attempt, up to its own fact.
LEMMA FreshRunStep ==
  ASSUME FilesOK, RunsOK, AloneInv, alone, NEW r \in Run, Delegation(r), Working(r)'
  PROVE  FreshRun(r)'
<1>0. /\ FilesOK' /\ RunsOK' /\ Grown /\ Others(r)
      /\ pc \in [Run -> Steps] /\ me \in [Run -> Knowledge] /\ me[r] \in Knowledge
  BY CustodyStep DEF RunsOK
<1> DEFINE w == me[r].root
           n == Len(verdict[w])
<1>1. CASE pc'[r] = "request"
  <2>1. Issue(r) /\ Pass(r)  BY <1>1, Moves
  <2>2. pc[r] = "issue" /\ UNCHANGED <<receipt, me>>  BY <2>1 DEF Issue, Pass, files
  <2>3. w \in Root  BY <2>2 DEF RunsOK, RunOK
  <2>4. ~TerminalReceipt(w)
    <3>1. pc'[r] # "over"  BY <1>1
    <3>2. End(r) => pc'[r] = "over"  BY <1>0 DEF End, Goto
    <3> QED  BY <2>1, <3>1, <3>2 DEF Issue
  <2>5. receipt[w] = None  BY <2>3, <2>4 DEF AloneInv, ReceiptStands
  <2> QED  BY <1>1, <2>2, <2>5 DEF FreshRun, Attempting, Completing
<1>2. CASE pc'[r] # "request"
  <2>1. Working(r) /\ me'[r].root = w /\ pc'[r] \notin {"idle", "over", "issue"}
    BY <1>2, Moves DEF Working
  <2>2. /\ w \in Root /\ FreshRun(r) /\ InOrder /\ \A v \in Root : receipt[v] = None
        /\ \A i \in DOMAIN audit : audit[i] \in Entry /\ audit[i].root = w
    BY <2>1, AtWork
  <2>3. /\ n \in Nat /\ Len(verdict'[w]) \in Nat /\ me[r].attempt \in Nat /\ me[r].at \in Nat
        /\ \A i \in DOMAIN audit : audit[i].attempt \in Nat
        /\ request[w] \in Nat /\ request \in [Root -> Nat] /\ clock \in Nat
        /\ DOMAIN audit = 1..Len(audit)
    BY <1>0, <2>2, LenProperties DEF FilesOK, Knowledge, Entry
  <2>4. ASSUME NEW l, Goto(r, l) PROVE pc'[r] = l  BY <1>0, <2>4 DEF Goto
  <2>5. ~End(r)  BY <2>1, <2>4 DEF End
  <2>6. ASSUME receipt' = receipt, pc'[r] \in {"look", "history", "check", "number"}
        PROVE  FreshRun(r)'
    BY <2>1, <2>2, <2>6 DEF FreshRun, Attempting, Completing
  <2>7. ASSUME receipt' = receipt, pc'[r] \in {"supersede", "mkdir"},
               me'[r].attempt = n + 1, verdict' = verdict
        PROVE  FreshRun(r)'
    BY <2>1, <2>2, <2>7 DEF FreshRun, Attempting, Completing
  <2>8. ASSUME pc[r] \in Attempting \ {"link", "conflict"},
               pc'[r] \in Attempting \ {"link", "conflict"},
               me'[r].attempt = me[r].attempt, Len(verdict'[w]) = n, audit' = audit, receipt' = receipt,
               pc'[r] \in Completing \cup {"project"} => request'[w] <= me'[r].at
        PROVE  FreshRun(r)'
    <3>1. /\ me[r].attempt = n
          /\ \A i \in DOMAIN audit : audit[i].kind = "superseded" => audit[i].attempt <= n
          /\ \A i \in DOMAIN audit : audit[i].kind # "superseded" => audit[i].attempt < n
      BY <2>2, <2>8 DEF FreshRun
    <3> QED  BY <2>1, <2>2, <2>8, <3>1 DEF FreshRun, Attempting
  <2>11. CASE WriteRequest(r)
    BY <2>4, <2>6, <2>11 DEF WriteRequest
  <2>12. CASE LookForReceipt(r) \/ CheckAndSweep(r)
    BY <2>4, <2>5, <2>6, <2>12 DEF LookForReceipt, CheckAndSweep, files
  <2>13. CASE ReadHistory(r)
    <3>1. pc'[r] = "check" /\ UNCHANGED receipt  BY <2>4, <2>13 DEF ReadHistory, files
    <3> QED  BY <2>6, <3>1
  <2>14. CASE Number(r)
    <3> DEFINE Taken(m) == [me[r] EXCEPT !.attempt = m, !.seen = 0, !.orphan = FALSE]
    <3>1. \A m \in Nat : Taken(m).attempt = m  BY <1>0 DEF Knowledge
    <3>2. \/ pc'[r] = "mkdir" /\ me'[r] = Taken(1) /\ n = 0
          \/ pc'[r] = "supersede" /\ me'[r] = Taken(n + 1)
      BY <1>0, <2>5, <2>14 DEF Number, Goto, Know
    <3>3. UNCHANGED <<receipt, verdict>>  BY <2>14 DEF Number, files
    <3> HIDE DEF Taken
    <3>4. me'[r].attempt = n + 1  BY <2>3, <3>1, <3>2
    <3> QED  BY <2>7, <3>2, <3>3, <3>4
  <2>15. CASE Supersede(r)
    <3>1. pc'[r] = "mkdir" /\ UNCHANGED <<receipt, verdict, me>> /\ pc[r] = "supersede"
      BY <2>4, <2>15 DEF Supersede
    <3>2. me[r].attempt = n + 1  BY <2>2, <3>1 DEF FreshRun
    <3> QED  BY <2>7, <3>1, <3>2
  <2>16. CASE MakeDirectory(r)
    <3>1. pc'[r] = "review" /\ UNCHANGED <<receipt, audit, me>> /\ pc[r] = "mkdir"
      BY <2>4, <2>16 DEF MakeDirectory
    <3>2. me[r].attempt = n + 1  BY <2>2, <3>1 DEF FreshRun
    <3>3. Len(verdict'[w]) = n + 1
      <4> DEFINE d == IF me[r].attempt > Len(verdict[w]) THEN Append(verdict[w], "none") ELSE verdict[w]
      <4>1. d = Append(verdict[w], "none")
        <5>1. me[r].attempt > Len(verdict[w])  BY <2>3, <3>2
        <5> QED  BY <5>1
      <4> HIDE DEF d
      <4>2. verdict' = [verdict EXCEPT ![w] = d]  BY <2>16 DEF MakeDirectory, d
      <4>3. verdict'[w] = Append(verdict[w], "none") /\ verdict[w] \in Seq(Written)
        BY <2>2, <4>1, <4>2 DEF FilesOK
      <4> QED  BY <4>3, AppendProperties DEF Written
    <3>4. \A i \in DOMAIN audit : IF audit[i].kind = "superseded" THEN audit[i].attempt <= n + 1
                                                                  ELSE audit[i].attempt < n + 1
      <4>1. ASSUME NEW i \in DOMAIN audit
            PROVE  /\ audit[i].attempt \in Nat
                   /\ audit[i].attempt <= IF audit[i].kind = "superseded" THEN n + 1 ELSE n
        <5>1. audit[i].root = w /\ audit[i] \in Entry /\ InOrder  BY <2>2, <4>1
        <5>2. audit[i].attempt <= IF audit[i].kind = "superseded"
                                    THEN Len(verdict[audit[i].root]) + 1 ELSE Len(verdict[audit[i].root])
          BY <4>1, <5>1 DEF InOrder
        <5> QED  BY <2>3, <4>1, <5>1, <5>2
      <4> QED  BY <2>3, <4>1
    <3> QED  BY <2>1, <2>2, <3>1, <3>2, <3>3, <3>4 DEF FreshRun, Attempting, Completing
  <2>17. CASE Reviewed(r)
    <3>1. pc[r] = "review" /\ UNCHANGED <<request, receipt, audit>>  BY <2>17 DEF Reviewed
    <3>2. Len(verdict'[w]) = n
      <4>1. ~MakeDirectory(r)  BY <3>1 DEF MakeDirectory
      <4> QED  BY <2>2, <4>1, Directories
    <3>3. \/ /\ pc'[r] = "project" /\ me'[r] = [me[r] EXCEPT !.at = clock', !.kind = "rejected"]
             /\ clock' = clock + 1
          \/ pc'[r] = "record" /\ me' = me
      BY <1>0, <2>4, <2>17 DEF Reviewed, Know
    <3>4. me'[r].attempt = me[r].attempt  BY <1>0, <3>3 DEF Knowledge
    <3>5. pc'[r] = "project" => me'[r].at = clock' /\ clock' = clock + 1  BY <1>0, <3>3 DEF Knowledge
    <3>6. request[w] <= clock  BY <2>2 DEF AloneInv, Dated
    <3> QED  BY <2>3, <2>8, <3>1, <3>2, <3>3, <3>4, <3>5, <3>6 DEF Attempting, Completing
  <2>18. CASE Project(r)
    <3>1. pc[r] = "project" /\ UNCHANGED <<request, receipt, audit, verdict>>  BY <2>18 DEF Project, files
    <3>2. \/ pc'[r] = "retain" /\ me'[r] = [me[r] EXCEPT !.verdict = File(r)]
          \/ pc'[r] = "record" /\ me'[r] = [me[r] EXCEPT !.at = 0]
      BY <1>0, <2>4, <2>18 DEF Project, Know
    <3>3. me'[r].attempt = me[r].attempt /\ (pc'[r] = "retain" => me'[r].at = me[r].at)
      BY <1>0, <3>2 DEF Knowledge
    <3>4. request[w] <= me[r].at  BY <2>2, <3>1 DEF FreshRun
    <3> QED  BY <2>8, <3>1, <3>2, <3>3, <3>4 DEF Attempting, Completing
  <2>19. CASE Retain(r) \/ Stage(r)
    <3>1. /\ pc[r] \in {"retain", "stage"} /\ UNCHANGED <<request, receipt, audit, verdict, me>>
          /\ pc'[r] \in {"stage", "append"}
      BY <2>4, <2>5, <2>19 DEF Retain, Stage, files
    <3>2. request[w] <= me[r].at  BY <2>2, <3>1 DEF FreshRun, Completing
    <3> QED  BY <2>8, <3>1, <3>2 DEF Attempting, Completing
  <2>20. CASE AppendFact(r)
    <3>1. pc[r] = "append" /\ UNCHANGED <<request, receipt, verdict>>  BY <2>20 DEF AppendFact
    <3>2. CASE Know(r, [me[r] EXCEPT !.kind = "failed"]) /\ Goto(r, "record") /\ UNCHANGED audit
      <4>1. me'[r] = [me[r] EXCEPT !.kind = "failed"] /\ pc'[r] = "record"
        BY <1>0, <2>4, <3>2 DEF Know
      <4>2. me'[r].attempt = me[r].attempt  BY <1>0, <4>1 DEF Knowledge
      <4> QED  BY <2>8, <3>1, <3>2, <4>1, <4>2 DEF Attempting, Completing
    <3>3. CASE Log(Event(r, "completed")) /\ Goto(r, "link") /\ UNCHANGED me
      <4> DEFINE i == Len(audit) + 1
      <4>1. Event(r, "completed") \in Entry  BY <1>0, <2>2 DEF Event, Entry, Kind, Knowledge
      <4>2. PICK e \in Entry : e = Event(r, "completed") /\ Log(e)  BY <3>3, <4>1
      <4>3. /\ i \in DOMAIN audit' /\ audit'[i] = e
            /\ \A j \in DOMAIN audit' : j = i \/ (j \in DOMAIN audit /\ audit'[j] = audit[j])
        <5>1. /\ DOMAIN audit = 1..Len(audit) /\ DOMAIN audit' = 1..(Len(audit) + 1)
              /\ \A j \in 1..Len(audit) : audit'[j] = audit[j]
              /\ audit'[Len(audit) + 1] = e /\ Len(audit) \in Nat
          BY <4>2, LogGrows DEF FilesOK
        <5>2. ASSUME NEW j \in DOMAIN audit'
              PROVE  j = i \/ (j \in DOMAIN audit /\ audit'[j] = audit[j])
          <6>1. j \in 1..Len(audit) \/ j = Len(audit) + 1  BY <5>1
          <6> QED  BY <5>1, <6>1
        <5>3. i \in DOMAIN audit' /\ audit'[i] = e  BY <5>1
        <5> HIDE DEF i
        <5> QED  BY <5>2, <5>3
      <4> HIDE DEF i
      <4>4. /\ e.kind = "completed" /\ e.root = w /\ e.attempt = me[r].attempt
            /\ Content(r) = [verdict |-> e.verdict, at |-> e.at]
        BY <4>2 DEF Event, Content
      <4>5. FactWritten(r)'  BY <3>3, <4>3, <4>4 DEF FactWritten, Content
      <4>6. /\ me[r].attempt = n /\ request[w] <= me[r].at
            /\ \A j \in DOMAIN audit : audit[j].kind = "superseded" => audit[j].attempt <= n
        BY <2>2, <3>1 DEF FreshRun, Attempting, Completing
      <4>7. pc'[r] = "link"  BY <2>4, <3>3
      <4>8. \A j \in DOMAIN audit' : audit'[j].kind = "superseded" => audit'[j].attempt <= n
        BY <4>3, <4>4, <4>6
      <4> QED  BY <2>1, <2>2, <3>1, <3>3, <4>5, <4>6, <4>7, <4>8 DEF FreshRun, Attempting, Completing
    <3> QED  BY <2>20, <3>2, <3>3 DEF AppendFact
  <2>21. CASE Record(r)
    <3> DEFINE m == [me[r] EXCEPT !.verdict = File(r), !.at = 0]
    <3>1. pc[r] = "record" /\ UNCHANGED <<request, receipt, audit, verdict>>  BY <2>21 DEF Record, files
    <3>2. /\ pc'[r] = "note"
          /\ me'[r] = m \/ me'[r] = [m EXCEPT !.kind = "conflict"]
      BY <1>0, <2>4, <2>5, <2>21 DEF Record, Know
    <3>3. me'[r].attempt = me[r].attempt  BY <1>0, <3>2 DEF Knowledge
    <3> QED  BY <2>8, <3>1, <3>2, <3>3 DEF Attempting, Completing
  <2>22. ~LinkReceipt(r)
    <3> SUFFICES ASSUME LinkReceipt(r) PROVE FALSE
      OBVIOUS
    <3> QED  BY <2>2, <2>5 DEF LinkReceipt
  <2>23. ~(Start(r) \/ Issue(r))  BY <2>1 DEF Start, Issue, Working
  <2>24. ~(Contradict(r) \/ Note(r) \/ Die(r))  BY <2>5 DEF Contradict, Note, Die
  <2> QED  BY <2>11, <2>12, <2>13, <2>14, <2>15, <2>16, <2>17, <2>18, <2>19, <2>20, <2>21, <2>22,
              <2>23, <2>24 DEF Delegation
<1> QED  BY <1>1, <1>2

\* What is said of the runs at work while they keep apart stays so.
LEMMA FreshStep ==
  ASSUME FilesOK, RunsOK, AloneInv, NEW r \in Run, Delegation(r)
  PROVE  Fresh'
<1> SUFFICES ASSUME alone'
             PROVE  /\ InOrder'
                    /\ \A q \in Run : me'[q].kind # "conflict" /\ (Working(q)' => FreshRun(q)')
  BY DEF Fresh
<1>0. alone /\ Others(r) /\ Apart'
  BY Moves, CustodyStep, ApartStep DEF AloneInv
<1>1. InOrder'  BY <1>0, InOrderStep
<1>2. ASSUME NEW q \in Run PROVE me'[q].kind # "conflict"
  <2>1. CASE q = r  BY <1>0, <2>1, NoConflictStep
  <2>2. CASE q # r
    <3>1. me'[q] = me[q]  BY <1>0, <2>2 DEF Others
    <3> QED  BY <1>0, <3>1 DEF AloneInv, Fresh
  <2> QED  BY <2>1, <2>2
<1>3. ASSUME NEW q \in Run, Working(q)' PROVE FreshRun(q)'
  <2>1. CASE q = r  BY <1>0, <1>3, <2>1, FreshRunStep
  <2>2. CASE q # r
    <3>1. pc'[q] = pc[q] /\ me'[q] = me[q]  BY <1>0, <2>2 DEF Others
    <3>2. Working(q)  BY <1>3, <3>1 DEF Working
    <3>3. ~Working(r)  BY <1>0, <2>2, <3>2 DEF AloneInv, Apart
    <3>4. UNCHANGED <<request, receipt, verdict, audit>>  BY <3>3, AtRest DEF files
    <3>5. FreshRun(q)  BY <1>0, <3>2 DEF AloneInv, Fresh
    <3>6. FactWritten(q) => FactWritten(q)'  BY <3>1, <3>4 DEF FactWritten, Content
    <3> QED  BY <3>1, <3>4, <3>5, <3>6 DEF FreshRun
  <2> QED  BY <2>1, <2>2
<1> QED  BY <1>1, <1>2, <1>3

\* The receipt that is linked is terminal, and no later run takes that from it.
LEMMA StandsStep ==
  ASSUME FilesOK, RunsOK, AloneInv, NEW r \in Run, Delegation(r)
  PROVE  ReceiptStands'
<1> SUFFICES ASSUME alone', NEW w \in Root, receipt'[w] # None
             PROVE  TerminalReceipt(w)' /\ request'[w] \in 1..receipt'[w].at
  BY DEF ReceiptStands
<1>0. alone  BY Moves
<1>1. CASE ~Working(r)
  <2>1. UNCHANGED <<request, receipt, verdict, audit>>  BY <1>1, AtRest DEF files
  <2>2. TerminalReceipt(w) /\ request[w] \in 1..receipt[w].at
    BY <1>0, <2>1 DEF AloneInv, ReceiptStands
  <2> QED  BY <2>1, <2>2 DEF TerminalReceipt, Logged
<1>2. CASE Working(r)
  <2> DEFINE n == Len(verdict[w])
  <2>1. /\ FreshRun(r) /\ InOrder /\ me[r] \in Knowledge
        /\ \A v \in Root : receipt[v] = None
        /\ \A i \in DOMAIN audit : audit[i] \in Entry
    BY <1>0, <1>2, AtWork
  <2>2. /\ pc[r] = "link" /\ w = me[r].root /\ receipt'[w] = Content(r)
        /\ LinkReceipt(r)
    BY <2>1, ReceiptSteps, Moves
  <2>3. UNCHANGED <<request, verdict, audit>>  BY <2>2 DEF LinkReceipt
  <2>4. /\ me[r].attempt = n /\ FactWritten(r) /\ request[w] <= me[r].at
        /\ \A i \in DOMAIN audit : audit[i].kind = "superseded" => audit[i].attempt <= n
    BY <2>1, <2>2 DEF FreshRun, Attempting, Completing
  <2>5. /\ n \in 1..n /\ n \in Nat
    BY <2>2, <2>4, LenProperties DEF RunsOK, RunOK, Attempting, FilesOK
  <2>6. request[w] # 0 /\ request[w] \in Nat /\ me[r].at \in Nat
    BY <1>2, <2>1, <2>2 DEF AloneInv, RequestFirst, FilesOK, Knowledge
  <2>7. PICK i \in DOMAIN audit :
          /\ audit[i].kind = "completed" /\ audit[i].root = w /\ audit[i].attempt = n
          /\ Content(r) = [verdict |-> audit[i].verdict, at |-> audit[i].at]
    BY <2>2, <2>4 DEF FactWritten
  <2>8. DOMAIN audit = 1..Len(audit) /\ \A j \in DOMAIN audit : audit[j].attempt \in Nat
    BY <2>1, LenProperties DEF FilesOK, Entry
  <2>9. i \in Logged(Len(audit), "completed", n)'  BY <2>3, <2>7, <2>8 DEF Logged
  <2>10. Logged(Len(audit), "superseded", n + 1)' = {}
    BY <2>3, <2>4, <2>5, <2>8 DEF Logged
  <2>11. Logged(Len(audit), "conflict", n)' = {}
    BY <2>1, <2>3, <2>8 DEF Logged, InOrder
  <2>12. TerminalReceipt(w)'
    BY <1>2, <2>2, <2>3, <2>5, <2>7, <2>9, <2>10, <2>11 DEF TerminalReceipt
  <2>13. Content(r).at = me[r].at  BY DEF Content
  <2> QED  BY <2>2, <2>3, <2>4, <2>6, <2>12, <2>13
<1> QED  BY <1>1, <1>2

LEMMA AloneStep ==
  ASSUME FilesOK, RunsOK, AloneInv, [Next]_vars
  PROVE  AloneInv'
<1>1. CASE UNCHANGED custody
  <2>1. UNCHANGED <<request, receipt, verdict, audit, clock, alone, pc, me>>
    BY <1>1 DEF custody, files
  <2>2. RequestFirst' /\ Dated' /\ Apart'
    BY <2>1 DEF AloneInv, RequestFirst, Dated, Apart, Working
  <2>3. ASSUME NEW q \in Run, FreshRun(q) PROVE FreshRun(q)'
    <3>1. FactWritten(q) => FactWritten(q)'  BY <2>1 DEF FactWritten, Content
    <3> QED  BY <2>1, <2>3, <3>1 DEF FreshRun
  <2>4. InOrder => InOrder'  BY <2>1 DEF InOrder
  <2>5. Fresh'  BY <2>1, <2>3, <2>4 DEF AloneInv, Fresh, Working
  <2>6. ReceiptStands'  BY <2>1 DEF AloneInv, ReceiptStands, TerminalReceipt, Logged
  <2> QED  BY <2>2, <2>5, <2>6 DEF AloneInv
<1>2. ASSUME NEW r \in Run, Delegation(r) PROVE AloneInv'
  <2>1. RequestFirst' /\ Dated' /\ Apart'
    BY <1>2, RequestStep, DatedStep, ApartStep DEF AloneInv
  <2>2. Fresh' /\ ReceiptStands'  BY <1>2, FreshStep, StandsStep
  <2> QED  BY <2>1, <2>2 DEF AloneInv
<1> QED  BY <1>1, <1>2, StepSplit

LEMMA AloneInit == Init => AloneInv
<1> SUFFICES ASSUME Init PROVE AloneInv
  OBVIOUS
<1>1. /\ \A w \in Root : request[w] = 0 /\ receipt[w] = None /\ verdict[w] = << >>
      /\ audit = << >> /\ clock = 0
      /\ \A r \in Run : pc[r] = "idle" /\ me[r] = Nothing
  BY DEF Init, CustodyInit
<1>2. DOMAIN audit = {}  BY <1>1
<1>3. \A r \in Run : ~Working(r) /\ me[r].kind = "failed"  BY <1>1 DEF Working, Nothing
<1>4. RequestFirst  BY <1>1, <1>2, <1>3 DEF RequestFirst
<1>5. Dated  BY <1>1 DEF Dated
<1>6. Apart  BY <1>1, <1>3 DEF Apart
<1>7. Fresh  BY <1>2, <1>3 DEF Fresh, InOrder
<1>8. ReceiptStands  BY <1>1 DEF ReceiptStands
<1> QED  BY <1>4, <1>5, <1>6, <1>7, <1>8 DEF AloneInv

LEMMA GateInit == Init => GateInv
<1> SUFFICES ASSUME Init PROVE GateInv
  OBVIOUS
<1>1. /\ \A w \in Root : receipt[w] = None
      /\ \A r \in Run : pc[r] = "idle"
      /\ \A g \in Gate : receipts[g] = {} /\ merged[g] = None /\ step[g] = "idle"
      /\ warned = {}
  BY DEF Init, CustodyInit
<1> QED  BY <1>1 DEF GateInv, ReceiptsOnRecord, ReadStands, MergeInv, FlagInv, Decided

-----------------------------------------------------------------------------
(* Theorems. *)

\* Everything holds a value of its type (review-verdict-custody.ts, review-merge-gate.ts), and
\* the runs know what their next step takes for granted.
LEMMA AllTyped == Spec => []Typed
BY TypedInit, TypedStep, PTL DEF Spec

\* Each variable holds values of its type: an event is never of an unknown kind or of no
\* worktree, and no receipt is of another form than projectReviewVerdict gives it.
THEOREM TypeCorrect == Spec => []TypeOK
BY AllTyped, TypedSuffices, PTL

\* Any number of delegations, in any worktrees, may take attempts and die: one that follows
\* another is on record as superseding it, and what it supersedes had failed, or a receipt
\* was there (beginReviewAttempt).
THEOREM RetriesAreAccounted == Spec => []RetriesAccounted
<1>1. RetryInv => RetriesAccounted
  <2> SUFFICES ASSUME RetryInv, NEW w \in Root, NEW a \in 1..(Len(verdict[w]) - 1)
               PROVE  \E i \in DOMAIN audit :
                        /\ audit[i].kind = "superseded" /\ audit[i].root = w /\ audit[i].attempt = a + 1
                        /\ \/ receipt[w] # None
                           \/ \E j \in 1..(i - 1) : audit[j].kind \in Outcome \cup {"completed"}
                                                    /\ audit[j].root = w /\ audit[j].attempt = a
    BY DEF RetriesAccounted
  <2>1. (a + 1) - 1 = a  OBVIOUS
  <2>2. Accounted(w, a + 1)  BY DEF RetryInv
  <2> QED  BY <2>1, <2>2 DEF Accounted, Settled
<1>2. Init => RetryInv  BY RetryInit
<1>3. Typed /\ RetryInv /\ [Next]_vars => RetryInv'  BY RetryStep DEF Typed
<1> QED  BY <1>1, <1>2, <1>3, AllTyped, PTL DEF Spec

\* The receipts and what the gate has made of them.
LEMMA GateSound == Spec => []GateInv
<1>1. Typed /\ GateInv /\ [Next]_vars => GateInv'
  BY ReceiptsStep, ReadStep, MergeStep, FlagStep DEF Typed, GateInv
<1> QED  BY <1>1, GateInit, AllTyped, PTL DEF Spec

\* However the branch moves between the two views, the decision and the merge, what is merged
\* is the head of the intent, of which a worktree holds a PASS that is on record
\* (evaluateMergeGate, runPrMerge).
THEOREM GateMergesReviewed == Spec => []MergedReviewed
<1>1. GateInv => MergedReviewed  BY DEF GateInv, MergeInv, MergedReviewed, Passed
<1> QED  BY <1>1, GateSound, PTL

\* A FLAG that is there when receipts begin to be read stops that merge, in whichever worktree
\* it is and however many PASS there are beside it (analyzeRequest, loadReviewInputs).
THEOREM FlagStopsMerge == Spec => []FlagBlocks
<1>1. GateInv => FlagBlocks  BY DEF GateInv, FlagInv, FlagBlocks
<1> QED  BY <1>1, GateSound, PTL

\* While one run follows another in one worktree, wherever each of them dies, a receipt that
\* has been linked stays terminal and is never older than its request
\* (hasTerminalReviewReceipt, issueReviewRequest).
THEOREM ReceiptIsKept == Spec => []ReceiptStands
<1>1. Typed /\ AloneInv /\ [Next]_vars => AloneInv'  BY AloneStep DEF Typed
<1>2. AloneInv => ReceiptStands  BY DEF AloneInv
<1> QED  BY <1>1, <1>2, AloneInit, AllTyped, PTL DEF Spec
=============================================================================
