----------------------------- MODULE ReviewGate -----------------------------
(***************************************************************************)
(* The merge gate (src/feedback/review-merge-gate.ts, review-dispatch.ts)  *)
(* beside the delegations of module ReviewCustody.  A run of the gate      *)
(* looks at the pull request twice, collects the requests and then the     *)
(* receipts of all worktrees, decides, writes its intent, has GitHub merge *)
(* exactly the head it has looked at, and writes the result.  Meanwhile    *)
(* requests are issued again, receipts appear and the branch moves.  A run *)
(* that dies takes no further step.                                        *)
(***************************************************************************)
EXTENDS ReviewCustody

CONSTANTS
  Gate      \* runs of the merge command

ASSUME ReviewGateAssumption == None \notin {"reviewed", "other"}

VARIABLES
  head,     \* the head of the branch: the one that the requests name, or another
  step,     \* next step of each run of the gate
  now,      \* the time it takes for the present
  left,     \* worktrees whose files it has still to read
  requests, receipts,  \* what it has read
  log,      \* the log of the gate: its intents and what became of them
  merged,   \* history: the head that each run of the gate has merged
  warned    \* history: runs that began to read receipts when one said FLAG

reading == <<now, left, requests, receipts>>
gate == <<head, step, reading, log, merged, warned>>
vars == <<custody, gate>>

Heads == {"reviewed", "other"}

\* Each variable holds values of its type.
TypeOK ==
  /\ request \in [Root -> Nat] /\ receipt \in [Root -> Receipt \cup {None}]
  /\ verdict \in [Root -> Seq(Verdict \cup {"none", "bad"})]
  /\ \A i \in DOMAIN audit : audit[i].kind \in Kind /\ audit[i].root \in Root
  /\ temp \in [Root -> SUBSET Run] /\ clock \in Nat
  /\ head \in Heads
  /\ step \in [Gate -> {"idle", "view", "requests", "receipts", "evaluate", "intent", "merge",
                        "merged", "failed", "over"}]
  /\ now \in [Gate -> Nat] /\ left \in [Gate -> SUBSET Root]
  /\ requests \in [Gate -> SUBSET Nat] /\ receipts \in [Gate -> SUBSET Receipt]
  /\ log \subseteq Gate \X {"intent", "merge", "merge_failed"}
  /\ merged \in [Gate -> Heads \cup {None}] /\ warned \subseteq Gate

Init ==
  /\ CustodyInit
  /\ head = "reviewed"
  /\ step = [g \in Gate |-> "idle"]
  /\ now = [g \in Gate |-> 0] /\ left = [g \in Gate |-> {}]
  /\ requests = [g \in Gate |-> {}] /\ receipts = [g \in Gate |-> {}]
  /\ log = {}
  /\ merged = [g \in Gate |-> None] /\ warned = {}

To(g, l) == step' = [step EXCEPT ![g] = l]

\* What a run has read is of no use once it has decided.
Forget(g) ==
  /\ now' = [now EXCEPT ![g] = 0] /\ left' = [left EXCEPT ![g] = {}]
  /\ requests' = [requests EXCEPT ![g] = {}] /\ receipts' = [receipts EXCEPT ![g] = {}]

\* A refusal is logged too; nothing is said of those.
Deny(g) == To(g, "over") /\ Forget(g) /\ UNCHANGED log

-----------------------------------------------------------------------------
(* GitHub.  The branch moves; what that means counts while a run of the gate is under way. *)

Push ==
  /\ \E g \in Gate : step[g] \notin {"idle", "over"}
  /\ head' \in Heads \ {head}
  /\ UNCHANGED <<custody, step, reading, log, merged, warned>>

-----------------------------------------------------------------------------
(* A run of the gate. *)

\* The present is taken to be the moment before GitHub is asked.
FirstView(g) ==
  /\ step[g] = "idle"
  /\ \/ /\ head = "reviewed"
        /\ To(g, "view")
        /\ now' = [now EXCEPT ![g] = clock]
        /\ UNCHANGED <<left, requests, receipts, log>>
     \/ Deny(g)                                   \* the head has no request; gh fails
  /\ UNCHANGED <<custody, head, merged, warned>>

\* State and checks are those of the second view, the head must be that of both.  The pull
\* request may also have been closed or merged by hand, or its checks may not be green.
SecondView(g) ==
  /\ step[g] = "view"
  /\ \/ /\ head = "reviewed"
        /\ To(g, "requests")
        /\ left' = [left EXCEPT ![g] = Root]
        /\ UNCHANGED <<now, requests, receipts, log>>
     \/ Deny(g)
  /\ UNCHANGED <<custody, head, merged, warned>>

\* The requests of all worktrees are read before the first receipt is.
ReadRequests(g, w) ==
  /\ step[g] = "requests" /\ w \in left[g]
  /\ requests' = [requests EXCEPT ![g] = @ \cup ({request[w]} \ {0})]
  /\ \/ left[g] # {w} /\ left' = [left EXCEPT ![g] = @ \ {w}] /\ UNCHANGED <<step, warned>>
     \/ /\ left[g] = {w}
        /\ left' = [left EXCEPT ![g] = Root]
        /\ warned' = IF \E v \in Root : receipt[v] # None /\ receipt[v].verdict = "FLAG"
                     THEN warned \cup {g} ELSE warned
        /\ To(g, "receipts")
  /\ UNCHANGED <<custody, head, now, receipts, log, merged>>

\* Mutant: the receipts of one worktree are enough.
ReadOneRoot(g, w) ==
  /\ step[g] = "receipts" /\ w \in left[g]
  /\ receipts' = [receipts EXCEPT ![g] = @ \cup ({receipt[w]} \ {None})]
  /\ left' = [left EXCEPT ![g] = {}]
  /\ To(g, "evaluate")
  /\ UNCHANGED <<custody, head, now, requests, log, merged, warned>>

ReadReceipts(g, w) ==
  /\ step[g] = "receipts" /\ w \in left[g]
  /\ receipts' = [receipts EXCEPT ![g] = @ \cup ({receipt[w]} \ {None})]
  /\ left' = [left EXCEPT ![g] = @ \ {w}]
  /\ IF left[g] = {w} THEN To(g, "evaluate") ELSE UNCHANGED step
  /\ UNCHANGED <<custody, head, now, requests, log, merged, warned>>

\* The same request in several worktrees counts as the earliest of them; two receipts of it
\* contradict each other; none may be older than the request, nothing be of the future.
MergeReady(g) ==
  /\ \A t \in requests[g] : t <= now[g]
  /\ \E c \in receipts[g] :
       /\ receipts[g] = {c} /\ c.verdict = "PASS" /\ c.at <= now[g]
       /\ \E t \in requests[g] : t <= c.at

Evaluate(g) ==
  /\ step[g] = "evaluate"
  /\ \/ MergeReady(g) /\ To(g, "intent") /\ Forget(g) /\ UNCHANGED log
     \/ ~MergeReady(g) /\ Deny(g)
  /\ UNCHANGED <<custody, head, merged, warned>>

WriteIntent(g) ==
  /\ step[g] = "intent"
  /\ \/ To(g, "merge") /\ log' = log \cup {<<g, "intent">>} /\ UNCHANGED reading
     \/ Deny(g)                                   \* it cannot be written
  /\ UNCHANGED <<custody, head, merged, warned>>

\* Mutant: whatever the head is by now.
MergeHead(g) ==
  /\ step[g] = "merge"
  /\ \/ /\ \A h \in Gate : merged[h] = None
        /\ merged' = [merged EXCEPT ![g] = head]
        /\ To(g, "merged") \/ To(g, "failed")
     \/ To(g, "merged") /\ UNCHANGED merged
     \/ To(g, "failed") /\ UNCHANGED merged
  /\ UNCHANGED <<custody, head, reading, log, warned>>

\* GitHub merges the head that was decided on or none.  The answer may be lost, and what
\* GitHub says of a pull request that has been merged otherwise is left open.
Merge(g) ==
  /\ step[g] = "merge"
  /\ \/ /\ head = "reviewed" /\ \A h \in Gate : merged[h] = None
        /\ merged' = [merged EXCEPT ![g] = head]
        /\ To(g, "merged") \/ To(g, "failed")
     \/ To(g, "merged") /\ UNCHANGED merged
     \/ To(g, "failed") /\ UNCHANGED merged
  /\ UNCHANGED <<custody, head, reading, log, warned>>

WriteResult(g) ==
  /\ step[g] \in {"merged", "failed"}
  /\ \/ log' = log \cup {<<g, IF step[g] = "merged" THEN "merge" ELSE "merge_failed">>}
     \/ UNCHANGED log                            \* it cannot be written
  /\ To(g, "over")
  /\ UNCHANGED <<custody, head, reading, merged, warned>>

Merging(g) ==
  \/ FirstView(g) \/ SecondView(g) \/ Evaluate(g) \/ WriteIntent(g) \/ Merge(g)
  \/ WriteResult(g)
  \/ \E w \in Root : ReadRequests(g, w) \/ ReadReceipts(g, w)

Next ==
  \/ \E r \in Run : Delegation(r) /\ UNCHANGED gate
  \/ \E g \in Gate : Merging(g)
  \/ Push

Spec == Init /\ [][Next]_vars
-----------------------------------------------------------------------------
(* Properties. *)

\* What the gate merges is the head that its intent names, of which a worktree holds a
\* PASS that is on record as the completion of one of its attempts, however late the branch
\* moves and whoever dies or cannot write (review-merge-gate.ts: evaluateMergeGate,
\* runPrMerge; review-attestation.ts: writeStrictReceiptWithCompletion).
MergedReviewed == \A g \in Gate : merged[g] # None =>
  /\ merged[g] = "reviewed" /\ <<g, "intent">> \in log
  /\ \E w \in Root, i \in DOMAIN audit :
       /\ audit[i].kind = "completed" /\ audit[i].root = w
       /\ receipt[w] = [verdict |-> "PASS", at |-> audit[i].at]

\* A FLAG that a worktree holds when the gate begins to read receipts stops the merge, with
\* whatever else it is there and whoever issues the request again (review-dispatch.ts:
\* analyzeRequest; review-merge-gate.ts: reviewInputRoots, loadReviewInputs).
FlagBlocks == \A g \in warned : merged[g] = None

\* An attempt is followed by another one only on record, and only when it had come to an
\* outcome of its own or a receipt was there: never because its run may be dead
\* (review-verdict-custody.ts: beginReviewAttempt).
RetriesAccounted == \A w \in Root : \A a \in 1..(Len(verdict[w]) - 1) :
  \E i \in DOMAIN audit :
    /\ audit[i].kind = "superseded" /\ audit[i].root = w /\ audit[i].attempt = a + 1
    /\ \/ receipt[w] # None
       \/ \E j \in 1..(i - 1) : audit[j].kind \in Outcome \cup {"completed"}
                                /\ audit[j].root = w /\ audit[j].attempt = a

\* "A rejected retry must not invalidate a valid receipt by changing the request file": while
\* one run follows another in one worktree, wherever they die, a receipt is terminal and no
\* older than the request (review-verdict-custody.ts: hasTerminalReviewReceipt;
\* review-attestation.ts: issueReviewRequest).
ReceiptStands == alone => \A w \in Root : receipt[w] # None =>
  TerminalReceipt(w) /\ request[w] \in 1..receipt[w].at
=============================================================================
