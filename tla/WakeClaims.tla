----------------------------- MODULE WakeClaims -----------------------------
(***************************************************************************)
(* The inbox of the wake watchers (src/runtime/claude-memory-wake.ts).  A  *)
(* publisher puts an entry into the inbox beside a sidecar, the binding    *)
(* that says for whom it is.  A watcher is started by a Stop hook; it      *)
(* prunes the week-old files, activates its generation, polls the inbox    *)
(* and, as long as it has the authority, claims an entry by creating its   *)
(* claim file, leaves a terminal marker as evidence and removes the        *)
(* sidecar and the entry before it delivers the message and ends.  Claims, *)
(* markers and entries are separate files: nothing keeps publishers,       *)
(* watchers, their pruning and the recovery at SessionStart apart but the  *)
(* exclusive creation of a file.                                           *)
(***************************************************************************)
EXTENDS Naturals, FiniteSets

CONSTANTS
  Watcher,    \* runs of the wake hook
  Publisher,  \* runs of a publication
  Entry,      \* inbox entries
  EntryOf,    \* the entry of each publisher: the same operation may be sent again
  For,        \* the watchers of the session that each entry is bound to
  Review,     \* entries that a pull request's state can settle
  None,       \* no entry, no watcher
  Weeks,      \* bound: how often the retention time passes
  Faults      \* bound: processes that die

ASSUME WakeClaimsAssumption ==
  /\ EntryOf \in [Publisher -> Entry]
  /\ For \in [Entry -> SUBSET Watcher]
  /\ Review \subseteq Entry
  /\ None \notin Entry \cup Watcher
  /\ Weeks \in Nat /\ Faults \in Nat

VARIABLES
  inbox,      \* entries in the inbox
  bound,      \* entries whose sidecar is there
  claim,      \* the claim file of each entry: an empty one has no owner to read
  terminal,   \* entries with a terminal marker
  old,        \* files past the retention time
  authority,  \* the watcher whose generation is in effect
  former,     \* the one that a rollback of the latest activation puts back
  pc,         \* next step of each watcher
  hand,       \* the entry each watcher claims
  known,      \* entries that were claimed or settled when the watcher looked
  listed,     \* entries it found in the inbox
  skip,       \* entries it has given up for good
  todo,       \* old files it is about to prune
  pub,        \* next step of each publisher
  weeks, faults,
  delivered,  \* history: how often each entry was delivered
  again,      \* history: delivered entries that were sent again when nothing
              \* reminded of them any more
  crossed,    \* history: entries whose sidecar a publisher removed though there was no
              \* marker, or one that the retention may remove
  held        \* history: watchers that had the authority while their claim was open

files == <<inbox, bound, claim, terminal, old>>
grant == <<authority, former>>
mind == <<hand, known, listed, skip, todo>>
bounds == <<weeks, faults>>
history == <<delivered, again, crossed, held>>
vars == <<files, grant, pc, mind, pub, bounds, history>>

Kind == {"claim", "terminal", "inbox"}
Over == {"superseded", "denied", "timeout", "delivered", "crashed"}
Claiming == {"recheck", "withdraw", "write"}       \* the claim file is still empty
Claimed == {"mark", "unbind", "unlist"}             \* it is written
PC == {"idle", "pruneRoot", "pruneInbox", "activate", "activating", "poll", "list",
       "choose", "check", "open"} \cup Claiming \cup Claimed \cup Over
PubOver == {"confirmed", "pending", "failed", "crashed"}

\* Each variable holds values of its type.
TypeOK ==
  /\ inbox \subseteq Entry /\ bound \subseteq Entry /\ terminal \subseteq Entry
  /\ claim \in [Entry -> {"none", "empty", "written"}]
  /\ old \subseteq Entry \X Kind
  /\ authority \in Watcher \cup {None} /\ former \in Watcher \cup {None}
  /\ pc \in [Watcher -> PC]
  /\ hand \in [Watcher -> Entry \cup {None}]
  /\ known \in [Watcher -> SUBSET Entry] /\ listed \in [Watcher -> SUBSET Entry]
  /\ skip \in [Watcher -> SUBSET Entry] /\ todo \in [Watcher -> SUBSET (Entry \X Kind)]
  /\ pub \in [Publisher -> {"idle", "unbind", "bind", "look", "create"} \cup PubOver]
  /\ weeks \in Nat /\ faults \in Nat
  /\ delivered \in [Entry -> Nat]
  /\ again \subseteq Entry /\ crossed \subseteq Entry /\ held \subseteq Watcher

Init ==
  /\ inbox = {} /\ bound = {} /\ terminal = {} /\ old = {}
  /\ claim = [e \in Entry |-> "none"]
  /\ authority = None /\ former = None
  /\ pc = [w \in Watcher |-> "idle"]
  /\ hand = [w \in Watcher |-> None]
  /\ known = [w \in Watcher |-> {}] /\ listed = [w \in Watcher |-> {}]
  /\ skip = [w \in Watcher |-> {}] /\ todo = [w \in Watcher |-> {}]
  /\ pub = [p \in Publisher |-> "idle"]
  /\ weeks = 0 /\ faults = 0
  /\ delivered = [e \in Entry |-> 0]
  /\ again = {} /\ crossed = {} /\ held = {}

-----------------------------------------------------------------------------
(* Publication. *)

Send(p, l) == pub' = [pub EXCEPT ![p] = l]

\* A claim file of whatever content means that the entry has been claimed.
Publish(p) ==
  /\ pub[p] = "idle"
  /\ Send(p, IF claim[EntryOf[p]] # "none" THEN "unbind" ELSE "bind")
  /\ UNCHANGED <<files, grant, pc, mind, bounds, history>>

Evident(e) == e \in terminal /\ <<e, "terminal">> \notin old

\* The sidecar of a claimed entry goes, and the delivery is reported as confirmed.
RemoveBinding(p) ==
  /\ pub[p] = "unbind"
  /\ bound' = bound \ {EntryOf[p]}
  /\ crossed' = IF Evident(EntryOf[p]) THEN crossed ELSE crossed \cup {EntryOf[p]}
  /\ Send(p, "confirmed")
  /\ UNCHANGED <<inbox, claim, terminal, old, grant, pc, mind, bounds, delivered, again, held>>

WriteBinding(p) ==
  /\ pub[p] = "bind"
  /\ bound' = bound \cup {EntryOf[p]}
  /\ Send(p, "look")
  /\ UNCHANGED <<inbox, claim, terminal, old, grant, pc, mind, bounds, history>>

LookForEntry(p) ==
  /\ pub[p] = "look"
  /\ Send(p, IF EntryOf[p] \in inbox THEN "pending" ELSE "create")
  /\ UNCHANGED <<files, grant, pc, mind, bounds, history>>

\* The file is created exclusively; the entry may have been claimed since.
CreateEntry(p) ==
  /\ pub[p] = "create"
  /\ LET e == EntryOf[p]
     IN  \/ /\ e \notin inbox
            /\ inbox' = inbox \cup {e}
            /\ old' = old \ {<<e, "inbox">>}
            /\ again' = IF delivered[e] > 0 /\ claim[e] = "none" /\ e \notin terminal
                        THEN again \cup {e} ELSE again
            /\ Send(p, "pending")
         \/ e \in inbox /\ Send(p, "failed") /\ UNCHANGED <<inbox, old, again>>
  /\ UNCHANGED <<bound, claim, terminal, grant, pc, mind, bounds, delivered, crossed, held>>

-----------------------------------------------------------------------------
(* A watcher prunes, then activates. *)

Goto(w, l) == pc' = [pc EXCEPT ![w] = l]

Exists(e, k) ==
  CASE k = "claim" -> claim[e] # "none"
    [] k = "terminal" -> e \in terminal
    [] k = "inbox" -> e \in inbox

Start(w) ==
  /\ pc[w] = "idle"
  /\ todo' = [todo EXCEPT ![w] = {x \in old : x[2] # "inbox"}]
  /\ Goto(w, "pruneRoot")
  /\ UNCHANGED <<files, grant, hand, known, listed, skip, pub, bounds, history>>

\* Mutant: terminal markers go by their age alone.
ExpiredByAge(e, k) == <<e, k>> \in old

\* A terminal marker stays as long as the entry it suppresses is in the inbox.
Expired(e, k) == <<e, k>> \in old /\ (k = "terminal" => e \notin inbox)

Prune(w, e, k) ==
  /\ pc[w] \in {"pruneRoot", "pruneInbox"} /\ <<e, k>> \in todo[w]
  /\ todo' = [todo EXCEPT ![w] = @ \ {<<e, k>>}]
  /\ \/ /\ Expired(e, k)
        /\ old' = old \ {<<e, k>>}
        /\ claim' = IF k = "claim" THEN [claim EXCEPT ![e] = "none"] ELSE claim
        /\ terminal' = IF k = "terminal" THEN terminal \ {e} ELSE terminal
        /\ inbox' = IF k = "inbox" THEN inbox \ {e} ELSE inbox
     \/ ~Expired(e, k) /\ UNCHANGED <<old, claim, terminal, inbox>>
  /\ UNCHANGED <<bound, grant, pc, hand, known, listed, skip, pub, bounds, history>>

\* The inbox is listed after the claims and markers have been swept.
PruneOn(w) ==
  /\ todo[w] = {}
  /\ \/ /\ pc[w] = "pruneRoot"
        /\ todo' = [todo EXCEPT ![w] = {x \in old : x[2] = "inbox"}]
        /\ Goto(w, "pruneInbox")
     \/ pc[w] = "pruneInbox" /\ Goto(w, "activate") /\ UNCHANGED todo
  /\ UNCHANGED <<files, grant, hand, known, listed, skip, pub, bounds, history>>

\* The activation as the claims see it (module WakeActivation, activations that do not
\* overlap): nobody has the authority while it lasts.
BeginActivation(w) ==
  /\ pc[w] = "activate"
  /\ \A v \in Watcher : pc[v] # "activating"
  /\ authority # None \/ former = None
  /\ former' = authority /\ authority' = None
  /\ Goto(w, "activating")
  /\ UNCHANGED <<files, mind, pub, bounds, history>>

Activate(w) ==
  /\ pc[w] = "activating"
  /\ authority' = w
  /\ Goto(w, "poll")
  /\ UNCHANGED <<files, former, mind, pub, bounds, history>>

\* An activation that died is rolled back by the next one, and its predecessor, which
\* may still be running, has the authority again.
RollBack(w) ==
  /\ pc[w] = "activate"
  /\ \A v \in Watcher : pc[v] # "activating"
  /\ authority = None /\ former # None
  /\ authority' = former
  /\ held' = IF pc[former] \in Claiming THEN held \cup {former} ELSE held
  /\ UNCHANGED <<files, former, pc, mind, pub, bounds, delivered, again, crossed>>

-----------------------------------------------------------------------------
(* The loop of a watcher. *)

\* Claims that can be read, then markers.  An empty claim is not among them.
Poll(w) ==
  /\ pc[w] = "poll"
  /\ \/ /\ authority = w
        /\ known' = [known EXCEPT ![w] =
             {e \in Entry : claim[e] = "written"} \cup terminal \cup skip[w]]
        /\ Goto(w, "list")
     \/ authority # w /\ Goto(w, "superseded") /\ UNCHANGED known
  /\ UNCHANGED <<files, grant, hand, listed, skip, todo, pub, bounds, history>>

Timeout(w) ==
  /\ pc[w] = "poll"
  /\ Goto(w, "timeout")
  /\ UNCHANGED <<files, grant, mind, pub, bounds, history>>

ReadInbox(w) ==
  /\ pc[w] = "list"
  /\ listed' = [listed EXCEPT ![w] = inbox]
  /\ Goto(w, "choose")
  /\ UNCHANGED <<files, grant, hand, known, skip, todo, pub, bounds, history>>

\* A marker that is there already is left as it is.
Mark(e) ==
  /\ terminal' = terminal \cup {e}
  /\ old' = IF e \in terminal THEN old ELSE old \ {<<e, "terminal">>}

\* The pull request of a listed review has been merged or closed, or has moved on.
Terminate(w, e) ==
  /\ pc[w] = "choose" /\ e \in (listed[w] \cap Review) \ known[w]
  /\ Mark(e)
  /\ known' = [known EXCEPT ![w] = @ \cup {e}]
  /\ UNCHANGED <<inbox, bound, claim, grant, pc, hand, listed, skip, todo, pub, bounds, history>>

\* An entry without its sidecar ends the watcher; one for another session is passed over.
Choose(w, e) ==
  /\ pc[w] = "choose" /\ e \in listed[w] \ known[w]
  /\ \/ /\ e \notin bound
        /\ Goto(w, "denied")
        /\ UNCHANGED <<hand, known, skip>>
     \/ /\ e \in bound /\ w \notin For[e]
        /\ known' = [known EXCEPT ![w] = @ \cup {e}]
        /\ skip' = [skip EXCEPT ![w] = @ \cup {e}]
        /\ UNCHANGED <<pc, hand>>
     \/ /\ e \in bound /\ w \in For[e]
        /\ hand' = [hand EXCEPT ![w] = e]
        /\ Goto(w, "check")
        /\ UNCHANGED <<known, skip>>
  /\ UNCHANGED <<files, grant, listed, todo, pub, bounds, history>>

Sleep(w) ==
  /\ pc[w] = "choose" /\ listed[w] \subseteq known[w]
  /\ Goto(w, "poll")
  /\ UNCHANGED <<files, grant, mind, pub, bounds, history>>

\* What is not claimed now is never tried again by this watcher.
GiveUp(w) ==
  /\ known' = [known EXCEPT ![w] = @ \cup {hand[w]}]
  /\ skip' = [skip EXCEPT ![w] = @ \cup {hand[w]}]
  /\ hand' = [hand EXCEPT ![w] = None]
  /\ Goto(w, "choose")

\* The authority is the watcher's, and the sidecar is there.
Entitled(w) == authority = w /\ hand[w] \in bound

ClaimCheck(w) ==
  /\ pc[w] = "check"
  /\ \/ Entitled(w) /\ Goto(w, "open") /\ UNCHANGED mind
     \/ ~Entitled(w) /\ GiveUp(w) /\ UNCHANGED <<listed, todo>>
  /\ UNCHANGED <<files, grant, pub, bounds, history>>

\* Mutant: the claim file is opened whether it is there or not.
OpenTruncating(w) ==
  /\ pc[w] = "open"
  /\ claim' = [claim EXCEPT ![hand[w]] = "empty"]
  /\ old' = old \ {<<hand[w], "claim">>}
  /\ held' = IF authority = w THEN held \cup {w} ELSE held
  /\ Goto(w, "recheck")
  /\ UNCHANGED <<inbox, bound, terminal, grant, mind, pub, bounds, delivered, again, crossed>>

OpenClaim(w) ==
  /\ pc[w] = "open"
  /\ \/ /\ claim[hand[w]] = "none"
        /\ claim' = [claim EXCEPT ![hand[w]] = "empty"]
        /\ old' = old \ {<<hand[w], "claim">>}
        /\ held' = IF authority = w THEN held \cup {w} ELSE held
        /\ Goto(w, "recheck")
        /\ UNCHANGED mind
     \/ /\ claim[hand[w]] # "none" /\ GiveUp(w)
        /\ UNCHANGED <<claim, old, held, listed, todo>>
  /\ UNCHANGED <<inbox, bound, terminal, grant, pub, bounds, delivered, again, crossed>>

\* Mutant: the authority is not looked at again.
RecheckSidecar(w) ==
  /\ pc[w] = "recheck"
  /\ Goto(w, IF hand[w] \in bound THEN "write" ELSE "withdraw")
  /\ UNCHANGED <<files, grant, mind, pub, bounds, history>>

Recheck(w) ==
  /\ pc[w] = "recheck"
  /\ Goto(w, IF Entitled(w) THEN "write" ELSE "withdraw")
  /\ UNCHANGED <<files, grant, mind, pub, bounds, history>>

\* Mutant: the claim file is closed but not removed.
WithdrawClosed(w) ==
  /\ pc[w] = "withdraw"
  /\ GiveUp(w)
  /\ UNCHANGED <<files, grant, listed, todo, pub, bounds, history>>

Withdraw(w) ==
  /\ pc[w] = "withdraw"
  /\ claim' = [claim EXCEPT ![hand[w]] = "none"]
  /\ old' = old \ {<<hand[w], "claim">>}
  /\ GiveUp(w)
  /\ UNCHANGED <<inbox, bound, terminal, grant, listed, todo, pub, bounds, history>>

WriteClaim(w) ==
  /\ pc[w] = "write"
  /\ claim' = [claim EXCEPT ![hand[w]] = "written"]
  /\ Goto(w, "mark")
  /\ UNCHANGED <<inbox, bound, terminal, old, grant, mind, pub, bounds, history>>

\* Mutant: the claim file is taken for evidence enough.
MarkNothing(w) ==
  /\ pc[w] = "mark"
  /\ Goto(w, "unbind")
  /\ UNCHANGED <<files, grant, mind, pub, bounds, history>>

MarkClaimed(w) ==
  /\ pc[w] = "mark"
  /\ Mark(hand[w])
  /\ Goto(w, "unbind")
  /\ UNCHANGED <<inbox, bound, claim, grant, mind, pub, bounds, history>>

Unbind(w) ==
  /\ pc[w] = "unbind"
  /\ bound' = bound \ {hand[w]}
  /\ Goto(w, "unlist")
  /\ UNCHANGED <<inbox, claim, terminal, old, grant, mind, pub, bounds, history>>

\* The entry is removed if it can be; the message is delivered either way.
Deliver(w) ==
  /\ pc[w] = "unlist"
  /\ \/ inbox' = inbox \ {hand[w]} /\ old' = old \ {<<hand[w], "inbox">>}
     \/ UNCHANGED <<inbox, old>>
  /\ delivered' = [delivered EXCEPT ![hand[w]] = @ + 1]
  /\ Goto(w, "delivered")
  /\ UNCHANGED <<bound, claim, terminal, grant, mind, pub, bounds, again, crossed, held>>

-----------------------------------------------------------------------------
(* Recovery at SessionStart, faults and time. *)

\* An entry that is claimed, or whose pull request is settled, gets its marker.
Recover(e) ==
  /\ e \in inbox \ terminal
  /\ claim[e] = "written" \/ e \in Review
  /\ Mark(e)
  /\ UNCHANGED <<inbox, bound, claim, grant, pc, mind, pub, bounds, history>>

Crash ==
  /\ faults < Faults
  /\ faults' = faults + 1
  /\ \/ \E w \in Watcher :
          pc[w] \notin Over \cup {"idle"} /\ Goto(w, "crashed") /\ UNCHANGED pub
     \/ \E p \in Publisher :
          pub[p] \notin PubOver \cup {"idle"} /\ Send(p, "crashed") /\ UNCHANGED pc
  /\ UNCHANGED <<files, grant, mind, weeks, history>>

\* No process of the wake lives for a week.
Week ==
  /\ weeks < Weeks
  /\ \A w \in Watcher : pc[w] \in Over \cup {"idle"}
  /\ \A p \in Publisher : pub[p] \in PubOver \cup {"idle"}
  /\ old' = {x \in Entry \X Kind : Exists(x[1], x[2])}
  /\ weeks' = weeks + 1
  /\ UNCHANGED <<inbox, bound, claim, terminal, grant, pc, mind, pub, faults, history>>

Publication(p) ==
  Publish(p) \/ RemoveBinding(p) \/ WriteBinding(p) \/ LookForEntry(p) \/ CreateEntry(p)

Watch(w) ==
  \/ Start(w) \/ PruneOn(w) \/ BeginActivation(w) \/ Activate(w) \/ RollBack(w)
  \/ Poll(w) \/ Timeout(w) \/ ReadInbox(w) \/ Sleep(w)
  \/ ClaimCheck(w) \/ OpenClaim(w) \/ Recheck(w) \/ Withdraw(w) \/ WriteClaim(w)
  \/ MarkClaimed(w) \/ Unbind(w) \/ Deliver(w)
  \/ \E e \in Entry : Terminate(w, e) \/ Choose(w, e) \/ \E k \in Kind : Prune(w, e, k)

Next ==
  \/ \E p \in Publisher : Publication(p)
  \/ \E w \in Watcher : Watch(w)
  \/ \E e \in Entry : Recover(e)
  \/ Crash \/ Week

Spec == Init /\ [][Next]_vars
-----------------------------------------------------------------------------
(* Properties. *)

\* An entry is delivered at most once, by whichever watcher, unless it is sent again
\* when both its claim and its marker are past the retention and gone
\* (claude-memory-wake.ts: waitForClaudeMemory, pruneRuntimeFiles).
DeliveredOnce == \A e \in Entry \ again : delivered[e] <= 1

\* What watchers, publishers and their files promise together (WakeInbox): an accepted
\* entry is claimed by one watcher of its session at a time, and by nobody once it is
\* delivered, unless it is sent again as above (claude-memory-wake.ts:
\* publishClaudeInboxEntry, claim, waitForClaudeMemory).
Mailbox == INSTANCE WakeInbox WITH
             sent <- {EntryOf[p] : p \in {q \in Publisher : pub[q] = "pending"}},
             claimants <- [e \in Entry |->
                             {w \in Watcher : hand[w] = e /\ pc[w] \in Claiming \cup Claimed}]
InboxSpec == Mailbox!Spec

\* "Only after [the terminal marker] is present may the independent expectation sidecar
\* be retired": an entry in the inbox has its sidecar or its marker, wherever watchers
\* and publishers die, unless a repeated publication met a claim without lasting evidence
\* (claude-memory-wake.ts: publishClaudeInboxEntry, waitForClaudeMemory).
EvidenceFirst == \A e \in inbox \ crossed : e \in bound \cup terminal

\* Until a week has passed, an entry that was accepted is in the inbox or there is
\* evidence of what became of it, wherever watchers die (claude-memory-wake.ts:
\* publishClaudeInboxEntry, waitForClaudeMemory, recoverClaudeInboxBacklog).
NothingVanishes == weeks = 0 => \A p \in Publisher :
  pub[p] = "pending" => EntryOf[p] \in inbox \cup terminal

\* Of two watchers at most one claims an entry; its claim file stays until it withdraws
\* or ends; and an empty claim file, which nobody can tell from a broken one and nobody
\* but the retention removes, is that of a watcher still at it or of one that died
\* (claude-memory-wake.ts: claim).
ClaimHeld ==
  /\ \A w \in Watcher : pc[w] \in Claiming => claim[hand[w]] = "empty"
  /\ \A w \in Watcher : pc[w] \in Claimed => claim[hand[w]] = "written"
  /\ \A w, v \in Watcher : pc[w] \in Claiming \cup Claimed /\ pc[v] \in Claiming \cup Claimed
       /\ hand[w] = hand[v] => w = v
  /\ \A e \in Entry : claim[e] = "empty" =>
       \E w \in Watcher : hand[w] = e /\ pc[w] \in Claiming \cup {"crashed"}

\* A watcher whose authority was revoked before it opened its claim, and is not given
\* back while the claim is open, delivers nothing (claude-memory-wake.ts: claim).
RevokedDeliversNothing == \A w \in Watcher : pc[w] \in Claimed \cup {"write", "delivered"} => w \in held
=============================================================================
