--------------------------- MODULE WakeActivation ---------------------------
(***************************************************************************)
(* The activation of a wake generation                                     *)
(* (src/runtime/claude-wake-generation-upgrade.ts).  Every Stop hook of a  *)
(* session starts a watcher, which makes itself the only authority to      *)
(* claim inbox entries: it writes a journal, puts the marker and the       *)
(* profile of its predecessor aside and writes its own marker, profile and *)
(* authority record.  A watcher may die between any two of these files;    *)
(* the next one reconciles the journals first.  Nothing keeps two          *)
(* activations apart.  Every action is one operation on a shared file.     *)
(***************************************************************************)
EXTENDS Naturals, FiniteSets

CONSTANTS
  Watcher,   \* watchers; each has a generation of its own
  Session,   \* sessions, which name the marker and profile files
  Of,        \* the session of each watcher
  None       \* no watcher, no session, no grant

ASSUME WakeActivationAssumption ==
  /\ IsFiniteSet(Watcher)
  /\ Of \in [Watcher -> Session]
  /\ None \notin Watcher \cup Session

\* What a profile and an authority record say: a generation and its epoch.
Grant == [generation : Watcher, epoch : Nat \ {0}]

NoGrant == [generation |-> None, epoch |-> 0]

Entry == [state : {"planned", "active", "rolled_back"}, generation : Watcher, epoch : Nat \ {0},
          previous : Session \cup {None}, restore : Grant \cup {NoGrant}]

VARIABLES
  marker,     \* the generation in each session's marker, or None
  profile,    \* the grant in each session's capability profile, or NoGrant
  authority,  \* the grant in the authority record, or NoGrant
  journal,    \* the entries of the activation journal
  setAside,   \* superseded markers, by epoch and session
  setAsideProfile,  \* superseded profiles, by epoch and session
  pc,         \* next step of each watcher
  listed,     \* journal entries a watcher has yet to reconcile, by key
  mine,       \* the entry a watcher plans, or the one it rolls back
  apart       \* history: no two activations have overlapped so far

files == <<marker, profile, authority, journal, setAside, setAsideProfile>>
vars == <<files, pc, listed, mine, apart>>

Key(e) == <<e.epoch, Of[e.generation]>>

NoEntry == [state |-> "rolled_back", generation |-> None, epoch |-> 0,
            previous |-> None, restore |-> NoGrant]

Reconciling == {"reconcile", "adopt", "removeMarker", "removeProfile", "restoreAuthority",
                "restoreMarker", "restoreProfile", "close"}
Activating == {"scan", "plan", "supersede", "supersedeProfile", "mark", "profile",
               "authorize", "commit"}
Ended == {"active", "denied", "failed", "crashed"}
PC == {"idle"} \cup Reconciling \cup Activating \cup Ended

TypeOK ==
  /\ marker \in [Session -> Watcher \cup {None}]
  /\ profile \in [Session -> Grant \cup {NoGrant}]
  /\ authority \in Grant \cup {NoGrant}
  /\ journal \in SUBSET Entry
  /\ \A d, e \in journal : Key(d) = Key(e) => d = e
  /\ setAside \in SUBSET [key : (Nat \ {0}) \X Session, generation : Watcher]
  /\ setAsideProfile \in SUBSET [key : (Nat \ {0}) \X Session, grant : Grant]
  /\ pc \in [Watcher -> PC]
  /\ listed \in [Watcher -> SUBSET ((Nat \ {0}) \X Session)]
  /\ mine \in [Watcher -> Entry \cup {NoEntry}]
  /\ apart \in BOOLEAN

Init ==
  /\ marker = [s \in Session |-> None]
  /\ profile = [s \in Session |-> NoGrant]
  /\ authority = NoGrant
  /\ journal = {} /\ setAside = {} /\ setAsideProfile = {}
  /\ pc = [w \in Watcher |-> "idle"]
  /\ listed = [w \in Watcher |-> {}]
  /\ mine = [w \in Watcher |-> NoEntry]
  /\ apart = TRUE

-----------------------------------------------------------------------------
(* The files.                                                              *)

Marked == {s \in Session : marker[s] # None}

\* inspectClaudeWakeGeneration: one marker, with its profile and the authority
\* record, that agree on generation and epoch.
Accepts(g) ==
  \E s \in Session :
    /\ Marked = {s}
    /\ profile[s] = g /\ authority = g
    /\ marker[s] = g.generation /\ Of[g.generation] = s

\* atomicWrite of the entry's file, which its epoch and session name.
Write(e) == journal' = {d \in journal : Key(d) # Key(e)} \cup {e}

\* Mutant: epochs are counted from the authority record alone.
NextEpochByAuthority == authority.epoch + 1

\* nextEpoch: beyond the authority record and every journal entry.
NextEpoch ==
  LET used == {authority.epoch} \cup {e.epoch : e \in journal}
  IN  CHOOSE n \in {u + 1 : u \in used} : \A u \in used : u < n

-----------------------------------------------------------------------------
(* A watcher starts and reconciles what dead activations left.             *)

Busy(w) == pc[w] \in Reconciling \cup Activating

Goto(w, l) == pc' = [pc EXCEPT ![w] = l]
Keep(w, e) == mine' = [mine EXCEPT ![w] = e]

Start(w) ==
  /\ pc[w] = "idle"
  /\ apart' = (apart /\ \A v \in Watcher : ~Busy(v))
  /\ listed' = [listed EXCEPT ![w] = {Key(e) : e \in journal}]
  /\ Goto(w, "reconcile")
  /\ UNCHANGED <<files, mine>>

\* Has the predecessor's marker been put aside for this entry?
Superseded(e) == \E m \in setAside : m.key = <<e.epoch, e.previous>>

\* Mutant: the marker of the dead activation's session is always removed.
OwnFilesToGoAlways(e) == TRUE

\* The marker and profile of the dead activation's session are its own, unless
\* they may still be those of a predecessor in the same session.
OwnFilesToGo(e) ==
  e.previous = None \/ Superseded(e) \/ e.previous # Of[e.generation]

\* The next listed entry is read.  A planned one is adopted when its activation
\* is in effect, and rolled back otherwise.
ReadEntry(w) ==
  /\ pc[w] = "reconcile"
  /\ \E k \in listed[w] : \E e \in journal :
       /\ Key(e) = k
       /\ \/ /\ e.state # "planned"
             /\ listed' = [listed EXCEPT ![w] = @ \ {k}]
             /\ UNCHANGED <<pc, mine>>
          \/ /\ e.state = "planned"
             /\ Keep(w, e)
             /\ Goto(w, IF Accepts([generation |-> e.generation, epoch |-> e.epoch]) THEN "adopt"
                        ELSE IF OwnFilesToGo(e) THEN "removeMarker" ELSE "restoreAuthority")
             /\ UNCHANGED listed
  /\ UNCHANGED <<files, apart>>

\* The entry in hand is closed in one way or the other.
Close(w) ==
  /\ \/ pc[w] = "adopt" /\ Write([mine[w] EXCEPT !.state = "active"])
     \/ pc[w] = "close" /\ Write([mine[w] EXCEPT !.state = "rolled_back"])
  /\ listed' = [listed EXCEPT ![w] = @ \ {Key(mine[w])}]
  /\ Keep(w, NoEntry)
  /\ Goto(w, "reconcile")
  /\ UNCHANGED <<marker, profile, authority, setAside, setAsideProfile, apart>>

RemoveMarker(w) ==
  /\ pc[w] = "removeMarker"
  /\ marker' = [marker EXCEPT ![Of[mine[w].generation]] = None]
  /\ Goto(w, "removeProfile")
  /\ UNCHANGED <<profile, authority, journal, setAside, setAsideProfile, listed, mine, apart>>

RemoveProfile(w) ==
  /\ pc[w] = "removeProfile"
  /\ profile' = [profile EXCEPT ![Of[mine[w].generation]] = NoGrant]
  /\ Goto(w, "restoreAuthority")
  /\ UNCHANGED <<marker, authority, journal, setAside, setAsideProfile, listed, mine, apart>>

\* Mutant: the authority record of the predecessor is not written back.
RestoreAuthorityRemoved(w) ==
  /\ pc[w] = "restoreAuthority"
  /\ authority' = NoGrant
  /\ Goto(w, IF mine[w].previous = None THEN "close" ELSE "restoreMarker")
  /\ UNCHANGED <<marker, profile, journal, setAside, setAsideProfile, listed, mine, apart>>

RestoreAuthority(w) ==
  /\ pc[w] = "restoreAuthority"
  /\ authority' = mine[w].restore
  /\ Goto(w, IF mine[w].previous = None THEN "close" ELSE "restoreMarker")
  /\ UNCHANGED <<marker, profile, journal, setAside, setAsideProfile, listed, mine, apart>>

\* The marker comes back from where it was put aside, or was never moved.
RestoreMarker(w) ==
  LET e == mine[w]
  IN  /\ pc[w] = "restoreMarker"
      /\ \/ \E m \in setAside :
              /\ m.key = <<e.epoch, e.previous>>
              /\ marker' = [marker EXCEPT ![e.previous] = m.generation]
              /\ setAside' = setAside \ {m}
              /\ Goto(w, "restoreProfile")
         \/ /\ ~Superseded(e)
            /\ Goto(w, IF marker[e.previous] # None THEN "close" ELSE "denied")
            /\ UNCHANGED <<marker, setAside>>
      /\ UNCHANGED <<profile, authority, journal, setAsideProfile, listed, mine, apart>>

RestoreProfile(w) ==
  LET saved == {p \in setAsideProfile : p.key = <<mine[w].epoch, mine[w].previous>>}
  IN  /\ pc[w] = "restoreProfile"
      /\ \/ saved = {} /\ UNCHANGED profile
         \/ \E p \in saved : profile' = [profile EXCEPT ![mine[w].previous] = p.grant]
      /\ setAsideProfile' = setAsideProfile \ saved
      /\ Goto(w, "close")
      /\ UNCHANGED <<marker, authority, journal, setAside, listed, mine, apart>>

-----------------------------------------------------------------------------
(* The activation itself.                                                  *)

Reconciled(w) ==
  /\ pc[w] = "reconcile" /\ listed[w] = {}
  /\ Goto(w, "scan")
  /\ UNCHANGED <<files, listed, mine, apart>>

\* Several markers refuse the activation.  Otherwise the entry is made up of
\* what the predecessor left.
Scan(w) ==
  /\ pc[w] = "scan"
  /\ \/ /\ Cardinality(Marked) > 1
        /\ Goto(w, "denied")
        /\ UNCHANGED mine
     \/ /\ Cardinality(Marked) <= 1
        /\ \E s \in IF Marked = {} THEN {None} ELSE Marked :
             Keep(w, [state |-> "planned", generation |-> w, epoch |-> NextEpoch,
                      previous |-> s, restore |-> authority])
        /\ Goto(w, "plan")
  /\ UNCHANGED <<files, listed, apart>>

Plan(w) ==
  /\ pc[w] = "plan"
  /\ Write(mine[w])
  /\ Goto(w, IF mine[w].previous = None THEN "mark" ELSE "supersede")
  /\ UNCHANGED <<marker, profile, authority, setAside, setAsideProfile, listed, mine, apart>>

\* A marker that another activation has taken meanwhile makes the call throw.
Supersede(w) ==
  LET s == mine[w].previous
      k == <<mine[w].epoch, s>>
  IN  /\ pc[w] = "supersede"
      /\ \/ /\ marker[s] # None
            /\ setAside' = {m \in setAside : m.key # k}
                             \cup {[key |-> k, generation |-> marker[s]]}
            /\ marker' = [marker EXCEPT ![s] = None]
            /\ Goto(w, "supersedeProfile")
         \/ /\ marker[s] = None
            /\ Goto(w, "failed")
            /\ UNCHANGED <<marker, setAside>>
      /\ UNCHANGED <<profile, authority, journal, setAsideProfile, listed, mine, apart>>

SupersedeProfile(w) ==
  LET s == mine[w].previous
      k == <<mine[w].epoch, s>>
  IN  /\ pc[w] = "supersedeProfile"
      /\ \/ /\ profile[s] # NoGrant
            /\ setAsideProfile' = {p \in setAsideProfile : p.key # k}
                                    \cup {[key |-> k, grant |-> profile[s]]}
            /\ profile' = [profile EXCEPT ![s] = NoGrant]
         \/ /\ profile[s] = NoGrant
            /\ UNCHANGED <<profile, setAsideProfile>>
      /\ Goto(w, "mark")
      /\ UNCHANGED <<marker, authority, journal, setAside, listed, mine, apart>>

Granted(w) == [generation |-> w, epoch |-> mine[w].epoch]

WriteMarker(w) ==
  /\ pc[w] = "mark"
  /\ marker' = [marker EXCEPT ![Of[w]] = w]
  /\ Goto(w, "profile")
  /\ UNCHANGED <<profile, authority, journal, setAside, setAsideProfile, listed, mine, apart>>

WriteProfile(w) ==
  /\ pc[w] = "profile"
  /\ profile' = [profile EXCEPT ![Of[w]] = Granted(w)]
  /\ Goto(w, "authorize")
  /\ UNCHANGED <<marker, authority, journal, setAside, setAsideProfile, listed, mine, apart>>

WriteAuthority(w) ==
  /\ pc[w] = "authorize"
  /\ authority' = Granted(w)
  /\ Goto(w, "commit")
  /\ UNCHANGED <<marker, profile, journal, setAside, setAsideProfile, listed, mine, apart>>

Commit(w) ==
  /\ pc[w] = "commit"
  /\ Write([mine[w] EXCEPT !.state = "active"])
  /\ Goto(w, "active")
  /\ UNCHANGED <<marker, profile, authority, setAside, setAsideProfile, listed, mine, apart>>

Crash(w) ==
  /\ Busy(w)
  /\ Goto(w, "crashed")
  /\ listed' = [listed EXCEPT ![w] = {}]
  /\ Keep(w, NoEntry)
  /\ UNCHANGED <<files, apart>>

Step(w) ==
  \/ Start(w) \/ ReadEntry(w) \/ Close(w)
  \/ RemoveMarker(w) \/ RemoveProfile(w)
  \/ RestoreAuthority(w) \/ RestoreMarker(w) \/ RestoreProfile(w)
  \/ Reconciled(w) \/ Scan(w) \/ Plan(w) \/ Supersede(w) \/ SupersedeProfile(w)
  \/ WriteMarker(w) \/ WriteProfile(w) \/ WriteAuthority(w) \/ Commit(w)

Next == \E w \in Watcher : Step(w) \/ Crash(w)

Spec == Init /\ [][Next]_vars

-----------------------------------------------------------------------------
(* Properties.                                                             *)

Latest(e) == e.state = "active" /\ \A d \in journal : d.state = "active" => d.epoch <= e.epoch

\* As long as activations do not overlap, none is refused or fails, wherever
\* the ones before it died, in their own steps or while rolling back others:
\* recovery never leaves two markers, nor an entry that cannot be rolled back.
NeverWedged == apart => \A w \in Watcher : pc[w] \notin {"denied", "failed"}

\* An activation that did not take effect leaves no trace: once the journals
\* are reconciled, the marker and the authority record are those of the latest
\* activation in effect, however often the recovery died itself.
RolledBack ==
  apart => \A w \in Watcher : pc[w] = "scan" =>
    \/ /\ Marked = {} /\ authority = NoGrant
       /\ \A e \in journal : e.state # "active"
    \/ \E e \in journal :
         /\ Latest(e)
         /\ authority = [generation |-> e.generation, epoch |-> e.epoch]
         /\ Marked = {Of[e.generation]} /\ marker[Of[e.generation]] = e.generation

\* Revocation is final: no two activations share an epoch, the rolled back ones
\* included, and a grant that is accepted has no committed one after it.
RevokedForGood ==
  apart => \A e, d \in journal : e # d =>
    /\ e.epoch # d.epoch
    /\ Accepts([generation |-> e.generation, epoch |-> e.epoch]) /\ d.state = "active"
         => d.epoch < e.epoch
=============================================================================
