------------------------- MODULE ForwardEscapeProofs -------------------------
(***************************************************************************)
(* Proofs about ForwardEscape: for any number of workers, commands and     *)
(* payloads nobody is shut out of an open command, nothing is posted       *)
(* before its intent is on record, and the whole implements EscapeOutbox.  *)
(***************************************************************************)
EXTENDS ForwardEscape, TLAPS

USE ForwardEscapeAssumption DEF ForwardEscapeAssumption

\* What the properties need of a step at a time.
Inv == TypeOK /\ JournalAuditable /\ IntentFirst /\ ProjectionBound /\ WorkerInv

\* The events are records with a payload.
LEMMA EventFields ==
  ASSUME NEW e \in Event
  PROVE  /\ e.payload \in Payload
         /\ e.type \in {"Queued", "Deferred", "Projected"}
BY DEF Event, Queued, Deferred, Projected

\* A task in hand is a task.
LEMMA TaskInHand ==
  ASSUME TypeOK, NEW w \in Worker, pc[w] # "idle"
  PROVE  task[w].command \in Command /\ task[w].payload \in Payload
<1>1. task[w] \in Task \cup {None} /\ task[w] # None
  BY DEF TypeOK
<1> QED
  BY <1>1 DEF Task

\* An accepted event is on the journal afterwards, after everything that was
\* there before, and the journal of no other command changes.
LEMMA RecordAppends ==
  ASSUME TypeOK, NEW c \in Command, NEW e \in Event, Record(c, e)
  PROVE  /\ journal' \in [Command -> Seq(Event)]
         /\ \A d \in Command : d # c => journal'[d] = journal[d]
         /\ journal'[c] = IF e \in Events(c) THEN journal[c] ELSE Append(journal[c], e)
         /\ journal'[c] # <<>>
         /\ Events(c)' = Events(c) \cup {e}
<1>1. journal[c] \in Seq(Event)
  BY DEF TypeOK
<1>2. journal' = [journal EXCEPT ![c] =
                    IF e \in Events(c) THEN journal[c] ELSE Append(journal[c], e)]
  BY DEF Record, TypeOK
<1>3. Append(journal[c], e) \in Seq(Event) /\ Append(journal[c], e) # <<>>
  BY <1>1
<1>4. journal'[c] = IF e \in Events(c) THEN journal[c] ELSE Append(journal[c], e)
  BY <1>2 DEF TypeOK
<1>5. e \in Events(c) => journal[c] # <<>>
  BY <1>1 DEF Events
<1>6. Events(c)' = Events(c) \cup {e}
  <2>1. CASE e \in Events(c)
    BY <1>4, <2>1 DEF Events
  <2>2. CASE e \notin Events(c)
    <3> DEFINE s == journal[c]
    <3> DEFINE t == Append(s, e)
    <3>1. journal'[c] = t
      BY <1>4, <2>2
    <3>2. DOMAIN t = 1..(Len(s) + 1) /\ DOMAIN s = 1..Len(s) /\ Len(s) \in Nat
      BY <1>1
    <3>3. t[Len(s) + 1] = e /\ \A i \in 1..Len(s) : t[i] = s[i]
      BY <1>1
    <3>4. {t[i] : i \in DOMAIN t} = {s[i] : i \in DOMAIN s} \cup {e}
      <4> HIDE DEF s, t
      <4>1. 1..(Len(s) + 1) = 1..Len(s) \cup {Len(s) + 1}
        BY <3>2
      <4> QED
        BY <3>2, <3>3, <4>1
    <3> QED
      BY <3>1, <3>4 DEF Events
  <2> QED
    BY <2>1, <2>2
<1> QED
  BY <1>1, <1>2, <1>3, <1>4, <1>5, <1>6 DEF TypeOK

\* On an empty journal only an intent is accepted, and after a projection
\* nothing new is.
LEMMA AcceptedWhen ==
  ASSUME TypeOK, NEW c \in Command, NEW e \in Event, Accepts(c, e)
  PROVE  /\ journal[c] = <<>> => e.type = "Queued"
         /\ IsProjected(c) => e \in Events(c)
<1>1. journal[c] \in Seq(Event)
  BY DEF TypeOK
<1>2. CASE e \in Events(c)
  BY <1>1, <1>2 DEF Events
<1>3. CASE e \notin Events(c)
  <2> DEFINE s == journal[c]
  <2> DEFINE t == Append(s, e)
  <2>1. Audited(t) /\ t # <<>> /\ Len(t) = Len(s) + 1 /\ Len(s) \in Nat
    BY <1>1, <1>3 DEF Accepts
  <2>2. s = <<>> => t[1] = e
    BY <1>1
  <2>3. ASSUME NEW i \in DOMAIN s PROVE s[i].type # "Projected"
    <3>1. i \in 1..Len(s) /\ t[i] = s[i] /\ DOMAIN t = 1..Len(t)
      BY <1>1
    <3> QED
      BY <2>1, <3>1 DEF Audited
  <2>4. ~IsProjected(c)
    BY <2>3 DEF IsProjected, Events
  <2> QED
    BY <2>1, <2>2, <2>4 DEF Audited
<1> QED
  BY <1>2, <1>3

\* The initial state is well typed.
LEMMA TypeInit == Init => TypeOK
BY DEF Init, TypeOK, PC, Outcome

\* Every step keeps the types.
LEMMA TypeStep ==
  ASSUME TypeOK, [Next]_vars
  PROVE  TypeOK'
<1> USE DEF TypeOK, Goto, Return, PC, Outcome
<1>1. ASSUME NEW w \in Worker, NEW c \in Command, NEW p \in Payload, Start(w, c, p)
      PROVE  TypeOK'
  <2>1. task' \in [Worker -> Task \cup {None}] /\ task'[w] # None
    BY <1>1 DEF Start, Task
  <2> QED
    BY <1>1, <2>1 DEF Start
<1>2. ASSUME NEW w \in Worker, Certify(w) PROVE TypeOK'
  BY <1>2, TaskInHand DEF Certify
<1>3. ASSUME NEW w \in Worker, Read(w) PROVE TypeOK'
  BY <1>3 DEF Read
<1>4. ASSUME NEW w \in Worker, Queue(w) PROVE TypeOK'
  <2> DEFINE e == Queued(task[w].payload)
  <2>1. task[w].command \in Command /\ e \in Event
    BY <1>4, TaskInHand DEF Queue, Event
  <2>2. journal' \in [Command -> Seq(Event)]
    BY <1>4, <2>1, RecordAppends DEF Queue
  <2> QED
    BY <1>4, <2>2 DEF Queue
<1>5. ASSUME NEW w \in Worker, CallAnswered(w) PROVE TypeOK'
  <2>1. task[w].command \in Command /\ task[w].payload \in Payload
    BY <1>5, TaskInHand DEF CallAnswered
  <2>2. issue' \in [Command -> Revision \cup {None}] /\ issue'[task[w].command] \in Revision
    BY ZenonT(40), <1>5, <2>1 DEF CallAnswered
  <2>3. Projected(task[w].payload, issue'[task[w].command]) \in Event
    BY <2>1, <2>2 DEF Event
  <2> QED
    BY <1>5, <2>2, <2>3 DEF CallAnswered, Answer
<1>6. ASSUME NEW w \in Worker, CallFailed(w) PROVE TypeOK'
  <2>1. task[w].command \in Command /\ task[w].payload \in Payload
    BY <1>6, TaskInHand DEF CallFailed
  <2>2. issue' \in [Command -> Revision \cup {None}]
    <3>1. CASE UNCHANGED issue
      BY <3>1
    <3>2. CASE \E r \in Revision : issue' = [issue EXCEPT ![task[w].command] = r]
      BY <2>1, <3>2
    <3> QED
      BY <1>6, <3>1, <3>2 DEF CallFailed
  <2>3. \A reason \in Reason : Deferred(task[w].payload, reason) \in Event
    BY <2>1 DEF Event
  <2> QED
    BY <1>6, <2>2, <2>3 DEF CallFailed, Answer
<1>7. ASSUME NEW w \in Worker, AppendAnswer(w) PROVE TypeOK'
  <2>1. CASE answer[w] \in Event /\ Record(task[w].command, answer[w])
    <3>1. journal' \in [Command -> Seq(Event)]
      BY <1>7, <2>1, TaskInHand, RecordAppends DEF AppendAnswer
    <3> QED
      BY <1>7, <3>1 DEF AppendAnswer
  <2>2. CASE UNCHANGED journal
    BY <1>7, <2>2 DEF AppendAnswer
  <2> QED
    BY <1>7, <2>1, <2>2 DEF AppendAnswer
<1>8. ASSUME NEW w \in Worker, DbFault(w) PROVE TypeOK'
  BY <1>8 DEF DbFault
<1>9. ASSUME NEW w \in Worker, Crash(w) PROVE TypeOK'
  BY <1>9 DEF Crash
<1>10. ASSUME NEW c \in Command, Edited(c) PROVE TypeOK'
  BY <1>10 DEF Edited, local
<1>11. CASE UNCHANGED vars
  BY <1>11 DEF vars
<1> QED
  BY <1>1, <1>2, <1>3, <1>4, <1>5, <1>6,
     <1>7, <1>8, <1>9, <1>10, <1>11 DEF Next, Step

\* The initial state satisfies the invariant.
LEMMA InvInit == Init => Inv
<1> SUFFICES ASSUME Init PROVE Inv
  OBVIOUS
<1>1. \A c \in Command : journal[c] = <<>> /\ Events(c) = {}
  BY DEF Init, Events
<1>2. JournalAuditable /\ IntentFirst /\ ProjectionBound
  BY <1>1 DEF Init, JournalAuditable, Audited, IntentFirst, ProjectionBound, IsProjected
<1>3. WorkerInv
  BY DEF Init, WorkerInv, Knows
<1> QED
  BY TypeInit, <1>2, <1>3 DEF Inv

\* What an appended event does to the properties of the journals.
LEMMA JournalStep ==
  ASSUME Inv, NEW c \in Command, NEW e \in Event, Accepts(c, e), Record(c, e),
         UNCHANGED <<certificate, issue>>,
         e.type = "Projected" => issue[c] # None
  PROVE  JournalAuditable' /\ IntentFirst' /\ ProjectionBound'
<1>1. /\ \A d \in Command : d # c => journal'[d] = journal[d]
      /\ journal'[c] = IF e \in Events(c) THEN journal[c] ELSE Append(journal[c], e)
      /\ journal'[c] # <<>>
      /\ Events(c)' = Events(c) \cup {e}
  BY RecordAppends DEF Inv
<1>2. JournalAuditable'
  <2>1. Audited(journal'[c])
    BY <1>1 DEF Accepts, Inv, JournalAuditable
  <2>2. \A d \in Command : Audited(journal'[d])
    BY <1>1, <2>1 DEF Inv, JournalAuditable
  <2> QED
    BY <2>2 DEF JournalAuditable
<1>3. IntentFirst'
  BY <1>1 DEF Inv, IntentFirst
<1>4. ProjectionBound'
  <2>1. ASSUME NEW d \in Command, d # c PROVE Events(d)' = Events(d)
    BY <1>1, <2>1 DEF Events
  <2>2. e.payload = certificate[c]
    BY DEF Accepts
  <2> QED
    BY <1>1, <2>1, <2>2 DEF Inv, ProjectionBound, IsProjected
<1> QED
  BY <1>2, <1>3, <1>4

\* A step that changes no journal keeps their properties when certificates
\* are only added and issues stay behind their intents.
LEMMA QuietStep ==
  ASSUME Inv, UNCHANGED journal,
         \A c \in Command : certificate'[c] = certificate[c] \/ certificate[c] = None,
         \A c \in Command : issue'[c] = issue[c] \/ (journal[c] # <<>> /\ issue'[c] # None)
  PROVE  JournalAuditable' /\ IntentFirst' /\ ProjectionBound'
<1>1. \A c \in Command : Events(c)' = Events(c)
  BY DEF Events
<1>2. JournalAuditable'
  BY DEF Inv, JournalAuditable, Audited
<1>3. IntentFirst'
  BY DEF Inv, IntentFirst
<1>4. ASSUME NEW c \in Command, NEW e \in Events(c) PROVE certificate[c] # None
  <2>1. e.payload \in Payload
    BY EventFields DEF Inv, TypeOK, Events
  <2> QED
    BY <2>1 DEF Inv, ProjectionBound
<1>5. ProjectionBound'
  BY <1>1, <1>4 DEF Inv, ProjectionBound, IsProjected
<1> QED
  BY <1>2, <1>3, <1>5

\* Every step keeps the properties of the journals.
LEMMA JournalsStep ==
  ASSUME Inv, [Next]_vars
  PROVE  (JournalAuditable /\ IntentFirst /\ ProjectionBound)'
<1>1. ASSUME NEW w \in Worker, NEW c \in Command, NEW p \in Payload, Start(w, c, p)
      PROVE  (JournalAuditable /\ IntentFirst /\ ProjectionBound)'
  BY <1>1, QuietStep DEF Inv, TypeOK, Start
<1>2. ASSUME NEW w \in Worker, Certify(w) PROVE (JournalAuditable /\ IntentFirst /\ ProjectionBound)'
  <2>1. task[w].command \in Command
    BY <1>2, TaskInHand DEF Certify, Inv
  <2> QED
    BY <1>2, <2>1, QuietStep DEF Certify, Inv, TypeOK
<1>3. ASSUME NEW w \in Worker, Read(w) PROVE (JournalAuditable /\ IntentFirst /\ ProjectionBound)'
  BY <1>3, QuietStep DEF Inv, TypeOK, Read
<1>4. ASSUME NEW w \in Worker, Queue(w) PROVE (JournalAuditable /\ IntentFirst /\ ProjectionBound)'
  <2> DEFINE e == Queued(task[w].payload)
  <2>1. task[w].command \in Command /\ e \in Event /\ e.type = "Queued"
    BY <1>4, TaskInHand DEF Queue, Event, Queued, Inv
  <2>2. CASE Accepts(task[w].command, e) /\ Record(task[w].command, e)
    BY <1>4, <2>1, <2>2, JournalStep DEF Queue
  <2>3. CASE UNCHANGED journal
    BY <1>4, <2>3, QuietStep DEF Queue
  <2> QED
    BY <1>4, <2>2, <2>3 DEF Queue
<1>5. ASSUME NEW w \in Worker, CallAnswered(w) PROVE (JournalAuditable /\ IntentFirst /\ ProjectionBound)'
  <2> DEFINE c == task[w].command
  <2>1. c \in Command /\ journal[c] # <<>>
    BY <1>5, TaskInHand DEF CallAnswered, Inv, WorkerInv, Knows
  <2>2. issue' = issue \/ \E r \in Revision : issue' = [issue EXCEPT ![c] = r]
    BY <1>5 DEF CallAnswered
  <2>3. \A d \in Command : issue'[d] = issue[d] \/ (journal[d] # <<>> /\ issue'[d] # None)
    BY <2>1, <2>2 DEF Inv, TypeOK
  <2> QED
    BY <1>5, <2>3, QuietStep DEF CallAnswered
<1>6. ASSUME NEW w \in Worker, CallFailed(w) PROVE (JournalAuditable /\ IntentFirst /\ ProjectionBound)'
  <2> DEFINE c == task[w].command
  <2>1. c \in Command /\ journal[c] # <<>>
    BY <1>6, TaskInHand DEF CallFailed, Inv, WorkerInv, Knows
  <2>2. issue' = issue \/ \E r \in Revision : issue' = [issue EXCEPT ![c] = r]
    BY <1>6 DEF CallFailed
  <2>3. \A d \in Command : issue'[d] = issue[d] \/ (journal[d] # <<>> /\ issue'[d] # None)
    BY <2>1, <2>2 DEF Inv, TypeOK
  <2> QED
    BY <1>6, <2>3, QuietStep DEF CallFailed
<1>7. ASSUME NEW w \in Worker, AppendAnswer(w) PROVE (JournalAuditable /\ IntentFirst /\ ProjectionBound)'
  <2> DEFINE c == task[w].command
  <2>1. c \in Command /\ answer[w] \in Event
    BY <1>7, TaskInHand DEF AppendAnswer, Inv, TypeOK
  <2>2. answer[w].type = "Projected" => issue[c] # None
    BY <1>7 DEF AppendAnswer, Inv, WorkerInv, Knows
  <2>3. CASE Accepts(c, answer[w]) /\ Record(c, answer[w])
    BY <1>7, <2>1, <2>2, <2>3, JournalStep DEF AppendAnswer
  <2>4. CASE UNCHANGED journal
    BY <1>7, <2>4, QuietStep DEF AppendAnswer
  <2> QED
    BY <1>7, <2>3, <2>4 DEF AppendAnswer
<1>8. ASSUME NEW w \in Worker, DbFault(w) PROVE (JournalAuditable /\ IntentFirst /\ ProjectionBound)'
  BY <1>8, QuietStep DEF Inv, TypeOK, DbFault
<1>9. ASSUME NEW w \in Worker, Crash(w) PROVE (JournalAuditable /\ IntentFirst /\ ProjectionBound)'
  BY <1>9, QuietStep DEF Inv, TypeOK, Crash
<1>10. ASSUME NEW c \in Command, Edited(c) PROVE (JournalAuditable /\ IntentFirst /\ ProjectionBound)'
  <2>1. journal[c] # <<>>
    BY <1>10 DEF Edited, Inv, IntentFirst
  <2>2. \A d \in Command : issue'[d] = issue[d] \/ (journal[d] # <<>> /\ issue'[d] # None)
    BY <1>10, <2>1 DEF Edited, Inv, TypeOK
  <2> QED
    BY <1>10, <2>2, QuietStep DEF Edited
<1>11. CASE UNCHANGED vars
  BY <1>11, QuietStep DEF vars
<1> QED
  BY <1>1, <1>2, <1>3, <1>4, <1>5, <1>6,
     <1>7, <1>8, <1>9, <1>10, <1>11 DEF Next, Step

\* Certificates, intents and issues are never taken back.
Grows ==
  \A c \in Command :
    /\ certificate[c] # None => certificate'[c] = certificate[c]
    /\ journal[c] # <<>> => journal'[c] # <<>>
    /\ issue[c] # None => issue'[c] # None

\* Every step only adds.
LEMMA GrowsStep ==
  ASSUME Inv, [Next]_vars
  PROVE  Grows
<1> USE DEF Grows
<1>1. ASSUME NEW w \in Worker, NEW c \in Command, NEW p \in Payload, Start(w, c, p)
      PROVE  Grows
  BY <1>1 DEF Start
<1>2. ASSUME NEW w \in Worker, Certify(w) PROVE Grows
  <2>1. task[w].command \in Command /\ task[w].payload \in Payload
    BY <1>2, TaskInHand DEF Certify, Inv
  <2> QED
    BY <1>2, <2>1 DEF Certify, Inv, TypeOK
<1>3. ASSUME NEW w \in Worker, Read(w) PROVE Grows
  BY <1>3 DEF Read
<1>4. ASSUME NEW w \in Worker, Queue(w) PROVE Grows
  <2> DEFINE e == Queued(task[w].payload)
  <2>1. task[w].command \in Command /\ e \in Event
    BY <1>4, TaskInHand DEF Queue, Event, Inv
  <2>2. \A c \in Command : journal[c] # <<>> => journal'[c] # <<>>
    BY <1>4, <2>1, RecordAppends DEF Queue, Inv
  <2> QED
    BY <1>4, <2>2 DEF Queue
<1>5. ASSUME NEW w \in Worker, CallAnswered(w) PROVE Grows
  <2>1. issue' = issue \/ \E r \in Revision : issue' = [issue EXCEPT ![task[w].command] = r]
    BY <1>5 DEF CallAnswered
  <2>2. \A c \in Command : issue[c] # None => issue'[c] # None
    BY <2>1 DEF Inv, TypeOK
  <2> QED
    BY <1>5, <2>2 DEF CallAnswered
<1>6. ASSUME NEW w \in Worker, CallFailed(w) PROVE Grows
  <2>1. issue' = issue \/ \E r \in Revision : issue' = [issue EXCEPT ![task[w].command] = r]
    BY <1>6 DEF CallFailed
  <2>2. \A c \in Command : issue[c] # None => issue'[c] # None
    BY <2>1 DEF Inv, TypeOK
  <2> QED
    BY <1>6, <2>2 DEF CallFailed
<1>7. ASSUME NEW w \in Worker, AppendAnswer(w) PROVE Grows
  <2>1. task[w].command \in Command /\ answer[w] \in Event
    BY <1>7, TaskInHand DEF AppendAnswer, Inv, TypeOK
  <2>2. \A c \in Command : journal[c] # <<>> => journal'[c] # <<>>
    BY <1>7, <2>1, RecordAppends DEF AppendAnswer, Inv
  <2> QED
    BY <1>7, <2>2 DEF AppendAnswer
<1>8. ASSUME NEW w \in Worker, DbFault(w) PROVE Grows
  BY <1>8 DEF DbFault
<1>9. ASSUME NEW w \in Worker, Crash(w) PROVE Grows
  BY <1>9 DEF Crash
<1>10. ASSUME NEW c \in Command, Edited(c) PROVE Grows
  <2>1. \A d \in Command : issue[d] # None => issue'[d] # None
    BY <1>10 DEF Edited, Inv, TypeOK
  <2> QED
    BY <1>10, <2>1 DEF Edited
<1>11. CASE UNCHANGED vars
  BY <1>11 DEF vars
<1> QED
  BY <1>1, <1>2, <1>3, <1>4, <1>5, <1>6,
     <1>7, <1>8, <1>9, <1>10, <1>11 DEF Next, Step

\* A worker that stands still goes on knowing what it knew.
LEMMA StillKnows ==
  ASSUME Inv, Grows, NEW v \in Worker,
         pc'[v] = pc[v], task'[v] = task[v], answer'[v] = answer[v]
  PROVE  Knows(v)'
<1>1. CASE pc[v] = "idle"
  BY <1>1 DEF Knows
<1>2. CASE pc[v] # "idle"
  <2>1. task[v].command \in Command /\ task[v].payload \in Payload
    BY <1>2, TaskInHand DEF Inv
  <2> QED
    BY <2>1 DEF Inv, WorkerInv, Knows, Grows
<1> QED
  BY <1>1, <1>2

\* No step makes what a worker knows untrue.
LEMMA WorkerStep ==
  ASSUME Inv, [Next]_vars
  PROVE  WorkerInv'
<1>1. ASSUME NEW w \in Worker, NEW c \in Command, NEW p \in Payload, Start(w, c, p)
      PROVE  WorkerInv'
  <2>1. ASSUME NEW v \in Worker, v # w PROVE Knows(v)'
    <3>1. pc'[v] = pc[v] /\ task'[v] = task[v] /\ answer'[v] = answer[v]
      BY <1>1, <2>1 DEF Start, Goto, Return, Answer, Inv, TypeOK
    <3> QED
      BY <3>1, StillKnows, GrowsStep
  <2>2. Knows(w)'
    BY <1>1 DEF Start, Knows, Return, Goto, Inv, TypeOK
  <2> QED
    BY <2>1, <2>2 DEF WorkerInv
<1>2. ASSUME NEW w \in Worker, Certify(w) PROVE WorkerInv'
  <2>1. ASSUME NEW v \in Worker, v # w PROVE Knows(v)'
    <3>1. pc'[v] = pc[v] /\ task'[v] = task[v] /\ answer'[v] = answer[v]
      BY <1>2, <2>1 DEF Certify, Goto, Return, Answer, Inv, TypeOK
    <3> QED
      BY <3>1, StillKnows, GrowsStep
  <2>2. Knows(w)'
    <3>1. task[w].command \in Command
      BY <1>2, TaskInHand DEF Certify, Inv
    <3>2. pc'[w] = "idle" \/ (pc'[w] = "read" /\ certificate'[task[w].command] = task[w].payload)
      BY <1>2, <3>1 DEF Certify, Return, Goto, Inv, TypeOK
    <3> QED
      BY <1>2, <3>2 DEF Certify, Knows
  <2> QED
    BY <2>1, <2>2 DEF WorkerInv
<1>3. ASSUME NEW w \in Worker, Read(w) PROVE WorkerInv'
  <2>1. ASSUME NEW v \in Worker, v # w PROVE Knows(v)'
    <3>1. pc'[v] = pc[v] /\ task'[v] = task[v] /\ answer'[v] = answer[v]
      BY <1>3, <2>1 DEF Read, Goto, Return, Answer, Inv, TypeOK
    <3> QED
      BY <3>1, StillKnows, GrowsStep
  <2>2. Knows(w)'
    <3>1. task[w].command \in Command
      BY <1>3, TaskInHand DEF Read, Inv
    <3>2. pc'[w] \in {"idle", "queue"} \/ (pc'[w] = "call" /\ Events(task[w].command) # {})
      BY <1>3 DEF Read, Return, Goto, Inv, TypeOK
    <3>3. Events(task[w].command) # {} => journal[task[w].command] # <<>>
      BY DEF Events
    <3> QED
      BY <1>3, <3>2, <3>3 DEF Read, Knows
  <2> QED
    BY <2>1, <2>2 DEF WorkerInv
<1>4. ASSUME NEW w \in Worker, Queue(w) PROVE WorkerInv'
  <2>1. ASSUME NEW v \in Worker, v # w PROVE Knows(v)'
    <3>1. pc'[v] = pc[v] /\ task'[v] = task[v] /\ answer'[v] = answer[v]
      BY <1>4, <2>1 DEF Queue, Goto, Return, Answer, Inv, TypeOK
    <3> QED
      BY <3>1, StillKnows, GrowsStep
  <2>2. Knows(w)'
    <3> DEFINE c == task[w].command
    <3> DEFINE e == Queued(task[w].payload)
    <3>1. c \in Command /\ e \in Event
      BY <1>4, TaskInHand DEF Queue, Event, Inv
    <3>2. pc'[w] = "idle" \/ (pc'[w] = "call" /\ Record(c, e))
      BY <1>4 DEF Queue, Return, Goto, Inv, TypeOK
    <3>3. Record(c, e) => journal'[c] # <<>>
      BY <3>1, RecordAppends DEF Inv
    <3> QED
      BY <1>4, <3>2, <3>3 DEF Queue, Knows, Inv, WorkerInv
  <2> QED
    BY <2>1, <2>2 DEF WorkerInv
<1>5. ASSUME NEW w \in Worker, CallAnswered(w) PROVE WorkerInv'
  <2>1. ASSUME NEW v \in Worker, v # w PROVE Knows(v)'
    <3>1. pc'[v] = pc[v] /\ task'[v] = task[v] /\ answer'[v] = answer[v]
      BY <1>5, <2>1 DEF CallAnswered, Goto, Return, Answer, Inv, TypeOK
    <3> QED
      BY <3>1, StillKnows, GrowsStep
  <2>2. Knows(w)'
    <3> DEFINE c == task[w].command
    <3>1. c \in Command /\ issue'[c] # None
      BY <1>5, TaskInHand DEF CallAnswered, Inv, TypeOK
    <3>2. pc'[w] = "append" /\ answer'[w] = Projected(task[w].payload, issue'[c])
      BY <1>5 DEF CallAnswered, Answer, Goto, Inv, TypeOK
    <3> QED
      BY <1>5, <3>1, <3>2 DEF CallAnswered, Projected, Knows, Inv, WorkerInv
  <2> QED
    BY <2>1, <2>2 DEF WorkerInv
<1>6. ASSUME NEW w \in Worker, CallFailed(w) PROVE WorkerInv'
  <2>1. ASSUME NEW v \in Worker, v # w PROVE Knows(v)'
    <3>1. pc'[v] = pc[v] /\ task'[v] = task[v] /\ answer'[v] = answer[v]
      BY <1>6, <2>1 DEF CallFailed, Goto, Return, Answer, Inv, TypeOK
    <3> QED
      BY <3>1, StillKnows, GrowsStep
  <2>2. Knows(w)'
    <3>1. pc'[w] = "append"
          /\ \E reason \in Reason : answer'[w] = Deferred(task[w].payload, reason)
      BY <1>6 DEF CallFailed, Answer, Goto, Inv, TypeOK
    <3> QED
      BY <1>6, <3>1 DEF CallFailed, Deferred, Knows, Inv, WorkerInv
  <2> QED
    BY <2>1, <2>2 DEF WorkerInv
<1>7. ASSUME NEW w \in Worker, AppendAnswer(w) PROVE WorkerInv'
  <2>1. ASSUME NEW v \in Worker, v # w PROVE Knows(v)'
    <3>1. pc'[v] = pc[v] /\ task'[v] = task[v] /\ answer'[v] = answer[v]
      BY <1>7, <2>1 DEF AppendAnswer, Goto, Return, Answer, Inv, TypeOK
    <3> QED
      BY <3>1, StillKnows, GrowsStep
  <2>2. Knows(w)'
    BY <1>7 DEF AppendAnswer, Knows, Return, Goto, Inv, TypeOK
  <2> QED
    BY <2>1, <2>2 DEF WorkerInv
<1>8. ASSUME NEW w \in Worker, DbFault(w) PROVE WorkerInv'
  <2>1. ASSUME NEW v \in Worker, v # w PROVE Knows(v)'
    <3>1. pc'[v] = pc[v] /\ task'[v] = task[v] /\ answer'[v] = answer[v]
      BY <1>8, <2>1 DEF DbFault, Goto, Return, Answer, Inv, TypeOK
    <3> QED
      BY <3>1, StillKnows, GrowsStep
  <2>2. Knows(w)'
    BY <1>8 DEF DbFault, Knows, Return, Goto, Inv, TypeOK
  <2> QED
    BY <2>1, <2>2 DEF WorkerInv
<1>9. ASSUME NEW w \in Worker, Crash(w) PROVE WorkerInv'
  <2>1. ASSUME NEW v \in Worker, v # w PROVE Knows(v)'
    <3>1. pc'[v] = pc[v] /\ task'[v] = task[v] /\ answer'[v] = answer[v]
      BY <1>9, <2>1 DEF Crash, Goto, Return, Answer, Inv, TypeOK
    <3> QED
      BY <3>1, StillKnows, GrowsStep
  <2>2. Knows(w)'
    BY <1>9 DEF Crash, Knows, Return, Goto, Inv, TypeOK
  <2> QED
    BY <2>1, <2>2 DEF WorkerInv
<1>10. ASSUME NEW c \in Command, Edited(c) PROVE WorkerInv'
  BY <1>10, StillKnows, GrowsStep DEF Edited, local, WorkerInv
<1>11. CASE UNCHANGED vars
  BY <1>11, StillKnows, GrowsStep DEF vars, WorkerInv
<1> QED
  BY <1>1, <1>2, <1>3, <1>4, <1>5, <1>6,
     <1>7, <1>8, <1>9, <1>10, <1>11 DEF Next, Step

\* The invariant holds in every reachable state.
THEOREM InvariantHolds == Spec => []Inv
<1>1. Inv /\ [Next]_vars => Inv'
  BY TypeStep, JournalsStep, WorkerStep DEF Inv
<1> QED
  BY InvInit, <1>1, PTL DEF Spec

\* An intent is always taken: a worker that finds the command queued by another
\* repeats that intent to the letter.
LEMMA IntentAccepted ==
  ASSUME Inv, NEW w \in Worker, Queue(w)
  PROVE  Accepts(task[w].command, Queued(task[w].payload))
<1> DEFINE c == task[w].command
<1> DEFINE p == task[w].payload
<1> DEFINE s == journal[c]
<1>1. c \in Command /\ p \in Payload /\ certificate[c] = p
  BY TaskInHand DEF Queue, Inv, WorkerInv, Knows
<1>2. s \in Seq(Event)
  BY <1>1 DEF Inv, TypeOK
<1>3. CASE s = <<>>
  <2> DEFINE t == Append(s, Queued(p))
  <2>1. Len(t) = 1 /\ DOMAIN t = {1} /\ t[1] = Queued(p)
    BY <1>3
  <2>2. Queued(p).type = "Queued"
    BY DEF Queued
  <2>3. Audited(t)
    <3> HIDE DEF t
    <3> QED
      BY <2>1, <2>2 DEF Audited
  <2>4. Queued(p).payload = p
    BY DEF Queued
  <2> QED
    BY <1>1, <2>3, <2>4 DEF Accepts
<1>4. CASE s # <<>>
  <2>1. 1 \in DOMAIN s /\ s[1] \in Event /\ s[1] \in Events(c)
    BY <1>2, <1>4 DEF Events
  <2>2. s[1].type = "Queued" /\ s[1].payload = p
    BY <1>1, <1>4, <2>1 DEF Inv, JournalAuditable, Audited, ProjectionBound
  <2>3. s[1] = Queued(p)
    <3>1. \A q \in Payload : \A d : Deferred(q, d).type # "Queued" /\ Projected(q, d).type # "Queued"
      BY DEF Deferred, Projected
    <3>2. PICK q \in Payload : s[1] = Queued(q)
      BY <2>1, <2>2, <3>1 DEF Event
    <3>3. q = p
      BY <2>2, <3>2 DEF Queued
    <3> QED
      BY <3>2, <3>3
  <2>4. Queued(p).payload = p
    BY DEF Queued
  <2> QED
    BY <1>1, <2>1, <2>3, <2>4 DEF Accepts
<1> QED
  BY <1>3, <1>4

\* What came of a call is taken as long as the command is open.
LEMMA AnswerAccepted ==
  ASSUME Inv, NEW w \in Worker, AppendAnswer(w), ~IsProjected(task[w].command)
  PROVE  Accepts(task[w].command, answer[w])
<1> DEFINE c == task[w].command
<1> DEFINE e == answer[w]
<1> DEFINE s == journal[c]
<1> DEFINE t == Append(s, e)
<1>1. c \in Command /\ e \in Event
  BY TaskInHand DEF AppendAnswer, Inv, TypeOK
<1>2. s \in Seq(Event) /\ s # <<>> /\ Audited(s)
  BY <1>1 DEF AppendAnswer, Inv, TypeOK, WorkerInv, Knows, JournalAuditable
<1>3. e.payload = certificate[c] /\ e.type # "Queued"
  BY DEF AppendAnswer, Inv, WorkerInv, Knows
<1>4. DOMAIN s = 1..Len(s) /\ Len(s) \in Nat /\ 1 \in DOMAIN s
  BY <1>2
<1>5. s[1].payload = certificate[c]
  BY <1>1, <1>4 DEF Inv, ProjectionBound, Events
<1>6. \A i \in DOMAIN s : s[i].type # "Projected"
  BY DEF IsProjected, Events
<1>7. /\ DOMAIN t = 1..(Len(s) + 1) /\ Len(t) = Len(s) + 1
      /\ t[Len(s) + 1] = e
      /\ \A i \in 1..Len(s) : t[i] = s[i]
  BY <1>1, <1>2
<1>8. s[1].type = "Queued"
      /\ \A i \in DOMAIN s : /\ s[i].payload = s[1].payload
                             /\ i > 1 => s[i].type # "Queued"
  BY <1>2 DEF Audited
<1>9. Audited(t)
  <2> HIDE DEF s, t, e
  <2>1. t[1] = s[1]
    BY <1>4, <1>7
  <2>2. ASSUME NEW i \in DOMAIN t
        PROVE  /\ t[i].payload = t[1].payload
               /\ i > 1 => t[i].type # "Queued"
               /\ i < Len(t) => t[i].type # "Projected"
    <3>1. CASE i \in DOMAIN s
      BY <1>4, <1>6, <1>7, <1>8, <2>1, <3>1
    <3>2. CASE i = Len(s) + 1
      BY <1>3, <1>5, <1>7, <2>1, <3>2
    <3> QED
      BY <1>4, <1>7, <2>2, <3>1, <3>2
  <2> QED
    BY <1>8, <2>1, <2>2 DEF Audited
<1> QED
  BY <1>3, <1>9 DEF Accepts

\* A command that is projected stays so.
LEMMA ProjectedStays ==
  ASSUME Inv, [Next]_vars, NEW d \in Command, IsProjected(d)
  PROVE  IsProjected(d)'
<1>1. CASE UNCHANGED journal
  BY <1>1 DEF IsProjected, Events
<1>2. ASSUME NEW c \in Command, NEW e \in Event, Record(c, e) PROVE IsProjected(d)'
  <2>1. Events(c)' = Events(c) \cup {e} /\ (d # c => journal'[d] = journal[d])
    BY <1>2, RecordAppends DEF Inv
  <2> QED
    BY <2>1 DEF IsProjected, Events
<1>3. ASSUME NEW w \in Worker, Queue(w) PROVE IsProjected(d)'
  <2>1. task[w].command \in Command /\ Queued(task[w].payload) \in Event
    BY <1>3, TaskInHand DEF Queue, Event, Inv
  <2> QED
    BY <1>1, <1>2, <1>3, <2>1 DEF Queue
<1>4. ASSUME NEW w \in Worker, AppendAnswer(w) PROVE IsProjected(d)'
  <2>1. task[w].command \in Command /\ answer[w] \in Event
    BY <1>4, TaskInHand DEF AppendAnswer, Inv, TypeOK
  <2> QED
    BY <1>1, <1>2, <1>4, <2>1 DEF AppendAnswer
<1> QED
  BY <1>1, <1>3, <1>4 DEF Next, Step, Start, Certify, Read, CallAnswered,
     CallFailed, DbFault, Crash, Edited, vars

\* A worker that was turned away carries a task, of a projected command.
TurnedAway ==
  \A w \in Worker : outcome[w] = "rejected" =>
    task[w] # None /\ IsProjected(task[w].command)

\* Every step keeps that.
LEMMA TurnedAwayStep ==
  ASSUME Inv, TurnedAway, [Next]_vars
  PROVE  TurnedAway'
<1> SUFFICES ASSUME NEW v \in Worker, outcome'[v] = "rejected"
             PROVE  (task[v] # None /\ IsProjected(task[v].command))'
  BY DEF TurnedAway
<1>1. CASE outcome[v] = "rejected" /\ task'[v] = task[v]
  <2>1. PICK c \in Command : task[v].command = c /\ task[v] # None /\ IsProjected(c)
    BY <1>1 DEF TurnedAway, Inv, TypeOK, Task
  <2>2. IsProjected(c)'
    BY <2>1, ProjectedStays
  <2> QED
    BY <1>1, <2>1, <2>2 DEF IsProjected, Events
<1>2. ASSUME NEW w \in Worker, Queue(w) PROVE outcome'[v] = outcome[v] /\ task' = task
  BY <1>2, IntentAccepted DEF Queue
<1>3. ASSUME AppendAnswer(v), ~Accepts(task[v].command, answer[v])
      PROVE  (task[v] # None /\ IsProjected(task[v].command))'
  <2>1. task[v] # None /\ IsProjected(task[v].command)
    BY <1>3, AnswerAccepted DEF AppendAnswer, Inv, TypeOK
  <2>2. task' = task /\ journal' = journal
    BY <1>3 DEF AppendAnswer
  <2> QED
    BY <2>1, <2>2 DEF IsProjected, Events
<1>4. ASSUME NEW w \in Worker, AppendAnswer(w)
      PROVE  \/ w = v /\ ~Accepts(task[v].command, answer[v])
             \/ outcome'[v] = outcome[v] /\ task' = task
  BY <1>4 DEF AppendAnswer, Return, Inv, TypeOK
<1>5. ASSUME NEW w \in Worker, NEW c \in Command, NEW p \in Payload, Start(w, c, p)
      PROVE  outcome'[v] = outcome[v] /\ task'[v] = task[v]
  BY <1>5 DEF Start, Inv, TypeOK
<1>6. ASSUME NEW w \in Worker, Certify(w) \/ Read(w) \/ DbFault(w) \/ Crash(w)
      PROVE  outcome'[v] = outcome[v] /\ task'[v] = task[v]
  BY <1>6 DEF Certify, Read, DbFault, Crash, Return, Inv, TypeOK
<1>7. ASSUME NEW w \in Worker, CallAnswered(w) \/ CallFailed(w)
      PROVE  outcome'[v] = outcome[v] /\ task'[v] = task[v]
  BY <1>7 DEF CallAnswered, CallFailed
<1>8. ASSUME NEW c \in Command, Edited(c)
      PROVE  outcome'[v] = outcome[v] /\ task'[v] = task[v]
  BY <1>8 DEF Edited, local
<1>9. CASE UNCHANGED vars
  BY <1>1, <1>9 DEF vars
<1> QED
  BY <1>1, <1>2, <1>3, <1>4, <1>5, <1>6, <1>7, <1>8, <1>9 DEF Next, Step

\* Whatever the workers do, the journal turns none of them away from a command
\* that nobody has projected yet.
THEOREM NobodyIsShutOut == Spec => []NobodyShutOut
<1>1. Init => TurnedAway
  BY DEF Init, TurnedAway
<1>2. Inv /\ TurnedAway /\ [Next]_vars => TurnedAway'
  BY TurnedAwayStep
<1>3. TurnedAway => NobodyShutOut
  BY DEF TurnedAway, NobodyShutOut
<1> QED
  BY InvariantHolds, <1>1, <1>2, <1>3, PTL DEF Spec

\* Nothing is ever posted before its intent is on record.
THEOREM IntentBeforePost == Spec => []IntentFirst
<1>1. Inv => IntentFirst
  BY DEF Inv
<1> QED
  BY InvariantHolds, <1>1, PTL

\* The projection on record is the certified payload's and its issue exists.
THEOREM ProjectionIsBound == Spec => []ProjectionBound
<1>1. Inv => ProjectionBound
  BY DEF Inv
<1> QED
  BY InvariantHolds, <1>1, PTL

\* The stage EscapeOutbox sees of a command.
Stage(c) == IF journal[c] = <<>> THEN "new"
            ELSE IF IsProjected(c) THEN "projected" ELSE "queued"

\* The initial state is the outbox's.
LEMMA OutboxInit == Init => Outbox!Init
BY DEF Init, Outbox!Init

\* An appended event is a step of the outbox or leaves its stage alone.
LEMMA OutboxRecord ==
  ASSUME Inv, NEW c \in Command, NEW e \in Event, Accepts(c, e), Record(c, e),
         UNCHANGED <<certificate, issue>>,
         e.type = "Projected" => issue[c] # None
  PROVE  Outbox!Queue(c) \/ Outbox!Project(c) \/ UNCHANGED Outbox!vars
<1>1. /\ \A d \in Command : d # c => journal'[d] = journal[d]
      /\ journal'[c] # <<>>
      /\ e \in Events(c) => journal'[c] = journal[c]
      /\ Events(c)' = Events(c) \cup {e}
  BY RecordAppends DEF Inv
<1>2. /\ journal[c] = <<>> => e.type = "Queued"
      /\ IsProjected(c) => e \in Events(c)
  BY AcceptedWhen DEF Inv
<1>3. IsProjected(c)' <=> IsProjected(c) \/ e.type = "Projected"
  BY <1>1 DEF IsProjected
<1>4. journal[c] = <<>> => ~IsProjected(c)
  BY DEF IsProjected, Events
<1>5. \A d \in Command : d # c => Stage(d)' = Stage(d)
  BY <1>1 DEF Stage, IsProjected, Events
<1> DEFINE F == [d \in Command |-> Stage(d)]
<1>6. ASSUME NEW s, Stage(c)' = s
      PROVE  F' = [F EXCEPT ![c] = s]
  BY <1>5, <1>6
<1>7. certificate[c] # None
  <2>1. e.payload \in Payload
    BY EventFields
  <2> QED
    BY <2>1 DEF Accepts
<1>8. CASE journal[c] = <<>>
  <2>1. Stage(c) = "new" /\ Stage(c)' = "queued"
    BY <1>1, <1>2, <1>3, <1>4, <1>8 DEF Stage
  <2> QED
    BY <1>6, <1>7, <2>1 DEF Outbox!Queue, Stage
<1>9. CASE journal[c] # <<>> /\ ~IsProjected(c) /\ e.type = "Projected"
  <2>1. Stage(c) = "queued" /\ Stage(c)' = "projected"
    BY <1>1, <1>3, <1>9 DEF Stage
  <2> QED
    BY <1>6, <1>9, <2>1 DEF Outbox!Project, Stage
<1>10. CASE journal[c] # <<>> /\ (IsProjected(c) \/ e.type # "Projected")
  <2>1. Stage(c)' = Stage(c)
    BY <1>1, <1>3, <1>10 DEF Stage
  <2>2. F' = F
    BY <1>5, <2>1
  <2> QED
    BY <2>2 DEF Outbox!vars, Stage
<1> QED
  BY <1>8, <1>9, <1>10

\* A remote issue that is created or edited after its intent is a step of the
\* outbox.
LEMMA OutboxTouch ==
  ASSUME Inv, NEW c \in Command, journal[c] # <<>>, UNCHANGED <<certificate, journal>>,
         \E r \in Revision : issue' = [issue EXCEPT ![c] = r]
  PROVE  Outbox!Touch(c)
<1>1. \A d \in Command : Stage(d)' = Stage(d)
  BY DEF Stage, IsProjected, Events
<1> QED
  BY <1>1 DEF Outbox!Touch, Stage

\* A step that changes no certificate, journal or issue is a stutter.
LEMMA OutboxStutter ==
  ASSUME UNCHANGED <<certificate, journal, issue>>
  PROVE  UNCHANGED Outbox!vars
BY DEF Outbox!vars, IsProjected, Events

\* Every step is a step of the outbox or a stutter.
LEMMA OutboxStep ==
  ASSUME Inv, [Next]_vars
  PROVE  [Outbox!Next]_(Outbox!vars)
<1>1. ASSUME NEW w \in Worker, NEW c \in Command, NEW p \in Payload, Start(w, c, p)
      PROVE  [Outbox!Next]_(Outbox!vars)
  BY <1>1, OutboxStutter DEF Start
<1>2. ASSUME NEW w \in Worker, Certify(w) PROVE [Outbox!Next]_(Outbox!vars)
  <2> DEFINE c == task[w].command
  <2>1. c \in Command /\ task[w].payload \in Payload
    BY <1>2, TaskInHand DEF Certify, Inv
  <2>2. CASE certificate[c] = None /\ certificate' = [certificate EXCEPT ![c] = task[w].payload]
    <3>1. \A d \in Command : Stage(d)' = Stage(d)
      BY <1>2 DEF Certify, Stage, IsProjected, Events
    <3>2. Outbox!Certify(c)
      BY <1>2, <2>1, <2>2, <3>1 DEF Certify, Outbox!Certify, Stage
    <3> QED
      BY <2>1, <3>2 DEF Outbox!Next
  <2>3. CASE UNCHANGED certificate
    BY <1>2, <2>3, OutboxStutter DEF Certify
  <2>4. certificate[c] = task[w].payload
          => [certificate EXCEPT ![c] = task[w].payload] = certificate
    BY <2>1 DEF Inv, TypeOK
  <2> QED
    BY <1>2, <2>2, <2>3, <2>4 DEF Certify
<1>3. ASSUME NEW w \in Worker, Read(w) PROVE [Outbox!Next]_(Outbox!vars)
  BY <1>3, OutboxStutter DEF Read
<1>4. ASSUME NEW w \in Worker, Queue(w) PROVE [Outbox!Next]_(Outbox!vars)
  <2> DEFINE e == Queued(task[w].payload)
  <2>1. task[w].command \in Command /\ e \in Event /\ e.type = "Queued"
    BY <1>4, TaskInHand DEF Queue, Event, Queued, Inv
  <2>2. CASE Accepts(task[w].command, e) /\ Record(task[w].command, e)
    BY <1>4, <2>1, <2>2, OutboxRecord DEF Queue, Outbox!Next
  <2>3. CASE UNCHANGED journal
    BY <1>4, <2>3, OutboxStutter DEF Queue
  <2> QED
    BY <1>4, <2>2, <2>3 DEF Queue
<1>5. ASSUME NEW w \in Worker, CallAnswered(w) PROVE [Outbox!Next]_(Outbox!vars)
  <2> DEFINE c == task[w].command
  <2>1. c \in Command /\ journal[c] # <<>>
    BY <1>5, TaskInHand DEF CallAnswered, Inv, WorkerInv, Knows
  <2>2. CASE issue' = issue
    BY <1>5, <2>2, OutboxStutter DEF CallAnswered
  <2>3. CASE \E r \in Revision : issue' = [issue EXCEPT ![c] = r]
    BY <1>5, <2>1, <2>3, OutboxTouch DEF CallAnswered, Outbox!Next
  <2> QED
    BY <1>5, <2>2, <2>3 DEF CallAnswered
<1>6. ASSUME NEW w \in Worker, CallFailed(w) PROVE [Outbox!Next]_(Outbox!vars)
  <2> DEFINE c == task[w].command
  <2>1. c \in Command /\ journal[c] # <<>>
    BY <1>6, TaskInHand DEF CallFailed, Inv, WorkerInv, Knows
  <2>2. CASE issue' = issue
    BY <1>6, <2>2, OutboxStutter DEF CallFailed
  <2>3. CASE \E r \in Revision : issue' = [issue EXCEPT ![c] = r]
    BY <1>6, <2>1, <2>3, OutboxTouch DEF CallFailed, Outbox!Next
  <2> QED
    BY <1>6, <2>2, <2>3 DEF CallFailed
<1>7. ASSUME NEW w \in Worker, AppendAnswer(w) PROVE [Outbox!Next]_(Outbox!vars)
  <2> DEFINE c == task[w].command
  <2>1. c \in Command /\ answer[w] \in Event
    BY <1>7, TaskInHand DEF AppendAnswer, Inv, TypeOK
  <2>2. answer[w].type = "Projected" => issue[c] # None
    BY <1>7 DEF AppendAnswer, Inv, WorkerInv, Knows
  <2>3. CASE Accepts(c, answer[w]) /\ Record(c, answer[w])
    BY <1>7, <2>1, <2>2, <2>3, OutboxRecord DEF AppendAnswer, Outbox!Next
  <2>4. CASE UNCHANGED journal
    BY <1>7, <2>4, OutboxStutter DEF AppendAnswer
  <2> QED
    BY <1>7, <2>3, <2>4 DEF AppendAnswer
<1>8. ASSUME NEW w \in Worker, DbFault(w) PROVE [Outbox!Next]_(Outbox!vars)
  BY <1>8, OutboxStutter DEF DbFault
<1>9. ASSUME NEW w \in Worker, Crash(w) PROVE [Outbox!Next]_(Outbox!vars)
  BY <1>9, OutboxStutter DEF Crash
<1>10. ASSUME NEW c \in Command, Edited(c) PROVE [Outbox!Next]_(Outbox!vars)
  <2>1. journal[c] # <<>>
    BY <1>10 DEF Edited, Inv, IntentFirst
  <2> QED
    BY <1>10, <2>1, OutboxTouch DEF Edited, Outbox!Next
<1>11. CASE UNCHANGED vars
  BY <1>11, OutboxStutter DEF vars
<1> QED
  BY <1>1, <1>2, <1>3, <1>4, <1>5, <1>6,
     <1>7, <1>8, <1>9, <1>10, <1>11 DEF Next, Step

\* The workers, the journal and the service implement the outbox.
THEOREM ImplementsOutbox == Spec => OutboxSpec
<1>1. Inv /\ [Next]_vars => [Outbox!Next]_(Outbox!vars)
  BY OutboxStep
<1> QED
  BY OutboxInit, InvariantHolds, <1>1, PTL DEF Spec, OutboxSpec, Outbox!Spec
=============================================================================
