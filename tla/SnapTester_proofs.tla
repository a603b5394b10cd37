--------------------------- MODULE SnapTester_proofs ---------------------------
(***************************************************************************)
(* Proofs about SnapTester, for any segment, and for runs of any length    *)
(* and number.                                                             *)
(***************************************************************************)
EXTENDS SnapTester, TLAPS

Idle == {"none", "new", "loop", "failed"}

(* Nobody asked the subscriber anything.                                   *)
Quiet(c) == queue[c] = <<>> /\ child[c] \in Idle

(* It was asked, and it has not answered, or the answer is on its way.     *)
Outstanding(c) ==
  \/ queue[c] = <<message>> /\ child[c] \in Idle /\ replies = 0
  \/ queue[c] = <<>> /\ child[c] \in {"check", "reply"} /\ asked[c] = message /\ replies = 0
  \/ queue[c] = <<>> /\ child[c] = "loop" /\ replies = 1

(* It was told to stop.                                                    *)
Stopped(c) ==
  \/ queue[c] = <<Exit>> /\ child[c] \in Idle
  \/ queue[c] = <<>> /\ child[c] = "done"

(* What the queues hold of a run that found nothing in them.               *)
Queues ==
  ~stale =>
    /\ owner \in {"fork", "open", "write", "commit", "send"} =>
         replies = 0 /\ \A c \in Children : Quiet(c)
    /\ owner = "receive" =>
         Outstanding(Process) /\ \A c \in Children \ {Process} : Quiet(c)
    /\ owner = "done" => replies = 0 /\ \A c \in Children : Stopped(c)

(* The message that is about to be sent, or was, is true of the segment.   *)
Truth ==
  /\ owner \in {"commit", "send", "receive"} =>
       i < NumWrites /\ message \in Request /\ message.number = draft[message.cell]
  /\ owner \in {"send", "receive"} => message.number = image[message.cell]

(* Where the loop variable and the first place are.                        *)
Place ==
  /\ owner = "none" => \A c \in Children : child[c] = "none"
  /\ owner \in {"fork", "open"} => i \in Children
  /\ owner \in {"commit", "send", "receive"} \/ (owner = "write" /\ i > 0) => first \in Cells

Inv == Agree /\ Queues /\ Truth /\ Place
-----------------------------------------------------------------------------
(* What the proofs use of the constants.                                   *)
LEMMA Constants ==
  /\ Exit \notin Request /\ Message = Request \cup {Exit} /\ Exit.cell = Nobody
  /\ Nobody \notin Cells /\ 0 \in Values
  /\ \A m \in Request : m.number \in Values /\ m.cell \in Cells
  /\ NumWrites \in Nat /\ NumWrites > 1 /\ SwitchAt \in Nat /\ MaxRuns \in Nat
BY TesterAssumption DEF Exit, Message, Request

(* The types, of which the message that Write makes is the one that says   *)
(* something: the place of it was written.                                 *)
LEMMA TypeStep ==
  ASSUME TypeOK, Truth, Place, [Next]_vars
  PROVE  TypeOK'
<1> USE Constants DEF TypeOK, store, locals, mqs, subs, Store!TypeOK, Goes
<1>1. CASE Start
  <2>1. message' \in Message /\ owner' = "fork" /\ runs' \in 0 .. MaxRuns /\ i' = 0
    BY <1>1 DEF Start
  <2>2. child' = [c \in Children |-> "none"] /\ stale' \in BOOLEAN
    BY <1>1 DEF Start
  <2> QED BY <1>1, <2>1, <2>2 DEF Start
<1>2. CASE Interrupt
  BY <1>2 DEF Interrupt
<1>3. CASE Fork \/ OpenQueue
  <2>1. CASE Fork
    BY <1>3, <2>1 DEF Fork
  <2>2. CASE OpenQueue
    <3>1. created' \subseteq Children /\ i' \in 0 .. NumWrites /\ owner' \in {"fork", "write"}
      BY <2>2 DEF OpenQueue, Children, Place
    <3> QED BY <2>2, <3>1 DEF OpenQueue
  <2> QED BY <1>3, <2>1, <2>2
<1>4. CASE Write
  <2>1. PICK c \in Cells, v \in Values :
          /\ Store!Write(c, v)
          /\ written' = written \cup {c}
          /\ first' = IF i = 0 THEN c ELSE first
          /\ IF i % Frequency = 0
             THEN \E t \in (IF i \in {0, NumWrites - 1} THEN {first'} ELSE written) :
                    /\ message' = [number |-> draft'[t], cell |-> t]
                    /\ owner' = "commit" /\ UNCHANGED i
             ELSE i' = i + 1 /\ UNCHANGED <<owner, message>>
    BY <1>4 DEF Write
  <2>2. draft' \in [Cells -> Values] /\ image' \in [Cells -> Values] /\ first' \in Cells
    BY <1>4, <2>1 DEF Store!Write, Place, Write
  <2>3. message' \in Message /\ owner' \in {"write", "commit"} /\ i' \in 0 .. NumWrites
    <3>1. CASE (i % Frequency) = 0
      <4>1. PICK t \in (IF i \in {0, NumWrites - 1} THEN {first'} ELSE written) :
                    /\ message' = [number |-> draft'[t], cell |-> t]
                    /\ owner' = "commit" /\ UNCHANGED i
        BY <2>1, <3>1
      <4>2. t \in Cells
        BY <2>2
      <4>3. message' \in Request
        BY <2>2, <4>1, <4>2 DEF Request
      <4> QED BY <4>1, <4>3
    <3>2. CASE (i % Frequency) # 0
      BY <1>4, <2>1, <3>2 DEF Write, More
    <3> QED BY <3>1, <3>2
  <2>4. written' \subseteq Cells
    BY <2>1
  <2> QED BY <1>4, <2>2, <2>3, <2>4 DEF Write
<1>5. CASE Commit
  BY <1>5 DEF Commit, Store!Publish
<1>6. CASE Send
  <2>1. Append(queue[Process], message) \in Seq(Message) /\ Process \in Children
    BY DEF Process, Children
  <2> QED BY <1>6, <2>1 DEF Send
<1>7. CASE Receive
  BY <1>7 DEF Receive, Truth
<1>8. CASE KillChildren
  <2>1. \A c \in Children : Append(queue[c], Exit) \in Seq(Message)
    OBVIOUS
  <2> QED BY <1>8, <2>1 DEF KillChildren
<1>9. ASSUME NEW c \in Children, Open(c) PROVE TypeOK'
  BY <1>9 DEF Open
<1>10. ASSUME NEW c \in Children, ReceiveMessage(c) PROVE TypeOK'
  <2>1. Tail(queue[c]) \in Seq(Message) /\ Head(queue[c]) \in Message
    BY <1>10 DEF ReceiveMessage
  <2> QED BY <1>10, <2>1 DEF ReceiveMessage
<1>11. ASSUME NEW c \in Children, Compare(c) PROVE TypeOK'
  <2>1. errors' \subseteq Children
    BY <1>11 DEF Compare
  <2> QED BY <1>11, <2>1 DEF Compare
<1>12. ASSUME NEW c \in Children, Reply(c) PROVE TypeOK'
  BY <1>12 DEF Reply
<1>13. CASE UNCHANGED vars
  BY <1>13 DEF vars
<1> QED BY <1>1, <1>2, <1>3, <1>4, <1>5, <1>6, <1>7, <1>8, <1>9, <1>10, <1>11, <1>12, <1>13
        DEF Next, Owner, Child

(* The owner writes nothing between the choice of a place and the answer.  *)
LEMMA TruthStep ==
  ASSUME TypeOK, Truth, Place, [Next]_vars
  PROVE  Truth' /\ Place'
<1> USE Constants DEF store, locals, mqs, subs, Goes
<1>1. CASE Start \/ Interrupt
  BY <1>1 DEF Start, Interrupt, Truth, Place, Children
<1>2. CASE Fork \/ OpenQueue
  BY <1>2 DEF Fork, OpenQueue, Truth, Place, Children
<1>3. CASE Write
  <2>1. PICK c \in Cells, v \in Values :
          /\ Store!Write(c, v)
          /\ first' = IF i = 0 THEN c ELSE first
          /\ written' = written \cup {c}
          /\ IF i % Frequency = 0
             THEN \E t \in (IF i \in {0, NumWrites - 1} THEN {first'} ELSE written) :
                    /\ message' = [number |-> draft'[t], cell |-> t]
                    /\ owner' = "commit" /\ UNCHANGED i
             ELSE i' = i + 1 /\ UNCHANGED <<owner, message>>
    BY <1>3 DEF Write
  <2>2. /\ draft' \in [Cells -> Values] /\ first' \in Cells /\ written \subseteq Cells
        /\ owner = "write" /\ i < NumWrites
    BY <1>3, <2>1 DEF Store!Write, Store!TypeOK, Place, Write, TypeOK, More
  <2>3. CASE (i % Frequency) = 0
    <3>1. PICK t \in (IF i \in {0, NumWrites - 1} THEN {first'} ELSE written) :
                    /\ message' = [number |-> draft'[t], cell |-> t]
                    /\ owner' = "commit" /\ UNCHANGED i
      BY <2>1, <2>3
    <3>2. t \in Cells
      BY <2>2
    <3>3. message' \in Request /\ message'.number = draft'[message'.cell]
      BY <2>2, <3>1, <3>2 DEF Request
    <3> QED BY <2>2, <3>1, <3>3 DEF Truth, Place
  <2>4. CASE (i % Frequency) # 0
    BY <2>1, <2>2, <2>4 DEF Truth, Place
  <2> QED BY <2>3, <2>4
<1>4. CASE Commit
  BY <1>4 DEF Commit, Store!Publish, Truth, Place
<1>5. CASE Send \/ Receive \/ KillChildren
  BY <1>5 DEF Send, Receive, KillChildren, Truth, Place
<1>6. ASSUME NEW c \in Children, Child(c) PROVE Truth' /\ Place'
  BY <1>6 DEF Child, Open, ReceiveMessage, Compare, Reply, Truth, Place
<1>7. CASE UNCHANGED vars
  BY <1>7 DEF vars, Truth, Place
<1> QED BY <1>1, <1>2, <1>3, <1>4, <1>5, <1>6, <1>7 DEF Next, Owner
(* Only one message is under way, and it is the one the owner waits for.   *)
LEMMA QueuesStep ==
  ASSUME TypeOK, Queues, Truth, Place, [Next]_vars
  PROVE  Queues'
<1> USE Constants DEF store, locals, mqs, subs, Goes, Idle
<1>1. CASE Start
  <2>1. /\ owner' = "fork" /\ UNCHANGED <<queue, replies>>
        /\ \A c \in Children : child'[c] = "none"
        /\ stale' = (replies > 0 \/ \E c \in Children : queue[c] # <<>>)
    BY <1>1 DEF Start
  <2>2. ~stale' => ~(replies > 0) /\ \A c \in Children : queue[c] = <<>>
    BY <2>1, Zenon
  <2>3. ~(replies > 0) => replies = 0
    BY DEF TypeOK
  <2> QED BY <2>1, <2>2, <2>3 DEF Queues, Quiet
<1>2. CASE Interrupt
  BY <1>2 DEF Interrupt, Queues
<1>3. CASE Fork
  BY <1>3 DEF Fork, Queues, Quiet, TypeOK
<1>4. CASE OpenQueue \/ Write \/ Commit
  <2>1. /\ UNCHANGED <<stale, queue, child, replies>>
        /\ owner \in {"open", "write", "commit"} /\ owner' \in {"fork", "write", "commit", "send"}
    BY <1>4 DEF OpenQueue, Write, Commit
  <2> QED BY <2>1 DEF Queues, Quiet
<1>5. CASE Send
  <2>1. /\ UNCHANGED <<stale, child, replies, message, i>> /\ owner = "send" /\ owner' = "receive"
        /\ queue' = [queue EXCEPT ![Process] = Append(@, message)]
    BY <1>5 DEF Send
  <2>2. Process \in Children /\ Process' = Process
    BY <2>1 DEF Process, Children
  <2>3. queue[Process] = <<>> => queue'[Process] = <<message>>
    BY <2>1, <2>2 DEF TypeOK
  <2>4. \A c \in Children \ {Process} : queue'[c] = queue[c]
    BY <2>1, <2>2 DEF TypeOK
  <2> HIDE DEF Process
  <2> QED BY <2>1, <2>2, <2>3, <2>4 DEF Queues, Quiet, Outstanding
<1>6. CASE Receive
  <2>1. /\ UNCHANGED <<stale, child, queue>> /\ owner = "receive" /\ owner' = "write"
        /\ replies > 0 /\ replies' = replies - 1
    BY <1>6 DEF Receive
  <2>2. ~stale => replies = 1 /\ \A c \in Children : Quiet(c)
    BY <2>1 DEF Queues, Quiet, Outstanding
  <2> QED BY <2>1, <2>2 DEF Queues, Quiet
<1>7. CASE KillChildren
  <2>1. /\ UNCHANGED <<stale, child, replies>> /\ owner = "write" /\ owner' = "done"
        /\ \A c \in Children : queue'[c] = Append(queue[c], Exit)
    BY <1>7 DEF KillChildren
  <2>2. \A c \in Children : queue[c] = <<>> => queue'[c] = <<Exit>>
    BY <2>1
  <2> QED BY <2>1, <2>2 DEF Queues, Quiet, Stopped
<1>8. ASSUME NEW c \in Children, Child(c) PROVE Queues'
  <2>1. UNCHANGED <<stale, owner, message, i>> /\ Process' = Process
    BY <1>8 DEF Child, Open, ReceiveMessage, Compare, Reply, Process
  <2>2. ASSUME NEW d \in Children \ {c}
        PROVE  child'[d] = child[d] /\ queue'[d] = queue[d] /\ asked'[d] = asked[d]
    BY <1>8 DEF Child, Open, ReceiveMessage, Compare, Reply, TypeOK
  <2>3. CASE Open(c)
    <3>1. /\ UNCHANGED <<queue, replies, asked>>
          /\ child[c] = "new" /\ child'[c] \in {"failed", "loop"}
      BY <2>3 DEF Open, TypeOK
    <3>2. Process \in Children
      BY DEF Process, Children
    <3> HIDE DEF Process
    <3>3. \A d \in Children : Quiet(d) => Quiet(d)'
      BY <2>2, <3>1 DEF Quiet
    <3>4. \A d \in Children : Stopped(d) => Stopped(d)'
      BY <2>2, <3>1 DEF Stopped
    <3>5. \A d \in Children : Outstanding(d) => Outstanding(d)'
      BY <2>1, <2>2, <3>1 DEF Outstanding
    <3> QED BY <2>1, <3>1, <3>2, <3>3, <3>4, <3>5 DEF Queues
  <2>4. CASE ReceiveMessage(c)
    <3>1. /\ UNCHANGED replies /\ child[c] = "loop" /\ queue[c] # <<>>
          /\ queue'[c] = Tail(queue[c])
          /\ IF Head(queue[c]) = Exit THEN child'[c] = "done" /\ UNCHANGED asked
             ELSE child'[c] = "check" /\ asked'[c] = Head(queue[c])
      BY <2>4 DEF ReceiveMessage, TypeOK
    <3>2. \A m : Head(<<m>>) = m /\ Tail(<<m>>) = <<>>
      OBVIOUS
    <3>3. ASSUME ~stale, owner = "receive"
          PROVE  c = Process /\ queue[c] = <<message>> /\ replies = 0 /\ message # Exit
      BY <3>1, <3>3 DEF Queues, Quiet, Outstanding, Truth
    <3>4. ASSUME ~stale, owner = "done"
          PROVE  queue[c] = <<Exit>>
      BY <3>1, <3>4 DEF Queues, Stopped
    <3>5. ~stale => owner \notin {"fork", "open", "write", "commit", "send"}
      BY <3>1 DEF Queues, Quiet
    <3> HIDE DEF Process
    <3>6. CASE ~stale /\ owner = "receive"
      <4>1. child'[c] = "check" /\ asked'[c] = message /\ queue'[c] = <<>>
        BY <3>1, <3>2, <3>3, <3>6
      <4>2. Outstanding(Process)'
        BY <2>1, <3>1, <3>3, <3>6, <4>1 DEF Outstanding
      <4>3. \A d \in Children \ {Process} : Quiet(d)'
        BY <2>2, <3>3, <3>6 DEF Queues, Quiet
      <4> QED BY <2>1, <3>6, <4>2, <4>3 DEF Queues
    <3>7. CASE ~stale /\ owner = "done"
      <4>1. child'[c] = "done" /\ queue'[c] = <<>>
        BY <3>1, <3>2, <3>4, <3>7
      <4> QED BY <2>1, <2>2, <3>1, <3>7, <4>1 DEF Queues, Stopped
    <3> QED BY <2>1, <3>5, <3>6, <3>7 DEF Queues
  <2>5. CASE Compare(c)
    <3>1. UNCHANGED <<queue, replies, asked>> /\ child[c] = "check" /\ child'[c] = "reply"
      BY <2>5 DEF Compare, TypeOK
    <3> HIDE DEF Process
    <3> QED BY <2>1, <2>2, <3>1 DEF Queues, Quiet, Outstanding, Stopped
  <2>6. CASE Reply(c)
    <3>1. UNCHANGED queue /\ replies' = replies + 1 /\ child[c] = "reply" /\ child'[c] = "loop"
      BY <2>6 DEF Reply, TypeOK
    <3> HIDE DEF Process
    <3> QED BY <2>1, <2>2, <3>1 DEF Queues, Quiet, Outstanding, Stopped
  <2> QED BY <1>8, <2>3, <2>4, <2>5, <2>6 DEF Child
<1>9. CASE UNCHANGED vars
  BY <1>9 DEF vars, Queues, Quiet, Outstanding, Stopped, Process
<1> QED BY <1>1, <1>2, <1>3, <1>4, <1>5, <1>6, <1>7, <1>8, <1>9 DEF Next, Owner

(* A comparison finds what the message says, in the image and the draft.   *)
LEMMA AgreeStep ==
  ASSUME Agree, Queues, Truth, Place, [Next]_vars
  PROVE  Agree'
<1> USE Constants DEF store, locals, mqs, subs
<1>1. TypeOK /\ TypeOK'
  BY TypeStep DEF Agree
<1>2. ASSUME NEW c \in Children, Compare(c) PROVE ~stale' => errors' = {}
  <2> SUFFICES ASSUME ~stale PROVE errors' = {}
    BY <1>2 DEF Compare
  <2>1. child[c] = "check" /\ owner # "none"
    BY <1>2 DEF Compare, Place
  <2>2. owner = "receive" /\ asked[c] = message
    BY <1>1, <2>1 DEF Queues, Quiet, Stopped, Outstanding, Idle, TypeOK
  <2>3. image[asked[c].cell] = asked[c].number /\ draft[asked[c].cell] = asked[c].number
    BY <2>2 DEF Truth
  <2> QED BY <1>2, <2>3 DEF Compare, Agree
<1>3. Start \/ Interrupt => (~stale' => errors' = {})
  BY DEF Start, Interrupt, Agree
<1>4. Owner => (~stale' => errors' = {})
  BY DEF Owner, Fork, OpenQueue, Write, Commit, Send, Receive, KillChildren, Agree
<1>5. ASSUME NEW c \in Children, Open(c) \/ ReceiveMessage(c) \/ Reply(c)
      PROVE  ~stale' => errors' = {}
  BY <1>5 DEF Open, ReceiveMessage, Reply, Agree
<1>6. UNCHANGED vars => (~stale' => errors' = {})
  BY DEF vars, Agree
<1> QED BY <1>1, <1>2, <1>3, <1>4, <1>5, <1>6 DEF Next, Child, Agree

-----------------------------------------------------------------------------
(* The inductive invariant: a run that found no messages has at most one   *)
(* of its own under way, and that one is true of the segment.              *)
THEOREM Invariance == Spec => []Inv
<1>1. Init => Inv
  <2> SUFFICES ASSUME Init PROVE Inv
    OBVIOUS
  <2>1. TypeOK
    <3>1. message \in Message /\ asked \in [Children -> Message]
      BY DEF Init, Message
    <3>2. queue \in [Children -> Seq(Message)] /\ replies \in Nat
      BY DEF Init
    <3>3. i \in 0 .. NumWrites /\ runs \in 0 .. MaxRuns
      BY Constants DEF Init
    <3> QED BY Constants, <3>1, <3>2, <3>3 DEF Init, TypeOK, Store!TypeOK
  <2> QED BY <2>1 DEF Init, Inv, Agree, Queues, Truth, Place
<1>2. Inv /\ [Next]_vars => Inv'
  BY AgreeStep, QueuesStep, TruthStep DEF Inv, Agree
<1> QED BY <1>1, <1>2, PTL DEF Spec

(* The test says FAILED of no segment that is a SnapStore, unless           *)
(* messages of an interrupted run were in the queues (Agree).              *)
THEOREM AlwaysAgree == Spec => []Agree
BY Invariance, PTL DEF Inv

(* A run that ends leaves no message for the next one (LeftClean).         *)
THEOREM AlwaysLeftClean == Spec => []LeftClean
<1>1. Inv => LeftClean
  BY DEF Inv, LeftClean, Queues, Stopped, Idle
<1> QED BY <1>1, Invariance, PTL
================================================================================
