-------------------------- MODULE LiveUpdatesProofs --------------------------
(***************************************************************************)
(* Machine-checked proofs about LiveUpdates, for any number of changes,    *)
(* disconnects, failures and GETs in flight, and any size of the queue.    *)
(***************************************************************************)
EXTENDS LiveUpdates, FiniteSetTheorems, TLAPS

-----------------------------------------------------------------------------
(* Sequences. *)

LEMMA AppendFacts ==
  ASSUME NEW S, NEW seq \in Seq(S), NEW e \in S
  PROVE  /\ Append(seq, e) \in Seq(S)
         /\ Len(seq) \in Nat /\ DOMAIN seq = 1..Len(seq)
         /\ Len(Append(seq, e)) = Len(seq) + 1
         /\ DOMAIN Append(seq, e) = 1..(Len(seq) + 1)
         /\ \A n \in DOMAIN seq : Append(seq, e)[n] = seq[n]
         /\ Append(seq, e)[Len(seq) + 1] = e
OBVIOUS

LEMMA TailFacts ==
  ASSUME NEW S, NEW seq \in Seq(S), seq # <<>>
  PROVE  /\ Tail(seq) \in Seq(S) /\ Head(seq) \in S /\ Head(seq) = seq[1]
         /\ Len(seq) \in Nat /\ Len(seq) >= 1 /\ DOMAIN seq = 1..Len(seq)
         /\ Len(Tail(seq)) = Len(seq) - 1
         /\ DOMAIN Tail(seq) = 1..(Len(seq) - 1)
         /\ \A n \in 1..(Len(seq) - 1) : Tail(seq)[n] = seq[n + 1]
OBVIOUS

-----------------------------------------------------------------------------
(* What the parts of the state are, and how they agree.                    *)

(* A number is given once, and only to a change that was made.             *)
Numbers ==
  /\ sequence \in Nat
  /\ kind \in Seq(Resources) /\ Len(kind) <= MaxChanges
  /\ number \in [Changes -> Nat]
  /\ \A c \in Changes : number[c] <= sequence /\ (number[c] # 0 => c \in Made)
  /\ \A c, d \in Changes : number[c] = number[d] /\ number[c] # 0 => c = d

(* The relay numbers what it was sent once; few announcements are numbered *)
(* and not yet queued.                                                     *)
Announcing ==
  /\ inbox \in Seq(Changes)
  /\ \A i \in DOMAIN inbox : inbox[i] \in Made /\ number[inbox[i]] = 0
  /\ \A i, j \in DOMAIN inbox : inbox[i] = inbox[j] => i = j
  /\ publishers \subseteq Made /\ \A c \in publishers : number[c] # 0
  /\ Cardinality(publishers) <= MaxPublishers
  /\ relay \in publishers \cup {Listening, Ended}

(* What is queued is numbered, and was queued once.                        *)
Queueing ==
  /\ queue \in Seq(Changes) /\ Len(queue) <= QueueSize
  /\ \A i \in DOMAIN queue :
       queue[i] \in Made /\ number[queue[i]] # 0 /\ queue[i] \notin publishers
  /\ \A i, j \in DOMAIN queue : queue[i] = queue[j] => i = j

Browsing ==
  /\ socket \in {"closed", "open", "subscribed"}
  /\ {lastSequence, first} \subseteq 0..sequence
  /\ first = 0 <=> lastSequence = 0
  /\ unheard \subseteq Nat
  /\ untold \subseteq Made

(* Of each resource: an answer is waited for only while its GET is in      *)
(* flight, and nothing is shown that was not made.                         *)
PageType == [gets : Seq(Nat), shown : 0..MaxChanges, newest : {"shown", "waiting", "lost"}]

Paging ==
  /\ page \in [Resources -> PageType]
  /\ \A r \in Resources : page[r].newest = "waiting" => page[r].gets # <<>>

Shape == Numbers /\ Announcing /\ Queueing /\ Browsing /\ Paging

LEMMA ShapeIsTyped == Shape => TypeOK
<1> SUFFICES ASSUME Shape PROVE TypeOK
  OBVIOUS
<1>1. \A c \in Made : c \in Changes
  BY QueueAssumption DEF Shape, Numbers, Made, Changes
<1>2. number \in [Changes -> 0..sequence]
  BY DEF Shape, Numbers
<1>3. \A c, d \in Made : number[c] = number[d] /\ number[c] # 0 => c = d
  BY <1>1 DEF Shape, Numbers
<1> QED
  BY <1>2, <1>3 DEF Shape, Numbers, Announcing, Queueing, Browsing, Paging, PageType, TypeOK

LEMMA ShapeInit == Init => Shape
<1> SUFFICES ASSUME Init PROVE Shape
  OBVIOUS
<1>1. Numbers
  BY QueueAssumption DEF Init, Numbers
<1>2. Announcing
  BY QueueAssumption, FS_EmptySet DEF Init, Announcing, Made
<1>3. Queueing /\ Browsing
  BY QueueAssumption DEF Init, Queueing, Browsing
<1>4. Paging
  BY QueueAssumption DEF Init, Paging, PageType, Loaded
<1> QED
  BY <1>1, <1>2, <1>3, <1>4 DEF Shape

-----------------------------------------------------------------------------
(* What the steps do.                                                      *)

LEMMA MadeFacts ==
  Numbers => /\ Len(kind) \in Nat /\ IsFiniteSet(Made)
             /\ \A c \in Made : c \in Changes /\ c \in Nat /\ c # 0
             /\ \A c \in Changes : c \in Nat /\ c # 0
BY QueueAssumption, FS_Interval DEF Numbers, Made, Changes

(* A GET that is answered or fails.                                        *)
PageStep == \E r \in Resources, i \in 1..MaxGets : GetAnswers(r, i) \/ GetFails(r, i)

LEMMA PageChanges ==
  PageStep => UNCHANGED <<kind, number, sequence, publishers, inbox, relay, socket, queue,
                          lastSequence, first, unheard, untold>>
BY DEF PageStep, GetAnswers, GetFails, transport, browser

LEMMA MadeGrows ==
  ASSUME Numbers, [Next]_vars
  PROVE  /\ kind' \in Seq(Resources) /\ Len(kind') <= MaxChanges /\ Made \subseteq Made'
         /\ \A c \in Made : kind'[c] = kind[c]
         /\ kind' = kind \/ Made' = Made \cup {Len(kind) + 1}
<1>1. Len(kind) \in Nat /\ kind \in Seq(Resources)
  BY DEF Numbers
<1>2. CASE kind' = kind
  BY <1>2 DEF Numbers, Made
<1>3. ASSUME NEW r \in Resources, Makes(r)
      PROVE  /\ kind' \in Seq(Resources) /\ Len(kind') <= MaxChanges
             /\ Made' = Made \cup {Len(kind) + 1}
             /\ \A c \in Made : kind'[c] = kind[c]
  BY <1>1, <1>3, QueueAssumption DEF Makes, Made
<1>4. \/ kind' = kind
      \/ \E r \in Resources : Makes(r)
  BY PageChanges DEF Next, ApiAnnounces, WorkerAnnounces, RelayFails, Progress, PageStep,
     RelayPublishes, Publish, Open, Subscribe, Handle, Disconnect, vars
<1> QED
  BY <1>2, <1>3, <1>4

(* A step that numbers an announcement.                                    *)
Numbering(c) ==
  /\ c \in Changes /\ c \in Made' /\ number[c] = 0
  /\ sequence' = sequence + 1 /\ number' = [number EXCEPT ![c] = sequence + 1]
  /\ Cardinality(publishers) < MaxPublishers /\ publishers' = publishers \cup {c}

LEMMA NumberSteps ==
  ASSUME Numbers, Announcing, [Next]_vars
  PROVE  \/ UNCHANGED <<number, sequence>> /\ publishers' \in SUBSET publishers
         \/ \E c \in Changes :
              /\ Numbering(c) /\ UNCHANGED <<queue, socket, unheard, first, lastSequence>>
              /\ (c \notin Made \/ (RelayPublishes /\ c = Head(inbox)))
<1>1. /\ Len(kind) \in Nat /\ \A c \in Made : c \in Changes
      /\ \A c \in Changes : c \notin Made => number[c] = 0
      /\ Made \subseteq Made' /\ (kind' = kind \/ Made' = Made \cup {Len(kind) + 1})
  BY MadeFacts, MadeGrows DEF Numbers
<1> DEFINE Numbers1(c) == /\ Numbering(c) /\ UNCHANGED <<queue, socket, unheard, first, lastSequence>>
                          /\ (c \notin Made \/ (RelayPublishes /\ c = Head(inbox)))
<1>2. ASSUME NEW r \in Resources, ApiAnnounces(r), Numbered(Len(kind) + 1)
      PROVE  \E c \in Changes : Numbers1(c)
  <2>1. PICK c : c = Len(kind) + 1
    OBVIOUS
  <2>2. c \in Changes /\ c \notin Made
    BY <1>1, <1>2, <2>1, QueueAssumption DEF ApiAnnounces, Makes, Changes, Made
  <2>3. c \in Made'
    <3>1. kind' = Append(kind, r) /\ kind \in Seq(Resources)
      BY <1>2 DEF ApiAnnounces, Makes, Numbers
    <3> QED
      BY <1>1, <2>1, <3>1 DEF Made
  <2>4. /\ Cardinality(publishers) < MaxPublishers /\ sequence' = sequence + 1
        /\ number' = [number EXCEPT ![c] = sequence + 1] /\ publishers' = publishers \cup {c}
        /\ UNCHANGED <<queue, socket, unheard, first, lastSequence>>
    BY <1>2, <2>1 DEF ApiAnnounces, Numbered, browser
  <2>5. number[c] = 0
    BY <1>1, <2>2
  <2>6. Numbering(c)
    BY <2>2, <2>3, <2>4, <2>5 DEF Numbering
  <2>7. c \in Changes /\ Numbers1(c)
    BY <2>2, <2>4, <2>6, Zenon
  <2> HIDE DEF Numbers1
  <2> QED
    BY <2>7
<1>3. ASSUME RelayPublishes
      PROVE  \E c \in Changes : Numbers1(c)
  <2>1. inbox \in Seq(Changes) /\ inbox # <<>>
    BY <1>3 DEF Announcing, RelayPublishes
  <2>2. PICK c : c = Head(inbox)
    OBVIOUS
  <2>3. c \in Changes /\ c = inbox[1] /\ 1 \in DOMAIN inbox
    BY <2>1, <2>2
  <2>4. c \in Made /\ number[c] = 0
    BY <2>3 DEF Announcing
  <2>5. /\ Cardinality(publishers) < MaxPublishers /\ sequence' = sequence + 1
        /\ number' = [number EXCEPT ![c] = sequence + 1] /\ publishers' = publishers \cup {c}
        /\ UNCHANGED <<queue, socket, unheard, first, lastSequence>>
    BY <1>3, <2>2 DEF RelayPublishes, Numbered, browser
  <2>6. Numbers1(c)
    BY <1>1, <1>3, <2>2, <2>3, <2>4, <2>5 DEF Numbering
  <2> QED
    BY <2>3, <2>6
<1>4. \/ RelayFails \/ (\E c \in Changes : Publish(c)) \/ Open \/ Subscribe \/ Handle
      \/ Disconnect \/ PageStep \/ UNCHANGED vars
      => UNCHANGED <<number, sequence>> /\ publishers' \in SUBSET publishers
  BY PageChanges DEF RelayFails, Publish, Open, Subscribe, Handle, Disconnect, vars, transport
<1>5. ASSUME NEW r \in Resources, WorkerAnnounces(r) \/ (ApiAnnounces(r) /\ ~Numbered(Len(kind) + 1))
      PROVE  UNCHANGED <<number, sequence>> /\ publishers' \in SUBSET publishers
  BY <1>5 DEF WorkerAnnounces, ApiAnnounces
<1> HIDE DEF Numbers1
<1>6. \/ UNCHANGED <<number, sequence>> /\ publishers' \in SUBSET publishers
      \/ \E c \in Changes : Numbers1(c)
  BY <1>2, <1>3, <1>4, <1>5 DEF Next, Progress, PageStep
<1> QED
  BY <1>6 DEF Numbers1

LEMMA NumbersStep == Numbers /\ Announcing /\ [Next]_vars => Numbers'
<1> SUFFICES ASSUME Numbers, Announcing, [Next]_vars PROVE Numbers'
  OBVIOUS
<1>1. kind' \in Seq(Resources) /\ Len(kind') <= MaxChanges /\ Made \subseteq Made'
  BY MadeGrows
<1>2. CASE UNCHANGED <<number, sequence>>
  BY <1>1, <1>2 DEF Numbers
<1>3. ASSUME NEW c \in Changes, Numbering(c)
      PROVE  Numbers'
  <2>1. /\ number' \in [Changes -> Nat] /\ number'[c] = sequence + 1 /\ c \in Made'
        /\ \A d \in Changes : d # c => number'[d] = number[d]
        /\ sequence' = sequence + 1 /\ sequence \in Nat
    BY <1>3 DEF Numbering, Numbers
  <2>2. \A d \in Changes : number'[d] \in Nat /\ number[d] \in Nat /\ number[d] <= sequence
    BY <2>1 DEF Numbers
  <2>3. \A d \in Changes : number'[d] <= sequence' /\ (number'[d] # 0 => d \in Made')
    BY <1>1, <2>1, <2>2 DEF Numbers
  <2>4. \A d, e \in Changes : number'[d] = number'[e] /\ number'[d] # 0 => d = e
    BY <2>1, <2>2 DEF Numbers
  <2> QED
    BY <1>1, <2>1, <2>3, <2>4 DEF Numbers
<1> QED
  BY <1>2, <1>3, NumberSteps

(* The worker's announcements go in at one end and out at the other.       *)
LEMMA InboxSteps ==
  ASSUME Numbers, Announcing, [Next]_vars
  PROVE  \/ ~RelayPublishes /\ inbox' \in {inbox, <<>>}
         \/ /\ inbox' = Append(inbox, Len(kind) + 1) /\ Len(kind) + 1 \in Changes
            /\ Len(kind) + 1 \in Made' /\ Len(kind) + 1 \notin Made
            /\ UNCHANGED <<number, publishers, relay>>
         \/ /\ RelayPublishes /\ inbox # <<>> /\ inbox' = Tail(inbox)
            /\ Numbering(Head(inbox)) /\ relay' = Head(inbox)
<1>1. ASSUME NEW r \in Resources, WorkerAnnounces(r)
      PROVE  \/ inbox' = inbox
             \/ /\ inbox' = Append(inbox, Len(kind) + 1) /\ Len(kind) + 1 \in Changes
                /\ Len(kind) + 1 \in Made' /\ Len(kind) + 1 \notin Made
                /\ UNCHANGED <<number, publishers, relay>>
  <2>1. Len(kind) \in Nat /\ Len(kind) < MaxChanges /\ kind' = Append(kind, r)
    BY <1>1, MadeFacts DEF WorkerAnnounces, Makes
  <2>2. Len(kind') = Len(kind) + 1
    BY <2>1 DEF Numbers
  <2> QED
    BY <1>1, <2>1, <2>2, QueueAssumption DEF WorkerAnnounces, Changes, Made
<1>2. CASE RelayPublishes
  <2>1. inbox \in Seq(Changes) /\ inbox # <<>>
    BY <1>2 DEF Announcing, RelayPublishes
  <2>2. Head(inbox) \in Changes /\ Head(inbox) = inbox[1] /\ 1 \in DOMAIN inbox
    BY <2>1
  <2>3. Head(inbox) \in Made /\ number[Head(inbox)] = 0 /\ Made \subseteq Made'
    BY <2>2, MadeGrows DEF Announcing
  <2> QED
    BY <1>2, <2>1, <2>2, <2>3 DEF RelayPublishes, Numbered, Numbering
<1>3. \/ RelayFails \/ (\E c \in Changes : Publish(c)) \/ Open \/ Subscribe \/ Handle
      \/ Disconnect \/ PageStep \/ UNCHANGED vars \/ (\E r \in Resources : ApiAnnounces(r))
      => inbox' \in {inbox, <<>>}
  BY PageChanges DEF RelayFails, Publish, Open, Subscribe, Handle, Disconnect, vars, transport, ApiAnnounces
<1> QED
  BY <1>1, <1>2, <1>3 DEF Next, Progress, PageStep

LEMMA AnnouncingStep == Numbers /\ Announcing /\ [Next]_vars => Announcing'
<1> SUFFICES ASSUME Numbers, Announcing, [Next]_vars PROVE Announcing'
  OBVIOUS
<1>1. Made \subseteq Made' /\ IsFiniteSet(Made) /\ \A c \in Made : c \in Changes
  BY MadeGrows, MadeFacts
<1>2. IsFiniteSet(publishers) /\ Cardinality(publishers) \in Nat
  BY <1>1, FS_Subset, FS_CardinalityType DEF Announcing
<1>3. /\ publishers' \subseteq Made' /\ \A c \in publishers' : number'[c] # 0
      /\ Cardinality(publishers') <= MaxPublishers
      /\ \A c \in Changes : number[c] = 0 => number'[c] = 0 \/ c \in publishers'
      /\ \A c \in Changes : number'[c] = number[c] \/ number[c] = 0
  <2>1. CASE UNCHANGED <<number, sequence>> /\ publishers' \in SUBSET publishers
    <3>1. Cardinality(publishers') <= Cardinality(publishers) /\ Cardinality(publishers') \in Nat
      BY <1>2, <2>1, FS_Subset, FS_CardinalityType
    <3> QED
      BY <1>1, <1>2, <2>1, <3>1, QueueAssumption DEF Announcing
  <2>2. ASSUME NEW c \in Changes, Numbering(c)
        PROVE  /\ publishers' \subseteq Made' /\ \A d \in publishers' : number'[d] # 0
               /\ Cardinality(publishers') <= MaxPublishers
               /\ \A d \in Changes : number[d] = 0 => number'[d] = 0 \/ d \in publishers'
               /\ \A d \in Changes : number'[d] = number[d] \/ number[d] = 0
    <3>1. Cardinality(publishers') <= Cardinality(publishers) + 1
      <4>1. Cardinality(publishers \cup {c}) =
              IF c \in publishers THEN Cardinality(publishers) ELSE Cardinality(publishers) + 1
        BY <1>2, FS_AddElement
      <4>2. publishers' = publishers \cup {c}
        BY <2>2 DEF Numbering
      <4> QED
        BY <1>2, <4>1, <4>2
    <3>2. /\ number'[c] # 0 /\ \A d \in Changes : d # c => number'[d] = number[d]
      BY <2>2 DEF Numbering, Numbers
    <3>3. Cardinality(publishers') \in Nat
      BY <1>2, <2>2, FS_AddElement, FS_CardinalityType DEF Numbering
    <3>4. Cardinality(publishers') <= MaxPublishers
      BY <1>2, <2>2, <3>1, <3>3, QueueAssumption DEF Numbering
    <3> QED
      BY <1>1, <2>2, <3>2, <3>4 DEF Numbering, Announcing
  <2> QED
    BY <2>1, <2>2, NumberSteps
<1>4. relay' \in publishers' \cup {Listening, Ended}
  <2>1. CASE RelayPublishes
    BY <2>1 DEF RelayPublishes, Numbered
  <2>2. ASSUME NEW c \in Changes, Publish(c) PROVE relay' \in publishers' \cup {Listening, Ended}
    BY <2>2 DEF Publish, Announcing
  <2>3. CASE RelayFails
    BY <2>3 DEF RelayFails
  <2>4. ASSUME NEW r \in Resources, ApiAnnounces(r) PROVE relay' \in publishers' \cup {Listening, Ended}
    BY <2>4 DEF ApiAnnounces, Numbered, Announcing
  <2>5. (\E r \in Resources : WorkerAnnounces(r)) \/ Open \/ Subscribe \/ Handle \/ Disconnect
          \/ PageStep \/ UNCHANGED vars => UNCHANGED <<publishers, relay>>
    BY PageChanges DEF WorkerAnnounces, Open, Subscribe, Handle, Disconnect, vars, transport
  <2> QED
    BY <2>1, <2>2, <2>3, <2>4, <2>5 DEF Next, Progress, PageStep, Announcing
<1>5. /\ inbox' \in Seq(Changes)
      /\ \A i \in DOMAIN inbox' : inbox'[i] \in Made' /\ number'[inbox'[i]] = 0
      /\ \A i, j \in DOMAIN inbox' : inbox'[i] = inbox'[j] => i = j
  <2>1. inbox \in Seq(Changes) /\ \A i \in DOMAIN inbox : inbox[i] \in Changes
    BY <1>1 DEF Announcing
  <2>2. CASE inbox' = <<>>
    BY <2>2
  <2>3. CASE inbox' = Append(inbox, Len(kind) + 1) /\ Len(kind) + 1 \in Changes
             /\ Len(kind) + 1 \in Made' /\ Len(kind) + 1 \notin Made
             /\ UNCHANGED <<number, publishers, relay>>
    <3> DEFINE c == Len(kind) + 1
    <3>1. c \in Changes /\ c \in Made' /\ c \notin Made /\ number[c] = 0 /\ number' = number
      BY <2>3 DEF Numbers
    <3> HIDE DEF c
    <3>2. /\ inbox' \in Seq(Changes) /\ DOMAIN inbox' = 1..(Len(inbox) + 1)
          /\ DOMAIN inbox = 1..Len(inbox) /\ Len(inbox) \in Nat
          /\ \A i \in DOMAIN inbox : inbox'[i] = inbox[i]
          /\ inbox'[Len(inbox) + 1] = c
      <4>1. inbox' = Append(inbox, c)
        BY <2>3 DEF c
      <4> QED
        BY <2>1, <3>1, <4>1, AppendFacts
    <3>3. \A i \in DOMAIN inbox' : i \in DOMAIN inbox \/ i = Len(inbox) + 1
      BY <3>2
    <3> QED
      BY <1>1, <3>1, <3>2, <3>3 DEF Announcing
  <2>4. CASE /\ inbox # <<>> /\ inbox' = Tail(inbox) /\ Numbering(Head(inbox))
    <3>1. /\ inbox' \in Seq(Changes) /\ Head(inbox) = inbox[1]
          /\ Len(inbox) \in Nat /\ Len(inbox) >= 1 /\ DOMAIN inbox = 1..Len(inbox)
          /\ DOMAIN inbox' = 1..(Len(inbox) - 1)
          /\ \A i \in 1..(Len(inbox) - 1) : inbox'[i] = inbox[i + 1]
      BY <2>1, <2>4, TailFacts
    <3>2. \A i \in DOMAIN inbox' : i \in Nat /\ i + 1 \in DOMAIN inbox /\ i + 1 # 1
                                   /\ inbox'[i] = inbox[i + 1]
      BY <3>1
    <3>3. 1 \in DOMAIN inbox
      BY <3>1
    <3>4. \A i \in DOMAIN inbox' : inbox'[i] # inbox[1]
      BY <3>2, <3>3 DEF Announcing
    <3>5. \A d \in Changes : d # inbox[1] => number'[d] = number[d]
      BY <2>4, <3>1 DEF Numbering, Numbers
    <3>6. \A i, j \in DOMAIN inbox' : inbox'[i] = inbox'[j] => i = j
      <4> SUFFICES ASSUME NEW i \in DOMAIN inbox', NEW j \in DOMAIN inbox', inbox'[i] = inbox'[j]
                   PROVE  i = j
        OBVIOUS
      <4>1. i + 1 = j + 1
        BY <3>2 DEF Announcing
      <4> QED
        BY <3>2, <4>1
    <3> QED
      BY <1>1, <2>1, <3>1, <3>2, <3>4, <3>5, <3>6 DEF Announcing
  <2>5. CASE ~RelayPublishes /\ inbox' = inbox
    <3>1. ASSUME NEW i \in DOMAIN inbox PROVE number'[inbox[i]] = 0
      <4>1. CASE number' = number
        BY <4>1 DEF Announcing
      <4>2. ASSUME NEW c \in Changes, Numbering(c), c \notin Made PROVE number'[inbox[i]] = 0
        <5>1. inbox[i] # c /\ inbox[i] \in Changes /\ number[inbox[i]] = 0
          BY <2>1, <4>2 DEF Announcing
        <5> QED
          BY <4>2, <5>1 DEF Numbering, Numbers
      <4> QED
        BY <2>5, <4>1, <4>2, NumberSteps
    <3> QED
      BY <1>1, <2>1, <2>5, <3>1 DEF Announcing
  <2> QED
    BY <2>2, <2>3, <2>4, <2>5, InboxSteps
<1> QED
  BY <1>3, <1>4, <1>5 DEF Announcing

(* What a step does to the queue: an announcement is put at its end, where *)
(* the first one may give way to it; the browser takes the first; or it is *)
(* lost with the connection.                                               *)
Enqueues(c) ==
  /\ c \in publishers /\ publishers' = publishers \ {c} /\ UNCHANGED <<number, socket>>
  /\ Len(queue) < QueueSize /\ queue' = Append(queue, c)

Displaces(c) ==
  /\ c \in publishers /\ publishers' = publishers \ {c} /\ UNCHANGED <<number, socket>>
  /\ socket = "subscribed"
  /\ Len(queue) = QueueSize /\ queue' = Append(Tail(queue), c)

LEMMA QueueSteps ==
  ASSUME Queueing, [Next]_vars
  PROVE  \/ queue' = queue
         \/ queue' = <<>>
         \/ \E c \in publishers : Enqueues(c) \/ Displaces(c)
         \/ Handle
<1>1. ASSUME NEW c \in Changes, Publish(c)
      PROVE  queue' = queue \/ (c \in publishers /\ (Enqueues(c) \/ Displaces(c)))
  <2>1. Len(queue) \in Nat /\ Len(queue) <= QueueSize
    BY DEF Queueing
  <2> QED
    BY <1>1, <2>1, QueueAssumption DEF Publish, Queued, Enqueues, Displaces
<1>2. \/ (\E r \in Resources : ApiAnnounces(r) \/ WorkerAnnounces(r))
      \/ RelayFails \/ RelayPublishes \/ Open \/ Subscribe \/ Disconnect \/ PageStep
      \/ UNCHANGED vars
      => queue' \in {queue, <<>>}
  BY PageChanges DEF ApiAnnounces, WorkerAnnounces, RelayPublishes, RelayFails, Open, Subscribe, Disconnect,
     vars, browser
<1> QED
  BY <1>1, <1>2 DEF Next, Progress, PageStep

(* The places of the queue after such a step.                              *)
LEMMA EnqueueFacts ==
  ASSUME Queueing, NEW c \in Changes, Enqueues(c)
  PROVE  /\ queue' \in Seq(Changes) /\ Len(queue) \in Nat /\ Len(queue') = Len(queue) + 1
         /\ DOMAIN queue = 1..Len(queue) /\ DOMAIN queue' = 1..Len(queue')
         /\ \A i \in DOMAIN queue : queue'[i] = queue[i]
         /\ queue'[Len(queue')] = c
<1>1. queue \in Seq(Changes) /\ queue' = Append(queue, c)
  BY DEF Queueing, Enqueues
<1> QED
  BY <1>1, AppendFacts

LEMMA DisplaceFacts ==
  ASSUME Queueing, NEW c \in Changes, Displaces(c)
  PROVE  /\ queue' \in Seq(Changes) /\ Len(queue) = QueueSize /\ Len(queue') = QueueSize
         /\ DOMAIN queue = 1..QueueSize /\ DOMAIN queue' = 1..QueueSize
         /\ \A i \in 1..(QueueSize - 1) : queue'[i] = queue[i + 1]
         /\ queue'[QueueSize] = c
<1>1. /\ queue \in Seq(Changes) /\ queue' = Append(Tail(queue), c)
      /\ Len(queue) = QueueSize /\ queue # <<>> /\ QueueSize \in Nat /\ QueueSize >= 1
  BY QueueAssumption DEF Queueing, Displaces
<1>2. PICK t : t = Tail(queue)
  OBVIOUS
<1>3. /\ t \in Seq(Changes) /\ DOMAIN queue = 1..QueueSize /\ Len(t) = QueueSize - 1
      /\ DOMAIN t = 1..(QueueSize - 1)
      /\ \A i \in 1..(QueueSize - 1) : t[i] = queue[i + 1]
  BY <1>1, <1>2, TailFacts
<1>4. /\ Append(t, c) \in Seq(Changes) /\ Len(Append(t, c)) = QueueSize
      /\ DOMAIN Append(t, c) = 1..QueueSize
      /\ \A i \in 1..(QueueSize - 1) : Append(t, c)[i] = t[i]
      /\ Append(t, c)[QueueSize] = c
  BY <1>1, <1>3, AppendFacts
<1> QED
  BY <1>1, <1>2, <1>3, <1>4

LEMMA HandleFacts ==
  ASSUME Queueing, Handle
  PROVE  /\ queue' \in Seq(Changes) /\ Len(queue) \in Nat /\ Len(queue) >= 1
         /\ Len(queue') = Len(queue) - 1 /\ UNCHANGED <<number, publishers, kind, sequence>>
         /\ DOMAIN queue = 1..Len(queue) /\ DOMAIN queue' = 1..(Len(queue) - 1)
         /\ \A i \in 1..(Len(queue) - 1) : queue'[i] = queue[i + 1]
         /\ Head(queue) = queue[1] /\ queue[1] \in Made /\ number[queue[1]] # 0
<1>1. queue \in Seq(Changes) /\ queue' = Tail(queue) /\ queue # <<>>
  BY DEF Queueing, Handle
<1>2. /\ queue' \in Seq(Changes) /\ Len(queue) \in Nat /\ Len(queue) >= 1
      /\ Len(queue') = Len(queue) - 1
      /\ DOMAIN queue = 1..Len(queue) /\ DOMAIN queue' = 1..(Len(queue) - 1)
      /\ \A i \in 1..(Len(queue) - 1) : queue'[i] = queue[i + 1]
      /\ Head(queue) = queue[1]
  BY <1>1, TailFacts
<1>3. 1 \in DOMAIN queue
  BY <1>2
<1> QED
  BY <1>2, <1>3 DEF Handle, Queueing, transport

LEMMA QueueingStep == Numbers /\ Announcing /\ Queueing /\ [Next]_vars => Queueing'
<1> SUFFICES ASSUME Numbers, Announcing, Queueing, [Next]_vars PROVE Queueing'
  OBVIOUS
<1>1. /\ Made \subseteq Made' /\ \A c \in Made : c \in Changes
      /\ \A c \in publishers : c \in Made /\ c \in Changes /\ number[c] # 0
  BY MadeGrows, MadeFacts DEF Announcing
<1>2. CASE queue' = queue
  <2>1. /\ \A c \in Changes : number[c] # 0 => number'[c] # 0
        /\ \A c \in Changes : number[c] # 0 /\ c \notin publishers => c \notin publishers'
    <3>1. CASE UNCHANGED <<number, sequence>> /\ publishers' \in SUBSET publishers
      BY <3>1
    <3>2. ASSUME NEW d \in Changes, Numbering(d)
          PROVE  /\ \A c \in Changes : number[c] # 0 => number'[c] # 0
                 /\ \A c \in Changes : number[c] # 0 /\ c \notin publishers => c \notin publishers'
      BY <3>2 DEF Numbering, Numbers
    <3> QED
      BY <3>1, <3>2, NumberSteps
  <2>2. \A i \in DOMAIN queue : queue[i] \in Changes
    BY <1>1 DEF Queueing
  <2> QED
    BY <1>1, <1>2, <2>1, <2>2 DEF Queueing
<1>3. CASE queue' = <<>>
  BY <1>3, QueueAssumption DEF Queueing
<1>4. ASSUME NEW c \in publishers, Enqueues(c)
      PROVE  Queueing'
  <2>1. /\ queue' \in Seq(Changes) /\ Len(queue) \in Nat /\ Len(queue') = Len(queue) + 1
        /\ DOMAIN queue = 1..Len(queue) /\ DOMAIN queue' = 1..Len(queue')
        /\ \A i \in DOMAIN queue : queue'[i] = queue[i]
        /\ queue'[Len(queue')] = c
    BY <1>1, <1>4, EnqueueFacts
  <2>2. /\ Len(queue) < QueueSize /\ number' = number /\ publishers' = publishers \ {c}
    BY <1>4 DEF Enqueues
  <2>3. \A i \in DOMAIN queue' : i \in DOMAIN queue \/ i = Len(queue')
    BY <2>1
  <2>4. Len(queue') <= QueueSize
    BY <2>1, <2>2, QueueAssumption
  <2>5. \A i \in DOMAIN queue' :
          queue'[i] \in Made' /\ number'[queue'[i]] # 0 /\ queue'[i] \notin publishers'
    BY <1>1, <2>1, <2>2, <2>3 DEF Queueing
  <2>6. \A i, j \in DOMAIN queue' : queue'[i] = queue'[j] => i = j
    BY <2>1, <2>3 DEF Queueing
  <2> QED
    BY <2>1, <2>4, <2>5, <2>6 DEF Queueing
<1>5. ASSUME NEW c \in publishers, Displaces(c)
      PROVE  Queueing'
  <2>1. /\ queue' \in Seq(Changes) /\ Len(queue') = QueueSize
        /\ DOMAIN queue = 1..QueueSize /\ DOMAIN queue' = 1..QueueSize
        /\ \A i \in 1..(QueueSize - 1) : queue'[i] = queue[i + 1]
        /\ queue'[QueueSize] = c
    BY <1>1, <1>5, DisplaceFacts
  <2>2. number' = number /\ publishers' = publishers \ {c}
    BY <1>5 DEF Displaces
  <2>3. \A i \in DOMAIN queue' : i = QueueSize
          \/ (i \in 1..(QueueSize - 1) /\ i + 1 \in DOMAIN queue /\ queue'[i] = queue[i + 1])
    BY <2>1, QueueAssumption
  <2>4. \A i \in DOMAIN queue' :
          queue'[i] \in Made' /\ number'[queue'[i]] # 0 /\ queue'[i] \notin publishers'
    BY <1>1, <2>1, <2>2, <2>3 DEF Queueing
  <2>5. ASSUME NEW i \in DOMAIN queue', NEW j \in DOMAIN queue', queue'[i] = queue'[j]
        PROVE  i = j
    <3>1. CASE i = QueueSize \/ j = QueueSize
      BY <2>1, <2>3, <2>5, <3>1 DEF Queueing
    <3>2. CASE i # QueueSize /\ j # QueueSize
      <4>1. i + 1 = j + 1
        BY <2>3, <2>5, <3>2 DEF Queueing
      <4> QED
        BY <2>1, <4>1, QueueAssumption
    <3> QED
      BY <3>1, <3>2
  <2> QED
    BY <2>1, <2>4, <2>5, QueueAssumption DEF Queueing
<1>6. CASE Handle
  <2>1. /\ queue' \in Seq(Changes) /\ Len(queue) \in Nat /\ Len(queue) >= 1
        /\ Len(queue') = Len(queue) - 1 /\ UNCHANGED <<number, publishers, kind>>
        /\ DOMAIN queue = 1..Len(queue) /\ DOMAIN queue' = 1..(Len(queue) - 1)
        /\ \A i \in 1..(Len(queue) - 1) : queue'[i] = queue[i + 1]
    BY <1>6, HandleFacts
  <2>2. \A i \in DOMAIN queue' : i \in Nat /\ i + 1 \in DOMAIN queue /\ queue'[i] = queue[i + 1]
    BY <2>1
  <2>3. \A i \in DOMAIN queue' :
          queue'[i] \in Made' /\ number'[queue'[i]] # 0 /\ queue'[i] \notin publishers'
    BY <1>1, <2>1, <2>2 DEF Queueing
  <2>4. ASSUME NEW i \in DOMAIN queue', NEW j \in DOMAIN queue', queue'[i] = queue'[j]
        PROVE  i = j
    <3>1. i + 1 = j + 1
      BY <2>2, <2>4 DEF Queueing
    <3> QED
      BY <2>2, <3>1
  <2>5. Len(queue') <= QueueSize
    BY <2>1, QueueAssumption DEF Queueing
  <2> QED
    BY <2>1, <2>3, <2>4, <2>5 DEF Queueing
<1> QED
  BY <1>2, <1>3, <1>4, <1>5, <1>6, QueueSteps

LEMMA BrowsingStep == Shape /\ [Next]_vars => Browsing'
<1> SUFFICES ASSUME Shape, [Next]_vars PROVE Browsing'
  OBVIOUS
<1>1. /\ Numbers /\ Announcing /\ Queueing /\ Browsing /\ Made \subseteq Made'
      /\ sequence \in Nat /\ sequence' \in Nat /\ sequence' >= sequence
      /\ lastSequence \in 0..sequence /\ first \in 0..sequence
  <2>1. sequence \in Nat /\ Numbers'
    BY NumbersStep DEF Shape, Numbers
  <2>2. sequence' = sequence \/ sequence' = sequence + 1
    BY NumberSteps DEF Shape, Numbering
  <2> QED
    BY <2>1, <2>2, MadeGrows DEF Shape, Numbers, Browsing
<1>2. CASE Handle
  <2>1. /\ lastSequence' = number[queue[1]] /\ queue[1] \in Changes /\ number[queue[1]] # 0
        /\ sequence' = sequence /\ kind' = kind
    BY <1>1, <1>2, HandleFacts, MadeFacts DEF Handle
  <2>2. lastSequence' \in 0..sequence /\ lastSequence' # 0
    BY <1>1, <2>1 DEF Numbers
  <2>3. first' = IF first = 0 THEN lastSequence' ELSE first
    BY <1>2 DEF Handle
  <2>4. untold' \subseteq untold /\ Made' = Made
    BY <1>2, <2>1 DEF Handle, Made
  <2>5. socket' = socket /\ unheard' = unheard
    BY <1>2 DEF Handle
  <2> QED
    BY <1>1, <2>1, <2>2, <2>3, <2>4, <2>5 DEF Browsing
<1>3. ASSUME NEW r \in Resources, ApiAnnounces(r) \/ WorkerAnnounces(r)
      PROVE  Browsing'
  <2>1. untold' = untold \cup {Len(kind) + 1} /\ Len(kind) + 1 \in Made'
    <3>1. kind' = Append(kind, r) /\ kind \in Seq(Resources) /\ untold' = untold \cup {Len(kind) + 1}
      BY <1>1, <1>3 DEF ApiAnnounces, WorkerAnnounces, Makes, Numbers
    <3> QED
      BY <3>1 DEF Made
  <2>2. UNCHANGED <<socket, lastSequence, first, unheard>>
    BY <1>3 DEF ApiAnnounces, WorkerAnnounces, browser
  <2> QED
    BY <1>1, <2>1, <2>2 DEF Browsing
<1>4. CASE Open
  <2>1. /\ socket' = "open" /\ untold' \subseteq untold /\ unheard' \subseteq Nat
        /\ UNCHANGED <<lastSequence, first>>
    BY <1>1, <1>4 DEF Open
  <2> QED
    BY <1>1, <2>1 DEF Browsing
<1>5. CASE Subscribe
  <2>1. /\ socket' = "subscribed" /\ unheard' \subseteq Nat
        /\ UNCHANGED <<lastSequence, first, untold>>
    BY <1>1, <1>5 DEF Subscribe
  <2> QED
    BY <1>1, <2>1 DEF Browsing
<1>6. CASE RelayFails \/ RelayPublishes \/ (\E c \in Changes : Publish(c)) \/ Disconnect
           \/ PageStep \/ UNCHANGED vars
  <2>1. /\ socket' \in {"closed", socket} /\ UNCHANGED <<lastSequence, first, unheard, untold>>
    BY <1>6, PageChanges DEF RelayFails, RelayPublishes, Publish, Disconnect, vars, browser
  <2> QED
    BY <1>1, <2>1 DEF Browsing
<1> QED
  BY <1>2, <1>3, <1>4, <1>5, <1>6 DEF Next, Progress, PageStep

(* What is left of the GETs when one has ended.                            *)
LEMMA WithoutFacts ==
  ASSUME NEW gets \in Seq(Nat), NEW i \in DOMAIN gets
  PROVE  /\ Without(gets, i) \in Seq(Nat) /\ Len(gets) \in Nat /\ Len(gets) >= 1
         /\ Len(Without(gets, i)) = Len(gets) - 1
         /\ i # Len(gets) => Without(gets, i) # <<>>
                             /\ Without(gets, i)[Len(gets) - 1] = gets[Len(gets)]
<1>1. Len(gets) \in Nat /\ DOMAIN gets = 1..Len(gets) /\ Len(gets) >= 1
  OBVIOUS
<1>2. \A j \in 1..(Len(gets) - 1) : gets[j] \in Nat /\ gets[j + 1] \in Nat
  BY <1>1
<1>3. Without(gets, i) \in [1..(Len(gets) - 1) -> Nat]
  BY <1>2 DEF Without
<1>4. Without(gets, i) \in Seq(Nat) /\ Len(Without(gets, i)) = Len(gets) - 1
  <2>1. PICK n : n = Len(gets) - 1
    OBVIOUS
  <2>2. PICK w : w = Without(gets, i)
    OBVIOUS
  <2>3. n \in Nat /\ w \in [1..n -> Nat]
    BY <1>1, <1>3, <2>1, <2>2
  <2>4. w \in Seq(Nat) /\ Len(w) = n
    BY <2>3
  <2> QED
    BY <2>1, <2>2, <2>4
<1>5. i # Len(gets) => Len(gets) - 1 >= 1 /\ Without(gets, i)[Len(gets) - 1] = gets[Len(gets)]
  BY <1>1 DEF Without
<1> QED
  BY <1>1, <1>4, <1>5

(* What is left of the GETs, and what has become of the newest.            *)
LEMMA EndedGetFacts ==
  ASSUME Numbers, Paging, NEW r \in Resources, NEW i \in DOMAIN page[r].gets,
         GetAnswers(r, i) \/ GetFails(r, i)
  PROVE  /\ page' \in [Resources -> PageType]
         /\ \A q \in Resources \ {r} : page'[q] = page[q]
         /\ page'[r].newest = "waiting" =>
              /\ page[r].newest = "waiting" /\ page'[r].gets # <<>>
              /\ page'[r].gets[Len(page'[r].gets)] = page[r].gets[Len(page[r].gets)]
         /\ page'[r].newest = "shown" =>
              \/ page[r].newest = "shown" /\ page'[r].shown = page[r].shown
              \/ page[r].newest = "waiting" /\ page'[r].shown >= page[r].gets[Len(page[r].gets)]
<1>1. /\ page[r] \in PageType /\ page[r].gets \in Seq(Nat) /\ Len(kind) \in Nat
      /\ Len(kind) <= MaxChanges /\ page[r].shown \in 0..MaxChanges
      /\ page[r].newest \in {"shown", "waiting", "lost"}
      /\ page[r].gets[i] \in Nat
  BY DEF Numbers, Paging, PageType
<1> DEFINE left == Without(page[r].gets, i)
<1>2. /\ left \in Seq(Nat) /\ Len(page[r].gets) \in Nat /\ Len(page[r].gets) >= 1
      /\ Len(left) = Len(page[r].gets) - 1
      /\ i # Len(page[r].gets) =>
           left # <<>> /\ left[Len(page[r].gets) - 1] = page[r].gets[Len(page[r].gets)]
  BY <1>1, WithoutFacts
<1> HIDE DEF left
<1>3. ASSUME NEW n \in page[r].gets[i]..Len(kind), NEW new,
             new = IF Newest(r, i) THEN "shown"
                   ELSE IF page[r].newest = "shown" THEN "lost" ELSE page[r].newest,
             page' = [page EXCEPT ![r] = [gets |-> left, shown |-> n, newest |-> new]]
      PROVE  /\ page' \in [Resources -> PageType]
             /\ \A q \in Resources \ {r} : page'[q] = page[q]
             /\ page'[r] = [gets |-> left, shown |-> n, newest |-> new]
  <2>1. n \in 0..MaxChanges /\ new \in {"shown", "waiting", "lost"}
    BY <1>1, <1>3, QueueAssumption
  <2>2. [gets |-> left, shown |-> n, newest |-> new] \in PageType
    BY <1>2, <2>1 DEF PageType
  <2> QED
    BY <1>3, <2>2 DEF Paging
<1>4. ASSUME NEW new, new = IF Newest(r, i) THEN "lost" ELSE page[r].newest,
             page' = [page EXCEPT ![r] = [gets |-> left, shown |-> page[r].shown, newest |-> new]]
      PROVE  /\ page' \in [Resources -> PageType]
             /\ \A q \in Resources \ {r} : page'[q] = page[q]
             /\ page'[r] = [gets |-> left, shown |-> page[r].shown, newest |-> new]
  <2>1. new \in {"shown", "waiting", "lost"}
    BY <1>1, <1>4
  <2>2. [gets |-> left, shown |-> page[r].shown, newest |-> new] \in PageType
    BY <1>1, <1>2, <2>1 DEF PageType
  <2> QED
    BY <1>4, <2>2 DEF Paging
<1>5. CASE GetAnswers(r, i)
  <2>1. PICK n \in page[r].gets[i]..Len(kind) :
          page' = [page EXCEPT ![r] =
            [gets |-> left, shown |-> n,
             newest |-> IF Newest(r, i) THEN "shown"
                        ELSE IF page[r].newest = "shown" THEN "lost" ELSE page[r].newest]]
    BY <1>5 DEF GetAnswers, left
  <2>2. PICK new : new = IF Newest(r, i) THEN "shown"
                         ELSE IF page[r].newest = "shown" THEN "lost" ELSE page[r].newest
    OBVIOUS
  <2>3. /\ page' \in [Resources -> PageType]
        /\ \A q \in Resources \ {r} : page'[q] = page[q]
        /\ page'[r] = [gets |-> left, shown |-> n, newest |-> new]
    BY <1>3, <2>1, <2>2
  <2>4. page'[r].newest = new /\ page'[r].shown = n /\ page'[r].gets = left
    BY <2>3
  <2>5. n >= page[r].gets[i]
    BY <1>1
  <2>6. CASE Newest(r, i)
    BY <2>2, <2>3, <2>4, <2>5, <2>6 DEF Newest
  <2>7. CASE ~Newest(r, i)
    <3>1. new # "shown" /\ (new = "waiting" => page[r].newest = "waiting" /\ i # Len(page[r].gets))
      BY <2>2, <2>7 DEF Newest
    <3> QED
      BY <1>2, <2>3, <2>4, <3>1
  <2> QED
    BY <2>6, <2>7
<1>6. CASE GetFails(r, i)
  <2>1. PICK new : new = IF Newest(r, i) THEN "lost" ELSE page[r].newest
    OBVIOUS
  <2>2. /\ page' \in [Resources -> PageType]
        /\ \A q \in Resources \ {r} : page'[q] = page[q]
        /\ page'[r] = [gets |-> left, shown |-> page[r].shown, newest |-> new]
    BY <1>4, <1>6, <2>1 DEF GetFails, left
  <2>3. page'[r].newest = new /\ page'[r].shown = page[r].shown /\ page'[r].gets = left
    BY <2>2
  <2>4. CASE Newest(r, i)
    BY <2>1, <2>2, <2>3, <2>4
  <2>5. CASE ~Newest(r, i)
    <3>1. new = page[r].newest /\ (new = "waiting" => i # Len(page[r].gets))
      BY <2>1, <2>5 DEF Newest
    <3> QED
      BY <1>2, <2>2, <2>3, <3>1
  <2> QED
    BY <2>4, <2>5
<1> QED
  BY <1>5, <1>6

(* Each resource is asked for as often as said, with all that was made.    *)
LEMMA RefetchFacts ==
  ASSUME Numbers, Paging, NEW times \in [Resources -> Nat], Refetches(times)
  PROVE  /\ page' \in [Resources -> PageType]
         /\ \A r \in Resources :
              IF times[r] = 0 THEN page'[r] = page[r]
              ELSE /\ page'[r].newest = "waiting" /\ page'[r].gets # <<>>
                   /\ page'[r].gets[Len(page'[r].gets)] = Len(kind)
<1>1. Len(kind) \in Nat /\ DOMAIN page = Resources
  BY DEF Numbers, Paging
<1> DEFINE asked(r) == page[r].gets \o [i \in 1..times[r] |-> Len(kind)]
<1>2. ASSUME NEW r \in Resources, times[r] # 0
      PROVE  /\ asked(r) \in Seq(Nat) /\ asked(r) # <<>> /\ asked(r)[Len(asked(r))] = Len(kind)
  <2>1. PICK t \in Nat : t = times[r] /\ t >= 1
    BY <1>2
  <2>2. PICK g : g = page[r].gets
    OBVIOUS
  <2>3. g \in Seq(Nat)
    BY <2>2 DEF Paging, PageType
  <2>4. PICK more : more = [i \in 1..t |-> Len(kind)]
    OBVIOUS
  <2>5. more \in Seq(Nat) /\ Len(more) = t /\ more[t] = Len(kind)
    <3>1. more \in [1..t -> Nat]
      BY <1>1, <2>4
    <3> QED
      BY <2>1, <2>4, <3>1
  <2>6. /\ g \o more \in Seq(Nat) /\ Len(g \o more) = Len(g) + t /\ Len(g) \in Nat
    BY <2>3, <2>5
  <2>7. (g \o more)[Len(g) + t] = more[t]
    BY <2>1, <2>3, <2>5
  <2>8. asked(r) = g \o more
    BY <2>1, <2>2, <2>4
  <2> HIDE DEF asked
  <2> QED
    BY <2>1, <2>5, <2>6, <2>7, <2>8
<1>3. ASSUME NEW r \in Resources
      PROVE  /\ page'[r] \in PageType
             /\ IF times[r] = 0 THEN page'[r] = page[r]
                ELSE /\ page'[r].newest = "waiting" /\ page'[r].gets # <<>>
                     /\ page'[r].gets[Len(page'[r].gets)] = Len(kind)
  <2>1. page[r] \in PageType
    BY DEF Paging
  <2>2. CASE times[r] = 0
    BY <2>1, <2>2 DEF Refetches
  <2>3. CASE times[r] # 0
    <3>1. page'[r] = [page[r] EXCEPT !.gets = asked(r), !.newest = "waiting"]
      BY <2>3 DEF Refetches
    <3>2. page'[r].gets = asked(r) /\ page'[r].newest = "waiting" /\ page'[r] \in PageType
      <4>1. asked(r) \in Seq(Nat)
        BY <1>2, <2>3
      <4> HIDE DEF asked
      <4> QED
        BY <2>1, <3>1, <4>1 DEF PageType
    <3> HIDE DEF asked
    <3> QED
      BY <1>2, <2>3, <3>2
  <2> QED
    BY <2>2, <2>3
<1>4. page' = [r \in Resources |-> page'[r]]
  BY DEF Refetches
<1> QED
  BY <1>3, <1>4

(* What a step does to the page: nothing, a GET ends, or GETs are sent; a  *)
(* resource one of whose changes is no longer untold is asked for.         *)
LEMMA PageSteps ==
  ASSUME Shape, [Next]_vars
  PROVE  \/ page' = page /\ \A c \in untold : c \in untold'
         \/ \E r \in Resources : \E i \in DOMAIN page[r].gets :
              (GetAnswers(r, i) \/ GetFails(r, i)) /\ untold' = untold
         \/ \E times \in [Resources -> Nat] :
              /\ Refetches(times) /\ kind' = kind
              /\ \A c \in untold : c \notin untold' => times[kind[c]] # 0
<1>1. CASE Handle
  <2> DEFINE resource == kind[Head(queue)]
             missed == lastSequence > 0 /\ number[Head(queue)] # lastSequence + 1
             times == [r \in Resources |->
                        (IF missed THEN 1 ELSE 0) + (IF r = resource THEN 1 ELSE 0)]
  <2>1. times \in [Resources -> Nat] /\ kind' = kind
    BY <1>1 DEF Handle
  <2>2. Refetches(times)
    BY <1>1 DEF Handle
  <2>3. untold' = IF missed THEN {} ELSE {c \in untold : kind[c] # resource}
    BY <1>1 DEF Handle
  <2>4. ASSUME NEW c \in untold, c \notin untold'
        PROVE  times[kind[c]] # 0
    <3>1. kind[c] \in Resources
      BY DEF Shape, Browsing, Numbers, Made
    <3>2. missed \/ kind[c] = resource
      BY <2>3, <2>4
    <3> HIDE DEF missed, resource
    <3> QED
      BY <3>1, <3>2
  <2> HIDE DEF times
  <2> QED
    BY <2>1, <2>2, <2>4
<1>2. CASE Open
  <2>1. CASE untold' = untold /\ page' = page
    BY <2>1
  <2>2. CASE Refetches(Once) /\ kind' = kind
    <3>1. Once \in [Resources -> Nat] /\ \A c \in untold : Once[kind[c]] # 0
      BY DEF Shape, Browsing, Numbers, Made, Once
    <3> QED
      BY <2>2, <3>1
  <2> QED
    BY <1>2, <2>1, <2>2 DEF Open
<1>3. CASE PageStep
  BY <1>3 DEF PageStep, GetAnswers, GetFails
<1>4. CASE ~Handle /\ ~Open /\ ~PageStep
  <2>1. page' = page /\ \A c \in untold : c \in untold'
    BY <1>4 DEF Next, Progress, PageStep, ApiAnnounces, WorkerAnnounces, Makes, RelayFails,
       RelayPublishes, Publish, Subscribe, Disconnect, vars
  <2> QED
    BY <2>1
<1> QED
  BY <1>1, <1>2, <1>3, <1>4

LEMMA PagingStep == Shape /\ [Next]_vars => Paging'
<1> SUFFICES ASSUME Shape, [Next]_vars PROVE Paging'
  OBVIOUS
<1>1. Numbers /\ Paging
  BY DEF Shape
<1>2. CASE page' = page
  BY <1>1, <1>2 DEF Paging
<1>3. ASSUME NEW r \in Resources, NEW i \in DOMAIN page[r].gets, GetAnswers(r, i) \/ GetFails(r, i)
      PROVE  Paging'
  <2>1. /\ page' \in [Resources -> PageType]
        /\ \A q \in Resources \ {r} : page'[q] = page[q]
        /\ page'[r].newest = "waiting" => page'[r].gets # <<>>
    BY <1>1, <1>3, EndedGetFacts
  <2> QED
    BY <1>1, <2>1 DEF Paging
<1>4. ASSUME NEW times \in [Resources -> Nat], Refetches(times)
      PROVE  Paging'
  <2>1. /\ page' \in [Resources -> PageType]
        /\ \A r \in Resources : page'[r] = page[r] \/ page'[r].gets # <<>>
    BY <1>1, <1>4, RefetchFacts
  <2> QED
    BY <1>1, <2>1 DEF Paging
<1> QED
  BY <1>2, <1>3, <1>4, PageSteps

LEMMA ShapeStep == Shape /\ [Next]_vars => Shape'
BY NumbersStep, AnnouncingStep, QueueingStep, BrowsingStep, PagingStep DEF Shape

LEMMA ShapeInvariant == Spec => []Shape
BY ShapeInit, ShapeStep, PTL DEF Spec

(* Every variable has its type; numbers are given once, and only what is   *)
(* numbered is queued.                                                     *)
THEOREM TypeCorrect == Spec => []TypeOK
BY ShapeInvariant, ShapeIsTyped, PTL

-----------------------------------------------------------------------------
(* The numbers the browser compares.                                       *)

(* Only what is made becomes untold; opening the socket again, a gap, and  *)
(* handling an announcement of its resource tell the browser.              *)
LEMMA UntoldSteps ==
  ASSUME Shape, [Next]_vars
  PROVE  /\ \A c \in untold' : c \in untold \/ (c \notin Made /\ c \in Changes)
         /\ Handle =>
              /\ untold' \subseteq untold /\ queue[1] \notin untold'
              /\ lastSequence' = number[queue[1]]
              /\ first' = IF first = 0 THEN lastSequence' ELSE first
              /\ lastSequence > 0 /\ lastSequence' # lastSequence + 1 => untold' = {}
         /\ ~Handle => UNCHANGED <<lastSequence, first>>
<1>1. Numbers /\ Queueing /\ Browsing
  BY DEF Shape
<1>2. CASE Handle
  <2>1. Head(queue) = queue[1] /\ queue[1] \in Made
    BY <1>1, <1>2, HandleFacts
  <2>2. untold' \subseteq untold /\ queue[1] \notin untold'
    BY <1>2, <2>1 DEF Handle
  <2> QED
    BY <1>2, <2>1, <2>2 DEF Handle
<1>3. ASSUME NEW r \in Resources, ApiAnnounces(r) \/ WorkerAnnounces(r)
      PROVE  /\ \A c \in untold' : c \in untold \/ (c \notin Made /\ c \in Changes)
             /\ UNCHANGED <<lastSequence, first>>
  <2>1. /\ Len(kind) \in Nat /\ Len(kind) < MaxChanges
        /\ untold' = untold \cup {Len(kind) + 1} /\ UNCHANGED <<lastSequence, first>>
    BY <1>1, <1>3, MadeFacts DEF ApiAnnounces, WorkerAnnounces, Makes, browser
  <2>2. Len(kind) + 1 \notin Made /\ Len(kind) + 1 \in Changes
    BY <2>1, QueueAssumption DEF Made, Changes
  <2> QED
    BY <2>1, <2>2
<1>4. ASSUME ~Handle, ~\E r \in Resources : ApiAnnounces(r) \/ WorkerAnnounces(r)
      PROVE  untold' \subseteq untold /\ UNCHANGED <<lastSequence, first>>
  BY <1>4, PageChanges DEF Next, Progress, PageStep, RelayFails, RelayPublishes, Publish, Open,
     Subscribe, Disconnect, vars, browser
<1>5. CASE ~Handle
  BY <1>3, <1>4, <1>5
<1> QED
  BY <1>2, <1>5

(* A change keeps the number it has, and no number of the past is given.   *)
LEMMA NumberFacts ==
  ASSUME Shape, [Next]_vars
  PROVE  /\ sequence \in Nat /\ first \in Nat /\ lastSequence \in Nat /\ lastSequence <= sequence
         /\ \A c \in Changes : number[c] \in Nat /\ number'[c] \in Nat
         /\ \A c \in Changes : number[c] # 0 => number'[c] = number[c]
         /\ \A c \in Changes : number'[c] # number[c] => number'[c] > sequence
         /\ \A c \in Changes \ Made : number[c] = 0
         /\ untold \subseteq Changes /\ publishers \subseteq Changes
         /\ \A i \in DOMAIN queue : queue[i] \in Changes
<1>1. /\ number \in [Changes -> Nat] /\ \A c \in Made : c \in Changes
      /\ Numbers /\ Announcing /\ Queueing /\ Browsing
  BY MadeFacts DEF Shape, Numbers
<1>2. CASE number' = number
  BY <1>1, <1>2 DEF Numbers, Announcing, Queueing, Browsing
<1>3. ASSUME NEW c \in Changes, Numbering(c)
      PROVE  /\ \A d \in Changes : number'[d] \in Nat
             /\ \A d \in Changes : number[d] # 0 => number'[d] = number[d]
             /\ \A d \in Changes : number'[d] # number[d] => number'[d] > sequence
  BY <1>1, <1>3 DEF Numbering, Numbers
<1>4. /\ \A d \in Changes : number'[d] \in Nat
      /\ \A d \in Changes : number[d] # 0 => number'[d] = number[d]
      /\ \A d \in Changes : number'[d] # number[d] => number'[d] > sequence
  BY <1>1, <1>2, <1>3, NumberSteps
<1> QED
  BY <1>1, <1>4 DEF Numbers, Announcing, Queueing, Browsing

LEMMA PassedInit == Init => PassedIsRefetched
BY DEF Init, PassedIsRefetched

LEMMA PassedStep == Shape /\ PassedIsRefetched /\ [Next]_vars => PassedIsRefetched'
<1> SUFFICES ASSUME Shape, PassedIsRefetched, [Next]_vars,
                    NEW c \in untold', number'[c] # 0, number'[c] \in first'..lastSequence'
             PROVE  FALSE
  BY DEF PassedIsRefetched
<1>1. /\ \A d \in Changes : number[d] # 0 => number'[d] = number[d]
      /\ \A d \in Changes : number'[d] # number[d] => number'[d] > sequence
      /\ \A d \in Changes \ Made : number[d] = 0
      /\ \A d \in Changes : number[d] \in Nat /\ number'[d] \in Nat
      /\ untold \subseteq Changes /\ sequence \in Nat /\ first \in Nat /\ lastSequence \in Nat
      /\ lastSequence <= sequence
  BY NumberFacts
<1>2. c \in untold \/ (c \notin Made /\ c \in Changes)
  BY UntoldSteps
<1>3. CASE ~Handle
  <2>1. UNCHANGED <<lastSequence, first>>
    BY <1>3, UntoldSteps
  <2>2. number'[c] = number[c] /\ number[c] # 0
    BY <1>1, <1>2, <2>1
  <2> QED
    BY <1>1, <1>2, <2>1, <2>2 DEF PassedIsRefetched
<1>4. CASE Handle
  <2> DEFINE h == queue[1]
  <2>1. /\ number' = number /\ h \in Changes /\ number[h] # 0 /\ h \in Made
    BY <1>4, HandleFacts, MadeFacts DEF Shape
  <2>2. /\ c \in untold /\ h # c
        /\ lastSequence' = number[h]
        /\ first' = IF first = 0 THEN lastSequence' ELSE first
        /\ lastSequence > 0 => lastSequence' = lastSequence + 1
    BY <1>4, UntoldSteps
  <2>3. number[c] # number[h]
    BY <1>1, <2>1, <2>2 DEF Shape, Numbers
  <2>4. first = 0 <=> lastSequence = 0
    BY DEF Shape, Browsing
  <2> HIDE DEF h
  <2>5. CASE lastSequence = 0
    BY <1>1, <2>1, <2>2, <2>3, <2>4, <2>5
  <2>6. CASE lastSequence > 0
    <3>1. number[c] \in first..lastSequence
      BY <1>1, <2>1, <2>2, <2>3, <2>4, <2>6
    <3> QED
      BY <2>1, <2>2, <3>1 DEF PassedIsRefetched
  <2> QED
    BY <1>1, <2>5, <2>6
<1> QED
  BY <1>3, <1>4

(* PassedIsRefetched: whatever was dropped from a full queue, queued in      *)
(* another order than it was numbered, or lost with a connection, a change *)
(* whose number the browser has passed, it was told to refetch             *)
(* (live-updates.ts:58-73, live_updates.py:25-40).                         *)
THEOREM PassedAreRefetched == Spec => []PassedIsRefetched
BY PassedInit, PassedStep, ShapeInvariant, PTL DEF Spec

-----------------------------------------------------------------------------
(* Announcements that overtake each other.                                 *)

(* The announcements that are to follow the i-th of the queue and were     *)
(* numbered before it.                                                     *)
Overtaking(i) ==
  {c \in Changes :
     /\ c \in publishers \/ \E j \in DOMAIN queue : j > i /\ queue[j] = c
     /\ number[c] < number[queue[i]]}

FewOvertake == \A i \in DOMAIN queue : Cardinality(Overtaking(i)) < MaxPublishers

LEMMA OvertakingFinite ==
  ASSUME NEW i
  PROVE  IsFiniteSet(Overtaking(i)) /\ Cardinality(Overtaking(i)) \in Nat
<1>1. IsFiniteSet(Changes)
  BY QueueAssumption, FS_Interval DEF Changes
<1>2. Overtaking(i) \in SUBSET Changes
  BY DEF Overtaking
<1> QED
  BY <1>1, <1>2, FS_Subset, FS_CardinalityType

LEMMA FewerOvertake ==
  ASSUME FewOvertake, NEW i \in DOMAIN queue, NEW T \in SUBSET Overtaking(i)
  PROVE  Cardinality(T) < MaxPublishers
<1>1. IsFiniteSet(Overtaking(i)) /\ Cardinality(Overtaking(i)) \in Nat
  BY OvertakingFinite
<1>2. Cardinality(T) <= Cardinality(Overtaking(i)) /\ IsFiniteSet(T)
  BY <1>1, FS_Subset
<1>3. Cardinality(T) \in Nat
  BY <1>2, FS_CardinalityType
<1> QED
  BY <1>1, <1>2, <1>3, QueueAssumption DEF FewOvertake

LEMMA OvertakeInit == Init => FewOvertake
BY DEF Init, FewOvertake

LEMMA OvertakeStep == Shape /\ FewOvertake /\ [Next]_vars => FewOvertake'
<1> SUFFICES ASSUME Shape, FewOvertake, [Next]_vars PROVE FewOvertake'
  OBVIOUS
<1>1. /\ \A c \in Changes : number[c] \in Nat /\ number'[c] \in Nat
      /\ \A c \in Changes : number[c] # 0 => number'[c] = number[c]
      /\ publishers \subseteq Changes
      /\ \A i \in DOMAIN queue : queue[i] \in Changes /\ number[queue[i]] # 0
      /\ Queueing /\ Announcing /\ Numbers
  BY NumberFacts DEF Shape, Queueing
<1>2. CASE queue' = queue
  <2> SUFFICES ASSUME NEW i \in DOMAIN queue
               PROVE  Cardinality(Overtaking(i)') < MaxPublishers
    BY <1>2 DEF FewOvertake
  <2>1. \A c \in publishers' : c \in publishers \/ number'[c] > number'[queue[i]]
    <3>1. CASE publishers' \in SUBSET publishers
      BY <3>1
    <3>2. ASSUME NEW c \in Changes, Numbering(c)
          PROVE  \A d \in publishers' : d \in publishers \/ number'[d] > number'[queue[i]]
      <4>1. /\ number'[c] = sequence + 1 /\ queue[i] \in Changes /\ number'[queue[i]] = number[queue[i]]
            /\ number[queue[i]] <= sequence /\ sequence \in Nat
        BY <1>1, <3>2 DEF Numbering, Numbers
      <4> QED
        BY <1>1, <3>2, <4>1 DEF Numbering
    <3> QED
      BY <1>1, <3>1, <3>2, NumberSteps
  <2>2. Overtaking(i)' \subseteq Overtaking(i)
    <3> SUFFICES ASSUME NEW c \in Overtaking(i)' PROVE c \in Overtaking(i)
      OBVIOUS
    <3>1. /\ c \in Changes /\ number'[c] < number'[queue[i]]
          /\ c \in publishers' \/ \E j \in DOMAIN queue : j > i /\ queue[j] = c
      BY <1>2 DEF Overtaking, Changes
    <3>2. queue[i] \in Changes /\ number'[queue[i]] = number[queue[i]]
      BY <1>1
    <3>3. c \in publishers \/ \E j \in DOMAIN queue : j > i /\ queue[j] = c
      BY <1>1, <2>1, <3>1, <3>2
    <3>4. number[c] # 0
      BY <1>1, <3>3 DEF Announcing
    <3> QED
      BY <1>1, <3>1, <3>2, <3>3, <3>4 DEF Overtaking
  <2> QED
    BY <2>2, FewerOvertake
<1>3. CASE queue' = <<>>
  BY <1>3 DEF FewOvertake
<1>4. ASSUME NEW c \in publishers, Enqueues(c)
      PROVE  FewOvertake'
  <2>1. /\ Len(queue) \in Nat /\ Len(queue') = Len(queue) + 1
        /\ DOMAIN queue = 1..Len(queue) /\ DOMAIN queue' = 1..Len(queue')
        /\ \A i \in DOMAIN queue : queue'[i] = queue[i]
        /\ queue'[Len(queue')] = c /\ number' = number /\ publishers' = publishers \ {c}
    BY <1>1, <1>4, EnqueueFacts DEF Enqueues
  <2> SUFFICES ASSUME NEW i \in DOMAIN queue'
               PROVE  Cardinality(Overtaking(i)') < MaxPublishers
    BY DEF FewOvertake
  <2>2. CASE i \in DOMAIN queue
    <3>1. Overtaking(i)' \subseteq Overtaking(i)
      <4> SUFFICES ASSUME NEW d \in Overtaking(i)' PROVE d \in Overtaking(i)
        OBVIOUS
      <4>1. /\ d \in Changes /\ number[d] < number[queue[i]]
            /\ d \in publishers' \/ \E j \in DOMAIN queue' : j > i /\ queue'[j] = d
        BY <2>1, <2>2 DEF Overtaking, Changes
      <4>2. \A j \in DOMAIN queue' : j \in DOMAIN queue \/ queue'[j] = c
        BY <2>1
      <4> QED
        BY <1>4, <2>1, <4>1, <4>2 DEF Overtaking
    <3> QED
      BY <2>2, <3>1, FewerOvertake
  <2>3. CASE i = Len(queue')
    <3>1. Overtaking(i)' \in SUBSET (publishers \ {c})
      <4> SUFFICES ASSUME NEW d \in Overtaking(i)' PROVE d \in publishers \ {c}
        OBVIOUS
      <4>1. d \in publishers' \/ \E j \in DOMAIN queue' : j > i /\ queue'[j] = d
        BY DEF Overtaking
      <4> QED
        BY <2>1, <2>3, <4>1
    <3>2. IsFiniteSet(publishers) /\ Cardinality(publishers) \in Nat
      BY <1>1, MadeFacts, FS_Subset, FS_CardinalityType DEF Announcing
    <3>3. /\ IsFiniteSet(publishers \ {c})
          /\ Cardinality(publishers \ {c}) = Cardinality(publishers) - 1
      BY <1>4, <3>2, FS_RemoveElement
    <3>4. /\ Cardinality(Overtaking(i)') <= Cardinality(publishers \ {c})
          /\ IsFiniteSet(Overtaking(i)')
      BY <3>1, <3>3, FS_Subset
    <3>5. Cardinality(Overtaking(i)') \in Nat
      BY <3>4, FS_CardinalityType
    <3> QED
      BY <1>1, <3>2, <3>3, <3>4, <3>5, QueueAssumption DEF Announcing
  <2> QED
    BY <2>1, <2>2, <2>3
<1>5. ASSUME NEW c \in publishers, Displaces(c)
      PROVE  FewOvertake'
  <2>1. /\ DOMAIN queue = 1..QueueSize /\ DOMAIN queue' = 1..QueueSize
        /\ \A i \in 1..(QueueSize - 1) : queue'[i] = queue[i + 1]
        /\ queue'[QueueSize] = c /\ number' = number /\ publishers' = publishers \ {c}
    BY <1>1, <1>5, DisplaceFacts DEF Displaces
  <2> SUFFICES ASSUME NEW i \in DOMAIN queue'
               PROVE  Cardinality(Overtaking(i)') < MaxPublishers
    BY DEF FewOvertake
  <2>2. CASE i # QueueSize
    <3>1. i \in 1..(QueueSize - 1) /\ i + 1 \in DOMAIN queue /\ queue'[i] = queue[i + 1]
      BY <2>1, <2>2, QueueAssumption
    <3>2. Overtaking(i)' \subseteq Overtaking(i + 1)
      <4> SUFFICES ASSUME NEW d \in Overtaking(i)' PROVE d \in Overtaking(i + 1)
        OBVIOUS
      <4>1. /\ d \in Changes /\ number[d] < number[queue[i + 1]]
            /\ d \in publishers' \/ \E j \in DOMAIN queue' : j > i /\ queue'[j] = d
        BY <2>1, <3>1 DEF Overtaking, Changes
      <4>2. \A j \in DOMAIN queue' : j > i =>
              (j + 1 \in DOMAIN queue /\ j + 1 > i + 1 /\ queue'[j] = queue[j + 1]) \/ queue'[j] = c
        BY <2>1, <3>1, QueueAssumption
      <4>3. d \in publishers \/ \E j \in DOMAIN queue : j > i + 1 /\ queue[j] = d
        BY <1>5, <2>1, <4>1, <4>2
      <4> QED
        BY <4>1, <4>3 DEF Overtaking
    <3> QED
      BY <3>1, <3>2, FewerOvertake
  <2>3. CASE i = QueueSize
    <3>1. Overtaking(i)' \in SUBSET (publishers \ {c})
      <4> SUFFICES ASSUME NEW d \in Overtaking(i)' PROVE d \in publishers \ {c}
        OBVIOUS
      <4>1. d \in publishers' \/ \E j \in DOMAIN queue' : j > i /\ queue'[j] = d
        BY DEF Overtaking
      <4> QED
        BY <2>1, <2>3, <4>1, QueueAssumption
    <3>2. IsFiniteSet(publishers) /\ Cardinality(publishers) \in Nat
      BY <1>1, MadeFacts, FS_Subset, FS_CardinalityType DEF Announcing
    <3>3. /\ IsFiniteSet(publishers \ {c})
          /\ Cardinality(publishers \ {c}) = Cardinality(publishers) - 1
      BY <1>5, <3>2, FS_RemoveElement
    <3>4. /\ Cardinality(Overtaking(i)') <= Cardinality(publishers \ {c})
          /\ IsFiniteSet(Overtaking(i)')
      BY <3>1, <3>3, FS_Subset
    <3>5. Cardinality(Overtaking(i)') \in Nat
      BY <3>4, FS_CardinalityType
    <3> QED
      BY <1>1, <3>2, <3>3, <3>4, <3>5, QueueAssumption DEF Announcing
  <2> QED
    BY <2>2, <2>3
<1>6. CASE Handle
  <2>1. /\ Len(queue) \in Nat /\ UNCHANGED <<number, publishers>>
        /\ DOMAIN queue = 1..Len(queue) /\ DOMAIN queue' = 1..(Len(queue) - 1)
        /\ \A i \in 1..(Len(queue) - 1) : queue'[i] = queue[i + 1]
    BY <1>1, <1>6, HandleFacts
  <2> SUFFICES ASSUME NEW i \in DOMAIN queue'
               PROVE  Cardinality(Overtaking(i)') < MaxPublishers
    BY DEF FewOvertake
  <2>2. i \in Nat /\ i + 1 \in DOMAIN queue /\ queue'[i] = queue[i + 1]
    BY <2>1
  <2>3. Overtaking(i)' \subseteq Overtaking(i + 1)
    <3> SUFFICES ASSUME NEW d \in Overtaking(i)' PROVE d \in Overtaking(i + 1)
      OBVIOUS
    <3>1. /\ d \in Changes /\ number[d] < number[queue[i + 1]]
          /\ d \in publishers \/ \E j \in DOMAIN queue' : j > i /\ queue'[j] = d
      BY <2>1, <2>2 DEF Overtaking, Changes
    <3>2. \A j \in DOMAIN queue' : j > i =>
            j + 1 \in DOMAIN queue /\ j + 1 > i + 1 /\ queue'[j] = queue[j + 1]
      BY <2>1, <2>2
    <3> QED
      BY <3>1, <3>2 DEF Overtaking
  <2> QED
    BY <2>2, <2>3, FewerOvertake
<1> QED
  BY <1>1, <1>2, <1>3, <1>4, <1>5, <1>6, QueueSteps

(* What gives way to a full queue is followed by a later number.           *)
LEMMA DisplacedIsPassed ==
  ASSUME Shape, FewOvertake, [Next]_vars, NEW c \in publishers, Displaces(c)
  PROVE  \E k \in DOMAIN queue' : number[queue'[k]] > number[queue[1]]
<1> SUFFICES ASSUME \A k \in DOMAIN queue' : ~(number[queue'[k]] > number[queue[1]])
             PROVE  FALSE
  OBVIOUS
<1>1. /\ \A d \in Changes : number[d] \in Nat
      /\ publishers \subseteq Changes
      /\ \A i \in DOMAIN queue : queue[i] \in Changes /\ number[queue[i]] # 0
      /\ Queueing /\ Announcing /\ Numbers
  BY NumberFacts DEF Shape, Queueing
<1>2. /\ DOMAIN queue = 1..QueueSize /\ DOMAIN queue' = 1..QueueSize
      /\ \A i \in 1..(QueueSize - 1) : queue'[i] = queue[i + 1]
      /\ queue'[QueueSize] = c
  BY <1>1, DisplaceFacts
<1>3. 1 \in DOMAIN queue /\ queue[1] \in Changes /\ queue[1] \notin publishers
  BY <1>1, <1>2, QueueAssumption DEF Queueing
<1>4. ASSUME NEW k \in 1..QueueSize
      PROVE  queue'[k] \in Overtaking(1)
  <2>1. /\ queue'[k] \in Changes /\ queue'[k] # queue[1]
        /\ queue'[k] \in publishers \/ \E j \in DOMAIN queue : j > 1 /\ queue[j] = queue'[k]
    <3>1. CASE k = QueueSize
      BY <1>1, <1>2, <1>3, <3>1
    <3>2. CASE k # QueueSize
      <4>1. k + 1 \in DOMAIN queue /\ k + 1 > 1 /\ queue'[k] = queue[k + 1]
        BY <1>2, <3>2, QueueAssumption
      <4> QED
        BY <1>1, <1>3, <4>1 DEF Queueing
    <3> QED
      BY <3>1, <3>2
  <2>2. number[queue'[k]] # number[queue[1]]
    BY <1>1, <1>3, <2>1 DEF Numbers
  <2>3. number[queue'[k]] < number[queue[1]]
    BY <1>1, <1>2, <1>3, <2>1, <2>2
  <2> QED
    BY <2>1, <2>3 DEF Overtaking
<1> DEFINE f == [k \in 1..QueueSize |-> queue'[k]]
<1>5. f \in [1..QueueSize -> Overtaking(1)]
  BY <1>4
<1>6. IsFiniteSet(1..QueueSize) /\ Cardinality(1..QueueSize) = QueueSize
  BY QueueAssumption, FS_Interval
<1>7. /\ IsFiniteSet(Overtaking(1)) /\ Cardinality(Overtaking(1)) < Cardinality(1..QueueSize)
  <2>1. IsFiniteSet(Overtaking(1)) /\ Cardinality(Overtaking(1)) \in Nat
    BY OvertakingFinite
  <2>2. Cardinality(Overtaking(1)) < MaxPublishers
    BY <1>3 DEF FewOvertake
  <2> QED
    BY <1>6, <2>1, <2>2, QueueAssumption
<1>8. \E x, y \in 1..QueueSize : x # y /\ f[x] = f[y]
  <2> HIDE DEF f
  <2> QED
    BY <1>5, <1>6, <1>7, FS_PigeonHole
<1>9. Queueing'
  BY QueueingStep DEF Shape
<1> QED
  BY <1>2, <1>8, <1>9 DEF Queueing

-----------------------------------------------------------------------------
(* What a browser that is connected can still learn.                       *)

(* The announcements that are numbered and on their way to the browser.    *)
Coming ==
  {c \in Changes : c \in publishers \/ \E i \in DOMAIN queue : queue[i] = c}

(* What will tell the browser about a change: its own announcement, or a   *)
(* later one, whose number then does not follow.                           *)
Outrun(c) == \E d \in Coming : number[d] >= number[c]

(* The numbers the browser cannot hear of begin where it refetched last.   *)
Catching ==
  socket = "open" =>
    /\ \E m \in unheard : m <= sequence
    /\ \A c \in untold : number[c] # 0 => \E m \in unheard : m <= number[c]

Following == socket = "subscribed" => \A c \in untold : Unnoticed(c) \/ Outrun(c)

LEMMA ComingSteps ==
  ASSUME Shape, FewOvertake, [Next]_vars, socket = "subscribed", socket' = "subscribed",
         NEW d \in Coming
  PROVE  \/ \E e \in Coming' : number'[e] >= number[d] /\ number[d] # 0
         \/ (Handle /\ d = queue[1])
<1>1. /\ \A c \in Changes : number[c] \in Nat
      /\ \A c \in Changes : number[c] # 0 => number'[c] = number[c]
      /\ publishers \subseteq Changes
      /\ \A i \in DOMAIN queue : queue[i] \in Changes /\ number[queue[i]] # 0
      /\ Queueing /\ Announcing /\ Numbers
  BY NumberFacts DEF Shape, Queueing
<1>2. d \in Changes /\ number[d] # 0 /\ number'[d] = number[d] /\ number[d] \in Nat
  BY <1>1 DEF Coming, Announcing
<1>3. SUFFICES \/ d \in Coming'
               \/ (Handle /\ d = queue[1])
               \/ \E k \in DOMAIN queue' :
                    queue'[k] \in Changes /\ number'[queue'[k]] > number[d]
  <2>1. ASSUME d \in Coming' PROVE \E e \in Coming' : number'[e] >= number[d] /\ number[d] # 0
    BY <1>2, <2>1
  <2>2. ASSUME NEW k \in DOMAIN queue', queue'[k] \in Changes, number'[queue'[k]] > number[d]
        PROVE  \E e \in Coming' : number'[e] >= number[d] /\ number[d] # 0
    <3>1. queue'[k] \in Coming'
      BY <2>2 DEF Coming, Changes
    <3>2. number'[queue'[k]] \in Nat
      BY <2>2, NumberFacts
    <3> QED
      BY <1>2, <2>2, <3>1, <3>2
  <2> QED
    BY <2>1, <2>2
<1>4. CASE queue' = queue
  <2>1. publishers' = publishers \/ \E c \in Changes : Numbering(c) \/ Publish(c)
    <3>1. \/ (\E r \in Resources : WorkerAnnounces(r)) \/ RelayFails \/ Open \/ Subscribe
          \/ Handle \/ Disconnect \/ PageStep \/ UNCHANGED vars
          \/ (\E r \in Resources : ApiAnnounces(r) /\ ~Numbered(Len(kind) + 1))
          => publishers' = publishers
      BY PageChanges DEF WorkerAnnounces, ApiAnnounces, RelayFails, Open, Subscribe, Handle, Disconnect, vars,
         transport
    <3>2. ASSUME ~\E c \in Changes : Numbering(c)
          PROVE  sequence' = sequence
      BY <1>1, <3>2, NumberSteps
    <3>3. RelayPublishes \/ (\E r \in Resources : ApiAnnounces(r) /\ Numbered(Len(kind) + 1))
          => sequence' = sequence + 1
      BY DEF RelayPublishes, Numbered
    <3> QED
      BY <1>1, <3>1, <3>2, <3>3 DEF Next, Progress, PageStep, Numbers
  <2>2. ASSUME NEW c \in Changes, Numbering(c)
        PROVE  d \in Coming'
    BY <1>2, <1>4, <2>2 DEF Coming, Numbering, Changes
  <2>3. ASSUME NEW c \in Changes, Publish(c)
        PROVE  d \in Coming'
    <3>1. /\ Len(queue) \in Nat /\ c \in publishers /\ publishers' = publishers \ {c}
          /\ Enqueues(c) \/ Displaces(c)
      <4>1. Len(queue) \in Nat /\ Len(queue) <= QueueSize
        BY <1>1 DEF Queueing
      <4> QED
        BY <2>3, <4>1, QueueAssumption DEF Publish, Queued, Enqueues, Displaces
    <3>2. CASE Enqueues(c)
      <4>1. Len(queue') = Len(queue) + 1
        BY <1>1, <2>3, <3>2, EnqueueFacts
      <4> QED
        BY <1>4, <3>1, <4>1
    <3>3. CASE Displaces(c)
      <4>1. /\ queue'[QueueSize] = c /\ DOMAIN queue' = 1..QueueSize
        BY <1>1, <2>3, <3>3, DisplaceFacts
      <4>2. QueueSize \in DOMAIN queue /\ queue[QueueSize] \in publishers
        BY <1>4, <3>1, <4>1, QueueAssumption
      <4> QED
        BY <1>1, <4>2 DEF Queueing
    <3> QED
      BY <3>1, <3>2, <3>3
  <2> QED
    BY <1>2, <1>4, <2>1, <2>2, <2>3 DEF Coming, Changes
<1>5. ASSUME queue' = <<>>, queue' # queue, ~Handle PROVE FALSE
  <2>1. queue # <<>>
    BY <1>5
  <2>2. \/ (\E r \in Resources : ApiAnnounces(r) \/ WorkerAnnounces(r))
        \/ RelayFails \/ RelayPublishes \/ Open \/ Subscribe \/ PageStep
        \/ UNCHANGED vars
        => queue' = queue
    BY PageChanges DEF ApiAnnounces, WorkerAnnounces, RelayFails, RelayPublishes, Open, Subscribe,
       vars, browser
  <2>3. ~Disconnect
    BY DEF Disconnect
  <2>4. ASSUME NEW c \in Changes, Publish(c) PROVE FALSE
    <3>1. queue \in Seq(Changes) /\ queue' = Queued(c)
      BY <1>1, <2>4 DEF Publish, Queueing
    <3>2. CASE queue' = Append(queue, c)
      BY <1>5, <3>1, <3>2
    <3>3. CASE queue' = Append(Tail(queue), c)
      <4>1. Tail(queue) \in Seq(Changes)
        BY <2>1, <3>1
      <4> QED
        BY <1>5, <3>3, <4>1
    <3> QED
      BY <1>5, <3>1, <3>2, <3>3 DEF Queued
  <2> QED
    BY <1>5, <2>2, <2>3, <2>4 DEF Next, Progress, PageStep
<1>6. ASSUME NEW c \in publishers, Enqueues(c)
      PROVE  d \in Coming'
  <2>1. /\ Len(queue) \in Nat /\ Len(queue') = Len(queue) + 1
        /\ DOMAIN queue = 1..Len(queue) /\ DOMAIN queue' = 1..Len(queue')
        /\ \A i \in DOMAIN queue : queue'[i] = queue[i]
        /\ queue'[Len(queue')] = c /\ publishers' = publishers \ {c}
    BY <1>1, <1>6, EnqueueFacts DEF Enqueues
  <2>2. Len(queue') \in DOMAIN queue' /\ \A i \in DOMAIN queue : i \in DOMAIN queue'
    BY <2>1
  <2>3. d \in publishers \/ \E i \in DOMAIN queue : queue[i] = d
    BY DEF Coming
  <2>4. d \in publishers' \/ \E i \in DOMAIN queue' : queue'[i] = d
    BY <2>1, <2>2, <2>3
  <2> QED
    BY <1>2, <2>4 DEF Coming, Changes
<1>7. ASSUME NEW c \in publishers, Displaces(c)
      PROVE  d \in Coming' \/ \E k \in DOMAIN queue' :
                    queue'[k] \in Changes /\ number'[queue'[k]] > number[d]
  <2>1. /\ DOMAIN queue = 1..QueueSize /\ DOMAIN queue' = 1..QueueSize
        /\ \A i \in 1..(QueueSize - 1) : queue'[i] = queue[i + 1]
        /\ queue'[QueueSize] = c /\ number' = number /\ publishers' = publishers \ {c}
        /\ queue' \in Seq(Changes)
    BY <1>1, <1>7, DisplaceFacts DEF Displaces
  <2>2. CASE d = queue[1]
    <3>1. \E k \in DOMAIN queue' : number[queue'[k]] > number[queue[1]]
      BY <1>7, DisplacedIsPassed
    <3>2. \A k \in DOMAIN queue' : queue'[k] \in Changes
      <4>1. queue' \in Seq(Changes)
        BY <2>1
      <4> QED
        BY <4>1
    <3> QED
      BY <2>1, <2>2, <3>1, <3>2
  <2>3. CASE d # queue[1]
    <3>1. \A i \in DOMAIN queue : i = 1 \/ (i - 1 \in DOMAIN queue' /\ queue'[i - 1] = queue[i])
      BY <2>1, QueueAssumption
    <3>2. QueueSize \in DOMAIN queue'
      BY <2>1, QueueAssumption
    <3>3. d \in publishers \/ \E i \in DOMAIN queue : queue[i] = d
      BY DEF Coming
    <3>4. d \in publishers' \/ \E i \in DOMAIN queue' : queue'[i] = d
      BY <2>1, <2>3, <3>1, <3>2, <3>3
    <3> QED
      BY <1>2, <3>4 DEF Coming, Changes
  <2> QED
    BY <2>2, <2>3
<1>8. ASSUME Handle, d # queue[1]
      PROVE  d \in Coming'
  <2>1. /\ Len(queue) \in Nat /\ UNCHANGED publishers
        /\ DOMAIN queue = 1..Len(queue) /\ DOMAIN queue' = 1..(Len(queue) - 1)
        /\ \A i \in 1..(Len(queue) - 1) : queue'[i] = queue[i + 1]
    BY <1>1, <1>8, HandleFacts
  <2>2. \A i \in DOMAIN queue : i = 1 \/ (i - 1 \in DOMAIN queue' /\ queue'[i - 1] = queue[i])
    BY <2>1
  <2>3. d \in publishers \/ \E i \in DOMAIN queue : queue[i] = d
    BY DEF Coming
  <2>4. d \in publishers' \/ \E i \in DOMAIN queue' : queue'[i] = d
    BY <1>8, <2>1, <2>2, <2>3
  <2> QED
    BY <1>2, <2>4 DEF Coming, Changes
<1> QED
  BY <1>1, <1>4, <1>5, <1>6, <1>7, <1>8, QueueSteps

(* A change is on its way to the browser as soon as it has a number.       *)
LEMMA NumberedIsComing ==
  ASSUME Shape, [Next]_vars, NEW c \in Changes, number'[c] # number[c]
  PROVE  c \in Coming' /\ number[c] = 0
<1>1. PICK d \in Changes : Numbering(d)
  BY NumberSteps DEF Shape
<1>2. c = d
  BY <1>1, NumberFacts DEF Numbering, Shape, Numbers
<1> QED
  BY <1>1, <1>2 DEF Numbering, Coming, Changes

LEMMA CatchingInit == Init => Catching /\ Following
BY DEF Init, Catching, Following

LEMMA CatchingStep == Shape /\ Catching /\ [Next]_vars => Catching'
<1> SUFFICES ASSUME Shape, Catching, [Next]_vars, socket' = "open"
             PROVE  /\ \E m \in unheard' : m <= sequence'
                    /\ \A c \in untold' : number'[c] # 0 => \E m \in unheard' : m <= number'[c]
  BY DEF Catching
<1>1. /\ sequence \in Nat /\ lastSequence \in Nat
      /\ \A c \in Changes : number[c] \in Nat /\ number'[c] \in Nat
      /\ \A c \in Changes : number'[c] # number[c] => number'[c] > sequence
      /\ \A c \in Changes \ Made : number[c] = 0
      /\ untold \subseteq Changes /\ unheard \subseteq Nat
  BY NumberFacts DEF Shape, Browsing
<1>2. CASE Open
  <2>1. sequence' = sequence /\ number' = number
    BY <1>2 DEF Open
  <2>2. CASE lastSequence > 0
    BY <1>1, <1>2, <2>1, <2>2 DEF Open
  <2>3. CASE ~(lastSequence > 0)
    <3>1. 0 \in unheard' /\ untold' = untold
      BY <1>1, <1>2, <2>3 DEF Open
    <3> QED
      BY <1>1, <2>1, <3>1
  <2> QED
    BY <2>2, <2>3
<1>3. CASE ~Open
  <2>1. socket = "open" /\ unheard' = unheard
    BY <1>3, PageChanges DEF Next, Progress, PageStep, ApiAnnounces, WorkerAnnounces, RelayFails,
       RelayPublishes, Publish, Subscribe, Handle, Disconnect, vars, browser
  <2>2. sequence' \in Nat /\ sequence' >= sequence
    <3>1. sequence' = sequence \/ sequence' = sequence + 1
      BY NumberSteps DEF Shape, Numbering
    <3> QED
      BY <1>1, <3>1
  <2>3. PICK m \in unheard : m <= sequence
    BY <2>1 DEF Catching
  <2>4. ASSUME NEW c \in untold', number'[c] # 0
        PROVE  \E n \in unheard' : n <= number'[c]
    <3>1. c \in Changes /\ (c \in untold \/ c \notin Made)
      BY <1>1, UntoldSteps
    <3>2. CASE number'[c] # number[c]
      BY <1>1, <2>1, <2>3, <3>1, <3>2
    <3>3. CASE number'[c] = number[c]
      <4>1. c \in untold /\ number[c] # 0
        BY <1>1, <2>4, <3>1, <3>3
      <4> QED
        BY <2>1, <3>3, <4>1 DEF Catching
    <3> QED
      BY <3>2, <3>3
  <2> QED
    BY <1>1, <2>1, <2>2, <2>3, <2>4
<1> QED
  BY <1>2, <1>3

LEMMA FollowingStep ==
  Shape /\ PassedIsRefetched /\ FewOvertake /\ Catching /\ Following /\ [Next]_vars => Following'
<1> SUFFICES ASSUME Shape, PassedIsRefetched, FewOvertake, Catching, Following, [Next]_vars,
                    socket' = "subscribed", NEW c \in untold', number'[c] # 0
             PROVE  Unnoticed(c)' \/ Outrun(c)'
  BY DEF Following, Unnoticed
<1>1. /\ sequence \in Nat /\ first \in Nat /\ lastSequence \in Nat
      /\ \A d \in Changes : number[d] \in Nat /\ number'[d] \in Nat
      /\ \A d \in Changes : number[d] # 0 => number'[d] = number[d]
      /\ \A d \in Changes \ Made : number[d] = 0
      /\ untold \subseteq Changes /\ unheard \subseteq Nat
  BY NumberFacts DEF Shape, Browsing
<1>2. c \in Changes /\ (c \in untold \/ c \notin Made)
  BY <1>1, UntoldSteps
<1>3. CASE number'[c] # number[c]
  <2>1. c \in Coming' /\ number'[c] \in Nat
    BY <1>1, <1>2, <1>3, NumberedIsComing
  <2> QED
    BY <2>1 DEF Outrun
<1>4. ASSUME number'[c] = number[c]
      PROVE  Unnoticed(c)' \/ Outrun(c)'
  <2>1. c \in untold /\ number[c] # 0 /\ number[c] \in Nat
    BY <1>1, <1>2, <1>4
  <2>2. CASE Subscribe
    <3>1. PICK m \in unheard : m <= number[c]
      BY <2>1, <2>2 DEF Catching, Subscribe
    <3>2. number[c] \in 0..sequence
      BY <1>1, <1>2, <2>1 DEF Shape, Numbers
    <3>3. number[c] \in unheard'
      BY <2>2, <3>1, <3>2 DEF Subscribe
    <3> QED
      BY <1>4, <3>3 DEF Unnoticed
  <2>3. CASE ~Subscribe
    <3>1. socket = "subscribed" /\ unheard' = unheard
      BY <2>3, PageChanges DEF Next, Progress, PageStep, ApiAnnounces, WorkerAnnounces, RelayFails,
         RelayPublishes, Publish, Open, Handle, Disconnect, vars, browser
    <3>2. first' = first \/ first = 0
      BY UntoldSteps
    <3>3. CASE Unnoticed(c)
      BY <1>1, <1>4, <2>1, <3>1, <3>2, <3>3 DEF Unnoticed
    <3>4. ASSUME NEW d \in Coming, number[d] >= number[c]
          PROVE  Unnoticed(c)' \/ Outrun(c)'
      <4>1. d \in Changes /\ number[d] \in Nat
        BY <1>1 DEF Coming
      <4>2. ASSUME NEW e \in Coming', number'[e] >= number[d]
            PROVE  Outrun(c)'
        <5>1. e \in Changes
          BY DEF Coming, Changes
        <5>2. number'[e] \in Nat /\ number'[e] >= number'[c]
          BY <1>1, <1>4, <2>1, <3>4, <4>1, <4>2, <5>1
        <5> QED
          BY <5>2 DEF Outrun
      <4>3. CASE Handle /\ d = queue[1]
        <5>1. /\ d \notin untold' /\ lastSequence' = number[d]
              /\ first' = IF first = 0 THEN lastSequence' ELSE first
              /\ lastSequence > 0 => lastSequence' = lastSequence + 1
          BY <4>3, UntoldSteps
        <5>2. number[c] < number[d]
          BY <1>2, <2>1, <3>4, <4>1, <5>1 DEF Shape, Numbers
        <5>3. first = 0 <=> lastSequence = 0
          BY DEF Shape, Browsing
        <5>4. number[c] \notin first..lastSequence
          BY <2>1 DEF PassedIsRefetched
        <5>5. number'[c] < first'
          BY <1>1, <1>4, <2>1, <4>1, <5>1, <5>2, <5>3, <5>4
        <5> QED
          BY <5>5 DEF Unnoticed
      <4> QED
        BY <3>1, <4>2, <4>3, ComingSteps
    <3> QED
      BY <2>1, <3>1, <3>3, <3>4 DEF Following, Outrun
  <2> QED
    BY <2>2, <2>3
<1> QED
  BY <1>3, <1>4

(* What the browser was told of and what it shows: the newest GET of a     *)
(* resource was sent after the changes that are no longer untold.          *)
RefetchedOf(c) ==
  LET at == page[kind[c]]
  IN /\ at.newest = "shown" => at.shown >= c
     /\ at.newest = "waiting" => at.gets[Len(at.gets)] >= c

Refetched == \A c \in Made \ untold : RefetchedOf(c)

LEMMA RefetchedInit == Init => Refetched
BY DEF Init, Refetched, Made

LEMMA RefetchedStep == Shape /\ Refetched /\ [Next]_vars => Refetched'
<1> SUFFICES ASSUME Shape, Refetched, [Next]_vars, NEW c \in Made', c \notin untold'
             PROVE  RefetchedOf(c)'
  BY DEF Refetched, Made
<1>1. Numbers /\ Paging /\ Browsing
  BY DEF Shape
<1>2. c \in Made
  <2>1. ASSUME NEW r \in Resources, ApiAnnounces(r) \/ WorkerAnnounces(r)
        PROVE  Made' = Made \cup {Len(kind) + 1} /\ Len(kind) + 1 \in untold'
    BY <1>1, <2>1 DEF ApiAnnounces, WorkerAnnounces, Makes, Numbers, Made
  <2>2. CASE ~\E r \in Resources : ApiAnnounces(r) \/ WorkerAnnounces(r)
    <3>1. kind' = kind
      BY <2>2, PageChanges DEF Next, Progress, PageStep, RelayFails, RelayPublishes, Publish, Open,
         Subscribe, Handle, Disconnect, vars
    <3> QED
      BY <3>1 DEF Made
  <2> QED
    BY <2>1, <2>2
<1>3. /\ c \in Nat /\ c <= Len(kind) /\ Len(kind) \in Nat
      /\ kind'[c] = kind[c] /\ kind[c] \in Resources
  BY <1>1, <1>2, MadeGrows DEF Numbers, Made
<1> DEFINE r == kind[c]
<1>4. PICK at : at = page[r]
  OBVIOUS
<1>5. PICK after : after = page'[r]
  OBVIOUS
<1>6. at \in PageType
  BY <1>1, <1>3, <1>4 DEF Paging
<1>7. SUFFICES /\ after.newest = "shown" => after.shown >= c
               /\ after.newest = "waiting" => after.gets[Len(after.gets)] >= c
  BY <1>3, <1>5 DEF RefetchedOf
<1>8. c \notin untold => /\ at.newest = "shown" => at.shown >= c
                         /\ at.newest = "waiting" => at.gets[Len(at.gets)] >= c
  BY <1>2, <1>4 DEF Refetched, RefetchedOf
<1>9. CASE page' = page /\ \A d \in untold : d \in untold'
  BY <1>4, <1>5, <1>8, <1>9
<1>10. ASSUME NEW q \in Resources, NEW i \in DOMAIN page[q].gets,
              GetAnswers(q, i) \/ GetFails(q, i), untold' = untold
       PROVE  /\ after.newest = "shown" => after.shown >= c
              /\ after.newest = "waiting" => after.gets[Len(after.gets)] >= c
  <2>1. CASE q # r
    <3>1. after = at
      BY <1>1, <1>3, <1>4, <1>5, <1>10, <2>1, EndedGetFacts
    <3> QED
      BY <1>8, <1>10, <3>1
  <2>2. CASE q = r
    <3>1. /\ page'[q] \in PageType
          /\ page'[q].newest = "waiting" =>
               /\ page[q].newest = "waiting" /\ page'[q].gets # <<>>
               /\ page'[q].gets[Len(page'[q].gets)] = page[q].gets[Len(page[q].gets)]
          /\ page'[q].newest = "shown" =>
               \/ page[q].newest = "shown" /\ page'[q].shown = page[q].shown
               \/ page[q].newest = "waiting" /\ page'[q].shown >= page[q].gets[Len(page[q].gets)]
      BY <1>1, <1>10, EndedGetFacts
    <3>2. /\ after.newest = "waiting" =>
               at.newest = "waiting" /\ after.gets[Len(after.gets)] = at.gets[Len(at.gets)]
          /\ after.newest = "shown" =>
               \/ at.newest = "shown" /\ after.shown = at.shown
               \/ at.newest = "waiting" /\ after.shown >= at.gets[Len(at.gets)]
          /\ after \in PageType
      BY <1>4, <1>5, <2>2, <3>1
    <3>3. at.newest = "waiting" => at.gets[Len(at.gets)] \in Nat
      <4>1. at.newest = "waiting" => at.gets # <<>>
        BY <1>1, <1>3, <1>4 DEF Paging
      <4>2. at.gets \in Seq(Nat)
        BY <1>6 DEF PageType
      <4> QED
        BY <4>1, <4>2
    <3>4. after.shown \in Nat
      BY <3>2, QueueAssumption DEF PageType
    <3> QED
      BY <1>3, <1>8, <1>10, <3>2, <3>3, <3>4
  <2> QED
    BY <2>1, <2>2
<1>11. ASSUME NEW times \in [Resources -> Nat], Refetches(times),
              \A d \in untold : d \notin untold' => times[kind[d]] # 0
       PROVE  /\ after.newest = "shown" => after.shown >= c
              /\ after.newest = "waiting" => after.gets[Len(after.gets)] >= c
  <2>1. IF times[r] = 0 THEN after = at
        ELSE after.newest = "waiting" /\ after.gets[Len(after.gets)] = Len(kind)
    BY <1>1, <1>3, <1>4, <1>5, <1>11, RefetchFacts
  <2>2. CASE times[r] = 0
    BY <1>8, <1>11, <2>1, <2>2
  <2>3. CASE times[r] # 0
    BY <1>3, <2>1, <2>3
  <2> QED
    BY <2>2, <2>3
<1> QED
  BY <1>9, <1>10, <1>11, PageSteps

Tracking == Shape /\ PassedIsRefetched /\ FewOvertake /\ Catching /\ Following /\ Refetched

LEMMA TrackingInvariant == Spec => []Tracking
<1>1. Init => Tracking
  BY ShapeInit, PassedInit, OvertakeInit, CatchingInit, RefetchedInit DEF Tracking
<1>2. Tracking /\ [Next]_vars => Tracking'
  BY ShapeStep, PassedStep, OvertakeStep, CatchingStep, FollowingStep, RefetchedStep DEF Tracking
<1> QED
  BY <1>1, <1>2, PTL DEF Spec

(* QuietIsFresh: a subscribed browser with nothing left to handle, and no  *)
(* answer to wait for, shows every change whose announcement it could hear *)
(* unless the newest GET of its resource failed or was overtaken, although *)
(* a full queue dropped its oldest, as long as no more announcements than  *)
(* the queue holds overtake each other                                     *)
(* (live_updates.py:35-40, overview-page.tsx:62-73).                       *)
THEOREM QuietBrowserIsFresh == Spec => []QuietIsFresh
<1>1. Tracking => QuietIsFresh
  <2> SUFFICES ASSUME Tracking, Quiet, NEW c \in Made
               PROVE  Unnoticed(c) \/ Shown(c)
    BY DEF QuietIsFresh
  <2>1. CASE c \in untold
    BY <2>1 DEF Tracking, Quiet, Following, Outrun, Coming
  <2>2. CASE c \notin untold
    <3>1. kind[c] \in Resources
      BY DEF Tracking, Shape, Numbers, Made
    <3>2. page[kind[c]].newest \in {"shown", "lost"}
      BY <3>1 DEF Tracking, Shape, Paging, PageType, Quiet
    <3> QED
      BY <2>2, <3>1, <3>2 DEF Tracking, Refetched, RefetchedOf, Shown
  <2> QED
    BY <2>1, <2>2
<1> QED
  BY <1>1, TrackingInvariant, PTL
=============================================================================
