----------------------------- MODULE LiveUpdates -----------------------------
(***************************************************************************)
(* The announcements of changes to a browser: numbered in PostgreSQL,      *)
(* queued by the broker, sent over a WebSocket, and turned into refetches. *)
(*                                                                         *)
(* A change is announced after it was made, by a request or a Copilot task *)
(* of the API itself, or by the worker over Redis and the API's relay.     *)
(* The browser refetches a resource, or all, when it is told to; it works  *)
(* out from the numbers that it missed something.  A refetch is a GET of   *)
(* its own: it may fail, and then is not repeated, and its answer may      *)
(* overtake another.                                                       *)
(***************************************************************************)
EXTENDS Integers, Sequences, FiniteSets

CONSTANTS
  Resources,
  QueueSize,
  MaxChanges,      \* Bound.
  MaxPublishers,   \* Bound: announcements numbered but not queued at once.
  MaxDisconnects,  \* Bound.
  MaxGets,         \* Bound: GETs of one resource in flight.
  MaxFailures      \* Bound: inserts of an announcement that raise, and GETs that fail.

Changes == 1..MaxChanges

ASSUME QueueAssumption ==
  /\ QueueSize \in Nat \ {0}
  /\ MaxPublishers \in 1..QueueSize
  /\ MaxChanges \in Nat
  /\ MaxGets \in Nat \ {0, 1}

VARIABLES
  kind,         \* The resource of each change made so far, a sequence.
  number,       \* The sequence number of its announcement, 0 for none.
  sequence,     \* The last number of websocket_events.
  publishers,   \* Changes whose announcement is numbered, not yet queued.
  inbox,        \* The worker's announcements on their way to the relay.
  relay,        \* The relay: listening, ended, or the change it publishes.
  socket,       \* closed, open (not subscribed yet) or subscribed.
  queue,        \* The announcements queued for the browser.
  lastSequence,
  first,        \* History: the first number the browser handled.
  unheard,      \* History: numbers given between its refetch and its subscription.
  untold,       \* History: changes the browser was not told to refetch since.
  page,         \* What the browser shows of each resource, and its GETs in flight.
  disconnects, failures

transport == <<publishers, inbox, relay>>
browser == <<socket, queue, lastSequence, first, unheard>>
bounds == <<disconnects, failures>>
vars == <<kind, number, sequence, transport, browser, untold, page, bounds>>

Listening == 0
Ended == -1

(* Of a GET in flight, how many changes there were when it was sent; of    *)
(* what is shown, how many it has taken in; and what became of the newest  *)
(* GET: it is shown, waited for, or lost, that is failed or overtaken.     *)
Loaded == [gets |-> <<>>, shown |-> 0, newest |-> "shown"]

Init ==
  /\ kind = <<>>
  /\ number = [c \in Changes |-> 0]
  /\ sequence = 0
  /\ publishers = {}
  /\ inbox = <<>>
  /\ relay = Listening
  /\ socket = "closed"
  /\ queue = <<>>
  /\ lastSequence = 0
  /\ first = 0
  /\ unheard = {}
  /\ untold = {}
  /\ page = [r \in Resources |-> Loaded]
  /\ disconnects = 0
  /\ failures = 0

-----------------------------------------------------------------------------
(* append_ws_event: PostgreSQL numbers it. *)
Numbered(change) ==
  /\ Cardinality(publishers) < MaxPublishers
  /\ sequence' = sequence + 1
  /\ number' = [number EXCEPT ![change] = sequence + 1]
  /\ publishers' = publishers \cup {change}

Makes(resource) ==
  /\ Len(kind) < MaxChanges
  /\ kind' = Append(kind, resource)
  /\ untold' = untold \cup {Len(kind) + 1}
  /\ page' = page

(* A change of the API, whose insert may raise: then nobody is told.       *)
ApiAnnounces(resource) ==
  /\ Makes(resource)
  /\ \/ /\ Numbered(Len(kind) + 1)
        /\ UNCHANGED failures
     \/ /\ failures < MaxFailures
        /\ failures' = failures + 1
        /\ UNCHANGED <<number, sequence, publishers>>
  /\ UNCHANGED <<inbox, relay, browser, disconnects>>

(* Redis delivers to a relay that listens. *)
WorkerAnnounces(resource) ==
  /\ Makes(resource)
  /\ inbox' = IF relay = Ended THEN inbox ELSE Append(inbox, Len(kind) + 1)
  /\ UNCHANGED <<number, sequence, publishers, relay, browser, bounds>>

(* relay_runtime_updates: one announcement after the other.  The insert    *)
(* that raises ends it for good.                                           *)
RelayPublishes ==
  /\ relay = Listening /\ inbox # <<>>
  /\ inbox' = Tail(inbox)
  /\ relay' = Head(inbox)
  /\ Numbered(Head(inbox))
  /\ UNCHANGED <<kind, browser, untold, page, bounds>>

RelayFails ==
  /\ relay = Listening /\ inbox # <<>>
  /\ failures < MaxFailures
  /\ failures' = failures + 1
  /\ relay' = Ended
  /\ inbox' = <<>>
  /\ UNCHANGED <<kind, number, sequence, publishers, browser, untold, page, disconnects>>

(* Bug for a mutant: a full queue takes no new announcement. *)
QueuedIfRoom(change) ==
  IF socket # "subscribed" \/ Len(queue) = QueueSize THEN queue ELSE Append(queue, change)

(* A full queue drops its oldest announcement. *)
Queued(change) ==
  IF socket # "subscribed" THEN queue
  ELSE IF Len(queue) = QueueSize THEN Append(Tail(queue), change) ELSE Append(queue, change)

(* publish, once it has the lock: in whatever order. *)
Publish(change) ==
  /\ change \in publishers
  /\ publishers' = publishers \ {change}
  /\ queue' = Queued(change)
  /\ relay' = IF relay = change THEN Listening ELSE relay
  /\ UNCHANGED <<kind, number, sequence, inbox, socket, lastSequence, first, unheard, untold, page, bounds>>

-----------------------------------------------------------------------------
(* GETs are sent, of each resource as often as told. *)
Refetches(times) ==
  /\ \A r \in Resources : Len(page[r].gets) + times[r] <= MaxGets
  /\ page' = [r \in Resources |->
       IF times[r] = 0 THEN page[r]
       ELSE [page[r] EXCEPT !.gets = @ \o [i \in 1..times[r] |-> Len(kind)],
                            !.newest = "waiting"]]

Once == [r \in Resources |-> 1]

Only(resource) == [r \in Resources |-> IF r = resource THEN 1 ELSE 0]

(* Bug for a mutant: a closed socket is not opened again. *)
OpenOnce ==
  /\ socket = "closed" /\ disconnects = 0
  /\ socket' = "open"
  /\ unheard' = 0..sequence
  /\ UNCHANGED <<kind, number, sequence, transport, queue, lastSequence, first, untold, page, bounds>>

(* connect: a browser that was connected before refetches everything. *)
Open ==
  /\ socket = "closed"
  /\ socket' = "open"
  /\ \/ /\ lastSequence = 0
        /\ unheard' = 0..sequence
        /\ UNCHANGED <<untold, page>>
     \/ /\ lastSequence > 0
        /\ unheard' = sequence..sequence
        /\ untold' = {}
        /\ Refetches(Once)
  /\ UNCHANGED <<kind, number, sequence, transport, queue, lastSequence, first, bounds>>

(* websocket_updates subscribes after it accepted. *)
Subscribe ==
  /\ socket = "open"
  /\ socket' = "subscribed"
  /\ unheard' = {n \in 0..sequence : \E m \in unheard : m <= n}
  /\ UNCHANGED <<kind, number, sequence, transport, queue, lastSequence, first, untold, page, bounds>>

(* Bug for a mutant: the numbers are not compared. *)
HandleAny ==
  /\ socket = "subscribed" /\ queue # <<>>
  /\ queue' = Tail(queue)
  /\ lastSequence' = number[Head(queue)]
  /\ first' = IF first = 0 THEN lastSequence' ELSE first
  /\ untold' = {c \in untold : kind[c] # kind[Head(queue)]}
  /\ Refetches(Only(kind[Head(queue)]))
  /\ UNCHANGED <<kind, number, sequence, transport, socket, unheard, bounds>>

(* The message listener: a number that does not follow means that others   *)
(* were missed, except the first; all is refetched, then the resource.     *)
Handle ==
  LET resource == kind[Head(queue)]
      missed == lastSequence > 0 /\ number[Head(queue)] # lastSequence + 1
  IN /\ socket = "subscribed" /\ queue # <<>>
     /\ queue' = Tail(queue)
     /\ lastSequence' = number[Head(queue)]
     /\ first' = IF first = 0 THEN lastSequence' ELSE first
     /\ untold' = IF missed THEN {} ELSE {c \in untold : kind[c] # resource}
     /\ Refetches([r \in Resources |-> (IF missed THEN 1 ELSE 0) + (IF r = resource THEN 1 ELSE 0)])
     /\ UNCHANGED <<kind, number, sequence, transport, socket, unheard, bounds>>

Without(gets, i) == [j \in 1..(Len(gets) - 1) |-> IF j < i THEN gets[j] ELSE gets[j + 1]]

(* Whether this is the newest GET of the resource. *)
Newest(r, i) == page[r].newest = "waiting" /\ i = Len(page[r].gets)

(* refresh: the answer is what the store held while the GET was in flight, *)
(* and is shown, whatever is shown already.                                *)
GetAnswers(r, i) ==
  /\ i \in DOMAIN page[r].gets
  /\ \E n \in page[r].gets[i]..Len(kind) :
       page' = [page EXCEPT ![r] =
         [gets |-> Without(page[r].gets, i), shown |-> n,
          newest |-> IF Newest(r, i) THEN "shown"
                     ELSE IF page[r].newest = "shown" THEN "lost" ELSE page[r].newest]]
  /\ UNCHANGED <<kind, number, sequence, transport, browser, untold, bounds>>

(* A GET that fails is caught, and not repeated. *)
GetFails(r, i) ==
  /\ i \in DOMAIN page[r].gets
  /\ failures < MaxFailures
  /\ failures' = failures + 1
  /\ page' = [page EXCEPT ![r] =
       [gets |-> Without(page[r].gets, i), shown |-> page[r].shown,
        newest |-> IF Newest(r, i) THEN "lost" ELSE page[r].newest]]
  /\ UNCHANGED <<kind, number, sequence, transport, browser, untold, disconnects>>

(* What was queued or on its way is lost. *)
Disconnect ==
  /\ socket # "closed"
  /\ disconnects < MaxDisconnects
  /\ disconnects' = disconnects + 1
  /\ socket' = "closed"
  /\ queue' = <<>>
  /\ UNCHANGED <<kind, number, sequence, transport, lastSequence, first, unheard, untold, page, failures>>

Progress ==
  \/ RelayPublishes
  \/ \E c \in Changes : Publish(c)
  \/ Open
  \/ Subscribe
  \/ Handle
  \/ \E r \in Resources, i \in 1..MaxGets : GetAnswers(r, i)

Next ==
  \/ \E r \in Resources : ApiAnnounces(r) \/ WorkerAnnounces(r)
  \/ RelayFails
  \/ Progress
  \/ \E r \in Resources, i \in 1..MaxGets : GetFails(r, i)
  \/ Disconnect

Spec == Init /\ [][Next]_vars

(* Tasks go on, the browser connects again and reads, and no GET is in     *)
(* flight for ever.                                                        *)
FairSpec ==
  /\ Spec
  /\ WF_vars(RelayPublishes)
  /\ \A c \in Changes : WF_vars(Publish(c))
  /\ WF_vars(Open) /\ WF_vars(Subscribe) /\ WF_vars(Handle)
  /\ \A r \in Resources : WF_vars(\E i \in 1..MaxGets : GetAnswers(r, i))

-----------------------------------------------------------------------------
Made == 1..Len(kind)

TypeOK ==
  /\ kind \in Seq(Resources) /\ Len(kind) <= MaxChanges
  /\ number \in [Changes -> 0..sequence]
  /\ \A c, d \in Made : number[c] = number[d] /\ number[c] # 0 => c = d
  /\ publishers \subseteq Made /\ untold \subseteq Made
  /\ relay \in publishers \cup {Listening, Ended}
  /\ socket \in {"closed", "open", "subscribed"}
  /\ Len(queue) <= QueueSize /\ \A i \in DOMAIN queue : number[queue[i]] # 0
  /\ {lastSequence, first} \subseteq 0..sequence
  /\ page \in [Resources -> [gets : Seq(Nat), shown : 0..MaxChanges,
                             newest : {"shown", "waiting", "lost"}]]

(* Whatever was dropped from a full queue, queued in another order than it *)
(* was numbered, or lost with a connection: a change whose number the      *)
(* browser has passed since the first message it handled, it was told to   *)
(* refetch (live-updates.ts:58-73, live_updates.py:25-40).                 *)
PassedIsRefetched ==
  \A c \in untold : number[c] \notin first..lastSequence \/ number[c] = 0

(* Announcements a browser has no way to miss: those given while it loaded *)
(* or between its refetch and its subscription, and those before the first *)
(* message it handled, which is compared with nothing.                     *)
Unnoticed(change) ==
  number[change] = 0 \/ number[change] \in unheard \/ number[change] < first

(* A change is shown, unless the newest GET of its resource failed or was  *)
(* overtaken by an older one: nothing repeats that.                        *)
Shown(change) ==
  LET at == page[kind[change]] IN at.newest = "lost" \/ (at.newest = "shown" /\ at.shown >= change)

(* A subscribed browser with nothing left to handle, and no answer to wait *)
(* for, shows every other announced change, as long as no more             *)
(* announcements than the queue holds overtake each other                  *)
(* (live_updates.py:35-40, live-updates.ts:66-74, overview-page.tsx:62-73).*)
Quiet ==
  /\ socket = "subscribed" /\ queue = <<>> /\ publishers = {}
  /\ \A r \in Resources : page[r].gets = <<>>

QuietIsFresh == Quiet => \A c \in Made : Unnoticed(c) \/ Shown(c)

(* Every other announced change is shown in the end, however the           *)
(* connection breaks and the announcements overtake each other             *)
(* (live-updates.ts:49-83, overview-page.tsx:62-75); and the relay         *)
(* announces what it was sent as long as it lives (app.py:95-111).         *)
ChangesAreShown == <>[](inbox = <<>> /\ \A c \in Made : Unnoticed(c) \/ Shown(c))
=============================================================================
