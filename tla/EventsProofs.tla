---------------------------- MODULE EventsProofs ----------------------------
(***************************************************************************)
(* What event streams show, for any number of submissions, workers and     *)
(* clients and any capacity of their channels.                             *)
(*                                                                         *)
(* A snapshot may be out of date when it is published, and again when it   *)
(* is emitted.  One that says DONE never is, because DONE rows stay: that  *)
(* is what Current says of a snapshot on each stage of its way.            *)
(***************************************************************************)
EXTENDS Events, LifecycleProofs, FiniteSetTheorems

(* A snapshot of s that is true if it says DONE.                            *)
Current(item, s) == item \in Snapshots /\ (item.status = "DONE" => item = Snapshot(s))

Publishing(w) == pc[w] = "publish" \/ hb[w] = "publish"

(* What workers have got and not yet published, ...                         *)
Held == \A w \in Workers : Publishing(w) => Current(snap[w], job[w].id)

(* ... what a receiver has yet to deliver, ...                              *)
InboxOK(c) ==
  /\ inbox[c] \in Seq(Snapshots) /\ Len(inbox[c]) <= Capacity
  /\ \A i \in 1 .. Len(inbox[c]) : Current(inbox[c][i], topic[c])
  /\ ~Listening(c) => inbox[c] = <<>>

(* ... and what a stream has shown.                                         *)
StreamOK(c) ==
  /\ client[c] # "away" => topic[c] \in Ids
  /\ client[c] \in {"got", "closed"} => Current(shown[c], topic[c])
  /\ client[c] = "closed" => shown[c].status = "DONE"

HubTypes ==
  /\ snap     \in [Workers -> Snapshots \cup {NULL}]
  /\ channels \subseteq Ids
  /\ client   \in [Clients -> ClientStates]
  /\ topic    \in [Clients -> Ids \cup {NULL}]
  /\ inbox    \in [Clients -> Seq(Snapshots)]
  /\ shown    \in [Clients -> Snapshots \cup {NULL}]

EInv == HubTypes /\ Held /\ \A c \in Clients : InboxOK(c) /\ StreamOK(c)

(* The hub and its clients only watch the workers.                          *)
LEMMA EventsStepIsStep == [EventsNext]_evars => [Next]_vars
<1> QED
  BY DEF EventsNext, evars, WorkerEvents, HeartbeatEvents, SweepAndPrune, CrashConnections,
       StreamStep, ReadCurrent, EmitFirst, EmitNext, Emit, Disconnect, Subscribe,
       Next, WorkerStep, HeartbeatStep

(* So what is proved of the workers holds with clients, too.                *)
LEMMA EventsAreWorkers == EventsSpec => []LInv
<1>1. EventsSpec => Spec
  <2>1. EventsInit => Init
    BY DEF EventsInit
  <2> QED
    BY <2>1, EventsStepIsStep, PTL DEF EventsSpec, Spec
<1> QED
  BY <1>1, TriedInvariance, PTL

(* A snapshot that says DONE stays true.                                    *)
LEMMA DoneSnapshotsStay ==
  ASSUME LInv, [Next]_vars
  PROVE  \A s \in Ids : status[s] = "DONE" => Snapshot(s)' = Snapshot(s)
<1>1. DoneRowsStay
  BY StepIsTableStep, DoneStep DEF LInv, IInv, TypeOK
<1> QED
  BY <1>1 DEF DoneRowsStay, RowUnchanged, Snapshot

(* ... and so does any snapshot that is current.                            *)
LEMMA CurrentStays ==
  ASSUME LInv, [Next]_vars
  PROVE  \A s \in Ids : \A item \in Snapshots :
            (item.status = "DONE" => item = Snapshot(s)) =>
            (item.status = "DONE" => item = Snapshot(s)')
<1> SUFFICES ASSUME NEW s \in Ids, NEW item \in Snapshots, item.status = "DONE", item = Snapshot(s)
             PROVE  item = Snapshot(s)'
  OBVIOUS
<1>1. status[s] = "DONE"
  BY DEF Snapshot
<1> QED
  BY <1>1, DoneSnapshotsStay

(* What a worker reads of its own row is a snapshot.                        *)
LEMMA SnapshotType ==
  ASSUME LInv, NEW s \in Ids, status[s] # "ABSENT"
  PROVE  Current(Snapshot(s), s)
<1>1. status[s] \in Status /\ verdict[s] \in Verdicts \cup {NULL}
  BY DEF LInv, IInv, TypeOK, TableTypeOK
<1> QED
  BY <1>1 DEF Current, Snapshot, Snapshots

(* A busy worker was given its token for a row that exists.                 *)
LEMMA OwnRowExists ==
  ASSUME LInv, NEW w \in Workers, pc[w] # "idle"
  PROVE  job[w].id \in Ids /\ status[job[w].id] # "ABSENT"
<1>1. job[w].id \in Ids /\ job[w].attempt \in Nat
  BY BusyHasJob DEF LInv
<1>2. attempt[job[w].id] > 0
  <2>1. job[w].attempt \in 1 .. attempt[job[w].id]
    BY DEF LInv, IInv, Bookkeeping, TokensAreUnique
  <2>2. attempt[job[w].id] \in Nat
    BY <1>1 DEF LInv, IInv, TypeOK, TableTypeOK
  <2> QED
    BY ONLY <1>1, <2>1, <2>2
<1> QED
  BY <1>1, <1>2 DEF LInv, Tried

(* Sending to a receiver, full or not.                                      *)
LEMMA PushProperties ==
  ASSUME NEW q \in Seq(Snapshots), Len(q) <= Capacity, NEW item \in Snapshots
  PROVE  /\ Push(q, item) \in Seq(Snapshots) /\ Len(Push(q, item)) <= Capacity
         /\ \A i \in 1 .. Len(Push(q, item)) :
               \/ Push(q, item)[i] = item
               \/ \E j \in 1 .. Len(q) : Push(q, item)[i] = q[j]
<1>1. Len(q) \in Nat
  BY LenProperties
<1>2. CASE Len(q) = Capacity
  <2>1. q # <<>>
    BY <1>2, CapacityIsPositive, EmptySeq
  <2>2. /\ Tail(q) \in Seq(Snapshots) /\ Len(Tail(q)) = Len(q) - 1
        /\ \A i \in 1 .. Len(q) - 1 : Tail(q)[i] = q[i + 1]
    BY <2>1, HeadTailProperties
  <2>3. /\ Push(q, item) = Append(Tail(q), item)
        /\ Append(Tail(q), item) \in Seq(Snapshots)
        /\ Len(Append(Tail(q), item)) = Len(q)
        /\ \A i \in 1 .. Len(q) - 1 : Append(Tail(q), item)[i] = q[i + 1]
        /\ Append(Tail(q), item)[Len(q)] = item
    BY <2>2, <1>1, <1>2, AppendProperties DEF Push
  <2>4. \A i \in 1 .. Len(q) : i = Len(q) \/ (i \in 1 .. Len(q) - 1 /\ i + 1 \in 1 .. Len(q))
    BY <1>1
  <2> QED
    BY <2>3, <2>4, <1>2
<1>3. CASE Len(q) # Capacity
  <2>1. /\ Push(q, item) = Append(q, item)
        /\ Append(q, item) \in Seq(Snapshots)
        /\ Len(Append(q, item)) = Len(q) + 1
        /\ \A i \in 1 .. Len(q) : Append(q, item)[i] = q[i]
        /\ Append(q, item)[Len(q) + 1] = item
    BY <1>3, AppendProperties DEF Push
  <2>2. \A i \in 1 .. Len(q) + 1 : i \in 1 .. Len(q) \/ i = Len(q) + 1
    BY <1>1
  <2>3. Len(q) + 1 <= Capacity
    BY <1>1, <1>3, CapacityIsPositive
  <2> QED
    BY <2>1, <2>2, <2>3
<1> QED
  BY <1>2, <1>3

-----------------------------------------------------------------------------
(* No worker starts to publish, and those who do keep their job.            *)
KeepsPublishers ==
  \A w \in Workers : Publishing(w)' => Publishing(w) /\ job'[w] = job[w]

(* Worker steps other than get and publish leave the publishers alone ...   *)
LEMMA QuietSteps ==
  ASSUME IInv, NEW w \in Workers,
         \/ Claim(w) \/ ProblemGone(w) \/ Start(w) \/ JudgeNotify(w) \/ JudgeReturn(w)
         \/ Drained(w) \/ Record(w) \/ Heartbeat(w) \/ Hang(w)
  PROVE  KeepsPublishers
<1>a. TypeOK /\ Bookkeeping
  BY DEF IInv
<1> USE DEF KeepsPublishers, Publishing, TypeOK, Goto
<1>1. CASE Claim(w)
  BY <1>1, <1>a DEF Claim, Bookkeeping
<1>2. CASE ProblemGone(w)
  BY <1>2, <1>a DEF ProblemGone, Return, Bookkeeping
<1>3. CASE Start(w)
  BY <1>3, <1>a DEF Start
<1>4. CASE JudgeNotify(w) \/ JudgeReturn(w) \/ Drained(w) \/ Hang(w)
  BY <1>4, <1>a DEF JudgeNotify, JudgeReturn, Drained, Hang
<1>5. CASE Record(w)
  BY <1>5, <1>a DEF Record
<1>6. CASE Heartbeat(w)
  BY <1>6, <1>a DEF Heartbeat
<1> QED
  BY <1>1, <1>2, <1>3, <1>4, <1>5, <1>6

(* ... and so do requests, sweeps, restarts and time.                       *)
LEMMA QuietOthers ==
  ASSUME CreateSubmission \/ Restart \/ SweeperTick \/ (\E s \in Ids : Tick(s)) \/ UNCHANGED vars
  PROVE  KeepsPublishers
<1> QED
  BY DEF CreateSubmission, Restart, SweeperTick, Tick, vars, local, KeepsPublishers, Publishing

(* A worker that publishes has a row.                                       *)
LEMMA PublisherHasRow ==
  ASSUME LInv, NEW w \in Workers, Publishing(w)
  PROVE  job[w].id \in Ids /\ status[job[w].id] # "ABSENT"
<1>1. pc[w] # "idle"
  BY DEF LInv, IInv, Bookkeeping, Publishing
<1> QED
  BY <1>1, OwnRowExists

(* What is held, received or shown stays current while nothing new is.      *)
LEMMA HeldStays ==
  ASSUME LInv, [Next]_vars, Held, KeepsPublishers, snap' = snap
  PROVE  Held'
<1> SUFFICES ASSUME NEW w \in Workers, Publishing(w)' PROVE Current(snap[w], job[w].id)'
  BY DEF Held
<1>1. Publishing(w) /\ job'[w] = job[w]
  BY DEF KeepsPublishers
<1>2. Current(snap[w], job[w].id) /\ job[w].id \in Ids
  BY <1>1, PublisherHasRow DEF Held
<1>3. snap[w] \in Snapshots /\ (snap[w].status = "DONE" => snap[w] = Snapshot(job[w].id)')
  <2>1. \A s \in Ids : status[s] = "DONE" => Snapshot(s)' = Snapshot(s)
    BY DoneSnapshotsStay
  <2>2. snap[w].status = "DONE" => status[job[w].id] = "DONE"
    BY <1>2 DEF Current, Snapshot
  <2> QED
    BY <1>1, <1>2, <2>1, <2>2 DEF Current, Snapshot
<1> QED
  BY <1>1, <1>3 DEF Current

(* A client that no step touches keeps what it has, and it stays current.   *)
LEMMA StreamsStay ==
  ASSUME LInv, [Next]_vars, HubTypes, NEW c \in Clients, InboxOK(c), StreamOK(c),
         client'[c] = client[c], topic'[c] = topic[c], inbox'[c] = inbox[c], shown'[c] = shown[c]
  PROVE  InboxOK(c)' /\ StreamOK(c)'
<1>1. \A s \in Ids : \A item \in Snapshots :
         (item.status = "DONE" => item = Snapshot(s)) =>
         (item.status = "DONE" => item = Snapshot(s)')
  BY CurrentStays
<1>2. ASSUME NEW i \in 1 .. Len(inbox[c]) PROVE Current(inbox[c][i], topic[c])'
  <2>1. topic[c] \in Ids
    <3>1. inbox[c] # <<>>
      BY EmptySeq DEF InboxOK
    <3> QED
      BY <3>1 DEF InboxOK, StreamOK, Listening
  <2> QED
    BY <2>1, <1>1 DEF InboxOK, Current
<1>3. client[c] \in {"got", "closed"} => Current(shown[c], topic[c])'
  BY <1>1 DEF StreamOK, Current
<1> QED
  BY <1>2, <1>3 DEF InboxOK, StreamOK, Listening

-----------------------------------------------------------------------------
(* After a get there is something current to publish, or nothing.           *)
LEMMA GetKeepsHeld ==
  ASSUME LInv, EInv, NEW w \in Workers,
         \/ LastGet(w) /\ Hold(w, pc'[w] = "publish")
         \/ HeartbeatGet(w) /\ Hold(w, hb'[w] = "publish")
  PROVE  Held' /\ snap' \in [Workers -> Snapshots \cup {NULL}]
<1>a. TypeOK /\ Bookkeeping /\ Held /\ snap \in [Workers -> Snapshots \cup {NULL}]
  BY DEF LInv, IInv, EInv, HubTypes
<1>b. pc[w] # "idle"
  BY <1>a DEF LastGet, HeartbeatGet, Bookkeeping
<1>1. /\ job[w].id \in Ids
      /\ Current(Snapshot(job[w].id), job[w].id)
  BY <1>b, OwnRowExists, SnapshotType
<1>2. /\ \A s \in Ids : Snapshot(s)' = Snapshot(s)
      /\ Publishing(w)' => job'[w] = job[w] /\ snap'[w] = Snapshot(job[w].id)
      /\ snap'[w] \in {Snapshot(job[w].id), NULL}
      /\ \A x \in Workers \ {w} :
            /\ Publishing(x)' <=> Publishing(x)
            /\ job'[x] = job[x] /\ snap'[x] = snap[x]
  <2>1. CASE LastGet(w) /\ Hold(w, pc'[w] = "publish")
    <3>1. UNCHANGED table /\ hb' = hb /\ hb[w] = "none"
      BY <2>1, <1>a DEF LastGet, Return, Bookkeeping
    <3> QED
      BY <2>1, <3>1, <1>a DEF LastGet, Return, Goto, Hold, Publishing, Snapshot, table, TypeOK
  <2>2. CASE HeartbeatGet(w) /\ Hold(w, hb'[w] = "publish")
    <3>1. UNCHANGED table /\ pc' = pc /\ job' = job /\ pc[w] # "publish"
      BY <2>2, <1>a DEF HeartbeatGet, Bookkeeping
    <3> QED
      BY <2>2, <3>1, <1>a DEF HeartbeatGet, Hold, Publishing, Snapshot, table, TypeOK
  <2> QED
    BY <2>1, <2>2
<1>3. snap' \in [Workers -> Snapshots \cup {NULL}]
  BY <1>a, <1>1 DEF Hold, Current
<1>4. ASSUME NEW x \in Workers, Publishing(x)' PROVE Current(snap[x], job[x].id)'
  <2>1. CASE x = w
    BY <2>1, <1>1, <1>2, <1>4 DEF Current
  <2>2. CASE x # w
    <3>1. Current(snap[x], job[x].id) /\ job[x].id \in Ids
      BY <2>2, <1>2, <1>4, <1>a, PublisherHasRow DEF Held
    <3> QED
      BY <2>2, <3>1, <1>2 DEF Current
  <2> QED
    BY <2>1, <2>2
<1> QED
  BY <1>3, <1>4 DEF Held

(* A publish hands a current snapshot to every receiver of its submission.  *)
LEMMA SendKeeps ==
  ASSUME LInv, EInv, NEW w \in Workers, LastPublish(w) \/ HeartbeatPublish(w), Send(w)
  PROVE  EInv'
<1>a. TypeOK /\ Bookkeeping /\ Held /\ HubTypes
  BY DEF LInv, IInv, EInv
<1>b. Publishing(w) /\ UNCHANGED table
  BY DEF LastPublish, HeartbeatPublish, Publishing
<1>1. /\ job[w].id \in Ids /\ Current(snap[w], job[w].id) /\ snap[w] \in Snapshots
  BY <1>a, <1>b, PublisherHasRow DEF Held, Current
<1>2. \A s \in Ids : Snapshot(s)' = Snapshot(s)
  BY <1>b DEF table, Snapshot
<1>3. /\ ~Publishing(w)'
      /\ \A x \in Workers \ {w} :
            (Publishing(x)' <=> Publishing(x)) /\ job'[x] = job[x] /\ snap'[x] = snap[x]
  <2>1. CASE LastPublish(w)
    BY <2>1, <1>a DEF LastPublish, Return, Goto, Send, Publishing, Bookkeeping, TypeOK, HubTypes
  <2>2. CASE HeartbeatPublish(w)
    BY <2>2, <1>a DEF HeartbeatPublish, Send, Publishing, Bookkeeping, TypeOK, HubTypes
  <2> QED
    BY <2>1, <2>2
<1>4. Held'
  <2> SUFFICES ASSUME NEW x \in Workers, Publishing(x)' PROVE Current(snap[x], job[x].id)'
    BY DEF Held
  <2>1. Current(snap[x], job[x].id) /\ job[x].id \in Ids
    BY <1>3, <1>a, PublisherHasRow DEF Held
  <2> QED
    BY <2>1, <1>2, <1>3 DEF Current
<1>5. UNCHANGED <<channels, client, topic, shown>>
  BY DEF Send, Publish
<1>6. ASSUME NEW c \in Clients PROVE InboxOK(c)' /\ StreamOK(c)'
  <2>0. InboxOK(c) /\ StreamOK(c)
    BY DEF EInv
  <2>1. StreamOK(c)'
    BY <2>0, <1>2, <1>5 DEF StreamOK, Current
  <2>2. CASE inbox'[c] = inbox[c]
    <3>1. \A i \in 1 .. Len(inbox[c]) : topic[c] \in Ids
      BY <2>0, EmptySeq DEF InboxOK, StreamOK, Listening
    <3>2. InboxOK(c)'
      BY <2>0, <2>2, <3>1, <1>2, <1>5 DEF InboxOK, Current, Listening
    <3> QED
      BY <2>1, <3>2
  <2>3. CASE /\ Listening(c) /\ topic[c] = job[w].id
             /\ inbox'[c] = Push(inbox[c], snap[w])
    <3>1. /\ inbox'[c] \in Seq(Snapshots) /\ Len(inbox'[c]) <= Capacity
          /\ \A i \in 1 .. Len(inbox'[c]) :
                \/ inbox'[c][i] = snap[w]
                \/ \E j \in 1 .. Len(inbox[c]) : inbox'[c][i] = inbox[c][j]
      <4> DEFINE q == inbox[c]
                 p == Push(q, snap[w])
      <4>1. q \in Seq(Snapshots) /\ Len(q) <= Capacity
        BY <2>0 DEF InboxOK
      <4>2. /\ p \in Seq(Snapshots) /\ Len(p) <= Capacity
            /\ \A i \in 1 .. Len(p) : p[i] = snap[w] \/ \E j \in 1 .. Len(q) : p[i] = q[j]
        <5> HIDE DEF q
        <5> QED
          BY <4>1, <1>1, PushProperties
      <4>3. inbox'[c] = p
        BY <2>3
      <4> HIDE DEF p
      <4> QED
        BY <4>2, <4>3
    <3>2. \A i \in 1 .. Len(inbox'[c]) : Current(inbox'[c][i], topic[c])
      BY <2>0, <2>3, <3>1, <1>1 DEF InboxOK
    <3>3. \A i \in 1 .. Len(inbox'[c]) : Current(inbox[c][i], topic[c])'
      BY <2>3, <3>2, <1>1, <1>2, <1>5 DEF Current
    <3>4. Listening(c)'
      BY <2>3, <1>5 DEF Listening
    <3> QED
      BY <2>1, <3>1, <3>3, <3>4 DEF InboxOK
  <2> QED
    BY <2>2, <2>3 DEF Send, Publish
<1>7. HubTypes'
  <2>1. snap' \in [Workers -> Snapshots \cup {NULL}]
    BY <1>a DEF Send, HubTypes
  <2>2. inbox' \in [Clients -> Seq(Snapshots)]
    BY <1>6 DEF Send, Publish, InboxOK
  <2> QED
    BY <2>1, <2>2, <1>a, <1>5 DEF HubTypes
<1> QED
  BY <1>4, <1>6, <1>7 DEF EInv

-----------------------------------------------------------------------------
(* A request moves one client and leaves the workers alone.                 *)
LEMMA ClientKeeps ==
  ASSUME LInv, EInv, UNCHANGED <<vars, snap>>, HubTypes', NEW c \in Clients,
         InboxOK(c)', StreamOK(c)',
         \A d \in Clients \ {c} : /\ client'[d] = client[d] /\ topic'[d] = topic[d]
                                  /\ inbox'[d] = inbox[d] /\ shown'[d] = shown[d]
  PROVE  EInv'
<1>1. [Next]_vars /\ KeepsPublishers
  BY QuietOthers
<1>2. Held'
  BY <1>1, HeldStays DEF EInv
<1>3. ASSUME NEW d \in Clients PROVE InboxOK(d)' /\ StreamOK(d)'
  <2>1. CASE d = c
    BY <2>1
  <2>2. CASE d # c
    BY <2>2, <1>1, StreamsStay DEF EInv
  <2> QED
    BY <2>1, <2>2
<1> QED
  BY <1>2, <1>3 DEF EInv

(* Subscribing, reading the current state and going away.                   *)
LEMMA RequestStep ==
  ASSUME LInv, EInv, NEW c \in Clients,
         ReadCurrent(c) \/ Disconnect(c) \/ \E s \in Ids : Subscribe(c, s)
  PROVE  EInv'
<1>a. HubTypes /\ InboxOK(c) /\ StreamOK(c)
  BY DEF EInv
<1>e. <<>> \in Seq(Snapshots) /\ Len(<<>>) = 0 /\ 0 <= Capacity
  BY EmptySeq, CapacityIsPositive
<1>v. UNCHANGED <<vars, snap>> /\ \A s : Snapshot(s)' = Snapshot(s)
  BY DEF ReadCurrent, Disconnect, Subscribe, vars, table, Snapshot
<1>1. ASSUME NEW s \in Ids, Subscribe(c, s) PROVE EInv'
  <2>1. /\ client'[c] = "subscribed" /\ topic'[c] = s
        /\ inbox'[c] = inbox[c] /\ inbox[c] = <<>>
        /\ \A d \in Clients \ {c} : /\ client'[d] = client[d] /\ topic'[d] = topic[d]
                                    /\ inbox'[d] = inbox[d] /\ shown'[d] = shown[d]
    BY <1>1, <1>a DEF Subscribe, HubTypes, InboxOK, Listening
  <2>2. HubTypes'
    BY <1>1, <1>a DEF Subscribe, HubTypes, ClientStates
  <2>3. InboxOK(c)' /\ StreamOK(c)'
    BY <2>1, <1>e DEF InboxOK, StreamOK, Listening
  <2> QED
    BY <2>1, <2>2, <2>3, <1>v, ClientKeeps
<1>2. CASE Disconnect(c)
  <2>1. /\ client'[c] = "away" /\ inbox'[c] = <<>>
        /\ \A d \in Clients \ {c} : /\ client'[d] = client[d] /\ topic'[d] = topic[d]
                                    /\ inbox'[d] = inbox[d] /\ shown'[d] = shown[d]
    BY <1>2, <1>a DEF Disconnect, HubTypes
  <2>2. HubTypes'
    BY <1>2, <1>a, <1>e DEF Disconnect, HubTypes, ClientStates
  <2>3. InboxOK(c)' /\ StreamOK(c)'
    BY <2>1, <1>e DEF InboxOK, StreamOK, Listening
  <2> QED
    BY <2>1, <2>2, <2>3, <1>v, ClientKeeps
<1>3. CASE ReadCurrent(c)
  <2>0. topic[c] \in Ids /\ topic' = topic /\ channels' = channels
    BY <1>3, <1>a DEF ReadCurrent, StreamOK
  <2>1. CASE status[topic[c]] = "ABSENT"
    <3>1. /\ client'[c] = "refused" /\ inbox'[c] = <<>>
          /\ \A d \in Clients \ {c} : /\ client'[d] = client[d] /\ topic'[d] = topic[d]
                                      /\ inbox'[d] = inbox[d] /\ shown'[d] = shown[d]
      BY <1>3, <2>1, <1>a DEF ReadCurrent, HubTypes
    <3>2. HubTypes'
      BY <1>3, <2>1, <1>a, <1>e, <1>v DEF ReadCurrent, HubTypes, ClientStates
    <3>3. InboxOK(c)' /\ StreamOK(c)'
      BY <3>1, <2>0, <1>e DEF InboxOK, StreamOK, Listening
    <3> QED
      BY <3>1, <3>2, <3>3, <1>v, ClientKeeps
  <2>2. CASE status[topic[c]] # "ABSENT"
    <3>0. Current(Snapshot(topic[c]), topic[c])
      BY <2>0, <2>2, SnapshotType
    <3>1. /\ client'[c] = "got" /\ inbox' = inbox /\ shown'[c] = Snapshot(topic[c])
          /\ Listening(c)
          /\ \A d \in Clients \ {c} : /\ client'[d] = client[d] /\ topic'[d] = topic[d]
                                      /\ inbox'[d] = inbox[d] /\ shown'[d] = shown[d]
      BY <1>3, <2>2, <1>a DEF ReadCurrent, HubTypes, Listening
    <3>2. HubTypes'
      BY <1>3, <2>2, <3>0, <1>a, <1>v DEF ReadCurrent, HubTypes, ClientStates, Current
    <3>3. InboxOK(c)'
      BY <3>1, <2>0, <1>a, <1>v DEF InboxOK, Listening, Current
    <3>4. StreamOK(c)'
      BY <3>0, <3>1, <2>0, <1>v DEF StreamOK, Current
    <3> QED
      BY <3>1, <3>2, <3>3, <3>4, <1>v, ClientKeeps
  <2> QED
    BY <2>1, <2>2
<1> QED
  BY <1>1, <1>2, <1>3

(* An emitted item was current in the inbox or as the first one.            *)
LEMMA EmitStep ==
  ASSUME LInv, EInv, NEW c \in Clients, EmitFirst(c) \/ EmitNext(c)
  PROVE  EInv'
<1>a. HubTypes /\ InboxOK(c) /\ StreamOK(c) /\ topic[c] \in Ids
  BY DEF EInv, EmitFirst, EmitNext, StreamOK
<1>e. <<>> \in Seq(Snapshots) /\ Len(<<>>) = 0 /\ 0 <= Capacity
  BY EmptySeq, CapacityIsPositive
<1>v. /\ UNCHANGED <<vars, snap>> /\ \A s : Snapshot(s)' = Snapshot(s)
      /\ UNCHANGED <<channels, topic>>
  BY DEF EmitFirst, EmitNext, Emit, vars, table, Snapshot
<1>1. ASSUME NEW item, NEW rest, Emit(c, item, rest), Current(item, topic[c]),
             rest \in Seq(Snapshots), Len(rest) <= Capacity,
             \A i \in 1 .. Len(rest) : Current(rest[i], topic[c])
      PROVE  EInv'
  <2>1. /\ shown'[c] = item
        /\ client'[c] = IF item.status = "DONE" THEN "closed" ELSE "streaming"
        /\ inbox'[c] = IF item.status = "DONE" THEN <<>> ELSE rest
        /\ \A d \in Clients \ {c} : /\ client'[d] = client[d] /\ topic'[d] = topic[d]
                                    /\ inbox'[d] = inbox[d] /\ shown'[d] = shown[d]
    BY <1>1, <1>a DEF Emit, HubTypes
  <2>2. HubTypes'
    BY <1>1, <1>a, <1>e, <1>v DEF Emit, HubTypes, ClientStates, Current
  <2>3. InboxOK(c)'
    <3>1. CASE item.status = "DONE"
      BY <2>1, <3>1, <1>e DEF InboxOK
    <3>2. CASE item.status # "DONE"
      BY <2>1, <3>2, <1>1, <1>v DEF InboxOK, Listening, Current
    <3> QED
      BY <3>1, <3>2
  <2>4. StreamOK(c)'
    BY <2>1, <1>1, <1>a, <1>v DEF StreamOK, Current
  <2> QED
    BY <2>1, <2>2, <2>3, <2>4, <1>v, ClientKeeps
<1>2. CASE EmitFirst(c)
  BY <1>1, <1>2, <1>a DEF EmitFirst, InboxOK, StreamOK
<1>3. CASE EmitNext(c)
  <2> DEFINE q == inbox[c]
  <2>1. q \in Seq(Snapshots) /\ q # <<>> /\ Len(q) \in Nat \ {0} /\ Len(q) <= Capacity
    BY <1>3, <1>a, LenProperties, EmptySeq DEF EmitNext, InboxOK
  <2>2. /\ Head(q) = q[1] /\ Tail(q) \in Seq(Snapshots) /\ Len(Tail(q)) = Len(q) - 1
        /\ \A i \in 1 .. Len(Tail(q)) : Tail(q)[i] = q[i + 1]
    BY <2>1, HeadTailProperties
  <2>3. \A i \in 1 .. Len(q) : Current(q[i], topic[c])
    BY <1>a DEF InboxOK
  <2>4. Current(Head(q), topic[c])
    BY <2>1, <2>2, <2>3
  <2>5. \A i \in 1 .. Len(Tail(q)) : Current(Tail(q)[i], topic[c])
    BY <2>1, <2>2, <2>3
  <2>6. Len(Tail(q)) <= Capacity
    BY <2>1, <2>2, CapacityIsPositive
  <2> QED
    BY <1>1, <1>3, <2>2, <2>4, <2>5, <2>6 DEF EmitNext
<1> QED
  BY <1>2, <1>3

(* The invariant about hub and clients is inductive.                        *)
LEMMA EventsStep == LInv /\ EInv /\ [EventsNext]_evars => EInv'
<1> SUFFICES ASSUME LInv, EInv, [EventsNext]_evars PROVE EInv'
  OBVIOUS
<1>n. [Next]_vars
  BY EventsStepIsStep
<1>q. ASSUME KeepsPublishers, UNCHANGED <<snap, client, topic, inbox, shown>>, channels' \subseteq Ids
      PROVE  EInv'
  <2>1. Held'
    BY <1>n, <1>q, HeldStays DEF EInv
  <2>2. ASSUME NEW c \in Clients PROVE InboxOK(c)' /\ StreamOK(c)'
    BY <1>n, <1>q, StreamsStay DEF EInv
  <2>3. HubTypes'
    BY <1>q DEF EInv, HubTypes
  <2> QED
    BY <2>1, <2>2, <2>3 DEF EInv
<1>c. IInv /\ channels \subseteq Ids
  BY DEF LInv, EInv, HubTypes
<1>1. ASSUME NEW w \in Workers,
             \/ Claim(w) \/ ProblemGone(w) \/ Start(w) \/ JudgeNotify(w) \/ JudgeReturn(w)
             \/ Drained(w) \/ Record(w) \/ Heartbeat(w) \/ Hang(w),
             UNCHANGED hub
      PROVE  EInv'
  BY <1>1, <1>c, <1>q, QuietSteps DEF hub
<1>2. ASSUME NEW w \in Workers,
             \/ LastGet(w) /\ Hold(w, pc'[w] = "publish")
             \/ HeartbeatGet(w) /\ Hold(w, hb'[w] = "publish")
      PROVE  EInv'
  <2>1. Held' /\ snap' \in [Workers -> Snapshots \cup {NULL}]
    BY <1>2, GetKeepsHeld
  <2>2. UNCHANGED <<channels, client, topic, inbox, shown>>
    BY <1>2 DEF Hold
  <2>3. ASSUME NEW c \in Clients PROVE InboxOK(c)' /\ StreamOK(c)'
    BY <1>n, <2>2, StreamsStay DEF EInv
  <2> QED
    BY <2>1, <2>2, <2>3 DEF EInv, HubTypes
<1>3. ASSUME NEW w \in Workers, LastPublish(w) \/ HeartbeatPublish(w), Send(w) PROVE EInv'
  BY <1>3, SendKeeps
<1>4. CASE SweepAndPrune
  <2>1. channels' \subseteq Ids /\ UNCHANGED <<snap, client, topic, inbox, shown>>
    BY <1>4, <1>c DEF SweepAndPrune, Prune
  <2> QED
    BY <1>4, <2>1, <1>q, QuietOthers DEF SweepAndPrune
<1>5. CASE CrashConnections
  <2>1. \A w \in Workers : ~Publishing(w)'
    BY <1>5 DEF CrashConnections, Crash, ProcessGone, Publishing
  <2>2. \A c \in Clients : client'[c] = "away" /\ inbox'[c] = <<>>
    BY <1>5 DEF CrashConnections
  <2>3. <<>> \in Seq(Snapshots) /\ Len(<<>>) = 0 /\ 0 <= Capacity
    BY EmptySeq, CapacityIsPositive
  <2>4. ASSUME NEW c \in Clients PROVE InboxOK(c)' /\ StreamOK(c)'
    <3>0. inbox'[c] = <<>>
      BY <2>2
    <3>1. InboxOK(c)'
      BY <3>0, <2>3 DEF InboxOK
    <3>2. StreamOK(c)'
      BY <2>2 DEF StreamOK
    <3> QED
      BY <3>1, <3>2
  <2>5. HubTypes'
    BY <1>5, <2>3 DEF CrashConnections, HubTypes, ClientStates
  <2> QED
    BY <2>1, <2>4, <2>5 DEF EInv, Held
<1>6. CASE (CreateSubmission \/ Restart \/ \E s \in Ids : Tick(s)) /\ UNCHANGED hub
  BY <1>6, <1>c, <1>q, QuietOthers DEF hub
<1>7. ASSUME NEW c \in Clients, StreamStep(c) \/ Disconnect(c) \/ \E s \in Ids : Subscribe(c, s)
      PROVE  EInv'
  BY <1>7, RequestStep, EmitStep DEF StreamStep
<1>8. CASE UNCHANGED evars
  BY <1>8, <1>c, <1>q, QuietOthers DEF evars, hub
<1> QED
  BY <1>1, <1>2, <1>3, <1>4, <1>5, <1>6, <1>7, <1>8 DEF EventsNext, WorkerEvents, HeartbeatEvents

(* Nobody is connected at the start.                                        *)
LEMMA EventsInitially == EventsInit => EInv
<1> SUFFICES ASSUME EventsInit PROVE EInv
  OBVIOUS
<1>1. <<>> \in Seq(Snapshots) /\ Len(<<>>) = 0 /\ 0 <= Capacity
  BY EmptySeq, CapacityIsPositive
<1>2. HubTypes
  BY <1>1 DEF EventsInit, Disconnected, HubTypes, ClientStates
<1>3. Held
  BY DEF EventsInit, Init, NoJobs, Held, Publishing
<1>4. ASSUME NEW c \in Clients PROVE InboxOK(c) /\ StreamOK(c)
  BY <1>1 DEF EventsInit, Disconnected, InboxOK, StreamOK
<1> QED
  BY <1>2, <1>3, <1>4 DEF EInv

(* The inductive invariant of the event streams.                            *)
LEMMA EventsInvariant == EventsSpec => [](LInv /\ EInv)
<1> QED
  BY EventsInitially, EventsStep, EventsAreWorkers, PTL DEF EventsSpec

-----------------------------------------------------------------------------
(* Hub, clients and workers keep their types; in particular no inbox grows  *)
(* beyond the capacity of its channel, and what is published is a row.      *)
THEOREM EventsTypes == EventsSpec => []EventsTypeOK
<1>1. LInv /\ EInv => EventsTypeOK
  BY DEF LInv, IInv, EInv, HubTypes, InboxOK, EventsTypeOK
<1> QED
  BY <1>1, EventsInvariant, PTL

(* A stream that has ended showed the final verdict of its submission.      *)
THEOREM ClosedStreams == EventsSpec => []ClosedWithVerdict
<1>1. EInv => ClosedWithVerdict
  BY DEF EInv, StreamOK, Current, ClosedWithVerdict
<1> QED
  BY <1>1, EventsInvariant, PTL

-----------------------------------------------------------------------------
(* When the verdict reaches every stream: no store call fails, no problem   *)
(* is removed, and a channel has room for an item of every worker.  With    *)
(* less room late publishers of what they read before the verdict could     *)
(* push the verdict out of an inbox.                                        *)
Served ==
  /\ "store" \notin FaultKinds
  /\ \A cat \in Catalogs : cat.version # NULL
  /\ IsFiniteSet(Workers) /\ Cardinality(Workers) <= Capacity

(* A worker is on its way to its last get, ...                              *)
Active(w, s) ==
  /\ job[w] # NULL /\ job[w].id = s
  /\ pc[w] \in {"start", "judge", "hung", "drain", "record", "get"}

(* ... or has got the verdict and not yet published it, ...                 *)
HasVerdict(w, s) ==
  /\ job[w] # NULL /\ job[w].id = s
  /\ pc[w] = "publish" /\ snap[w].status = "DONE"

Outstanding(s) == \E w \in Workers : Active(w, s) \/ HasVerdict(w, s)

(* ... or has got something older than the verdict.                         *)
Late(s) ==
  {w \in Workers : /\ job[w] # NULL /\ job[w].id = s
                   /\ pc[w] = "publish" /\ snap[w].status # "DONE"}

(* How many items may still arrive before item i is lost.                   *)
Room(c, i) == Capacity - Len(inbox[c]) + i - 1

Delivered(c) ==
  \E i \in 1 .. Len(inbox[c]) :
     inbox[c][i].status = "DONE" /\ Cardinality(Late(topic[c])) <= Room(c, i)

OnItsWay(c) ==
  client[c] \in {"got", "streaming"} /\ status[topic[c]] = "DONE" =>
     \/ client[c] = "got" /\ shown[c].status = "DONE"
     \/ Delivered(c)
     \/ Outstanding(topic[c])

(* A row in flight has a worker, if the process runs: what the sweeper      *)
(* takes away from it, it will still get and publish.                       *)
InFlightIsHeld ==
  up => \A s \in Ids :
     status[s] \in InFlight =>
       \E w \in Workers : Owns(w, s) /\ pc[w] \in {"start", "judge", "hung", "drain", "record"}

ChannelsOpen == \A c \in Clients : Listening(c) => topic[c] \in channels

WInv == InFlightIsHeld /\ ChannelsOpen /\ \A c \in Clients : OnItsWay(c)

Holding == {"start", "judge", "hung", "drain", "record"}

(* A row stays held while its holder stays at work.                         *)
LEMMA StillHeld ==
  ASSUME InFlightIsHeld, up' => up,
         \A s \in Ids : status'[s] \in InFlight => status[s] \in InFlight /\ attempt'[s] = attempt[s],
         \A w \in Workers : pc[w] \in Holding => pc'[w] \in Holding /\ job'[w] = job[w]
  PROVE  InFlightIsHeld'
<1> SUFFICES ASSUME up', NEW s \in Ids, status'[s] \in InFlight
             PROVE  \E w \in Workers : Owns(w, s)' /\ pc'[w] \in Holding
  BY DEF InFlightIsHeld, Holding
<1>1. PICK w \in Workers : Owns(w, s) /\ pc[w] \in Holding
  BY DEF InFlightIsHeld, Holding
<1> QED
  BY <1>1 DEF Owns

(* Claims find a holder for a row, and only the write that ends an attempt  *)
(* takes it away.                                                           *)
LEMMA HeldStep ==
  ASSUME Served, LInv, InFlightIsHeld, [Next]_vars
  PROVE  InFlightIsHeld'
<1>a. TypeOK /\ Bookkeeping /\ TableTypeOK
  BY DEF LInv, IInv, TypeOK
<1>b. catalog.version # NULL /\ ~Fault("store")
  BY <1>a DEF Served, TypeOK, Fault
<1>1. CASE CreateSubmission
  <2>1. UNCHANGED local /\ up' = up /\ attempt' = attempt
        /\ \A s \in Ids : status'[s] \in InFlight => status[s] \in InFlight
    BY <1>1, <1>a DEF CreateSubmission, Insert, InFlight, TableTypeOK
  <2> QED
    BY <2>1, StillHeld DEF local
<1>2. ASSUME NEW w \in Workers, Claim(w) PROVE InFlightIsHeld'
  <2>1. PICK t \in Ids : /\ ClaimNext(t)
                         /\ job' = [job EXCEPT ![w] = [id |-> t, attempt |-> attempt[t] + 1]]
    BY <1>2 DEF Claim
  <2>2. [id |-> t, attempt |-> attempt[t] + 1] # NULL
    BY <1>a, NextToken, NullIsNoJob
  <2>3. /\ pc' = [pc EXCEPT ![w] = "start"] /\ pc[w] = "idle" /\ up
        /\ attempt' = [attempt EXCEPT ![t] = @ + 1] /\ status' = [status EXCEPT ![t] = "COMPILING"]
    BY <1>2, <2>1 DEF Claim, Goto, ClaimNext
  <2> SUFFICES ASSUME NEW s \in Ids, status'[s] \in InFlight
               PROVE  \E x \in Workers : Owns(x, s)' /\ pc'[x] \in Holding
    BY DEF InFlightIsHeld, Holding
  <2>4. CASE s = t
    <3>1. Owns(w, s)' /\ pc'[w] = "start"
      BY <2>1, <2>2, <2>3, <2>4, <1>a DEF Owns, TypeOK, TableTypeOK
    <3> QED
      BY <3>1 DEF Holding
  <2>5. CASE s # t
    <3>1. status[s] \in InFlight /\ attempt'[s] = attempt[s]
      BY <2>3, <2>5, <1>a DEF TableTypeOK
    <3>2. PICK x \in Workers : Owns(x, s) /\ pc[x] \in Holding
      BY <3>1, <2>3 DEF InFlightIsHeld, Holding
    <3>3. x # w
      BY <3>2, <2>3 DEF Holding
    <3> QED
      BY <3>1, <3>2, <3>3, <2>1, <2>3, <1>a DEF Owns, TypeOK
  <2> QED
    BY <2>4, <2>5
<1>3. ASSUME NEW w \in Workers, ProblemGone(w) PROVE FALSE
  BY <1>3, <1>b DEF ProblemGone
<1>4. ASSUME NEW w \in Workers,
             \/ Start(w) \/ JudgeNotify(w) \/ JudgeReturn(w) \/ Drained(w) \/ Hang(w)
             \/ HeartbeatGet(w) \/ HeartbeatPublish(w) \/ LastGet(w) \/ LastPublish(w)
      PROVE  InFlightIsHeld'
  <2>1. UNCHANGED table /\ up' = up
    BY <1>4 DEF Start, JudgeNotify, JudgeReturn, Drained, Hang, HeartbeatGet, HeartbeatPublish,
                LastGet, LastPublish
  <2>2. \A x \in Workers : pc[x] \in Holding => pc'[x] \in Holding /\ job'[x] = job[x]
    <3>1. CASE Start(w) \/ JudgeNotify(w) \/ JudgeReturn(w) \/ Drained(w) \/ Hang(w)
      BY <3>1, <1>a DEF Start, JudgeNotify, JudgeReturn, Drained, Hang, Goto, Holding, TypeOK
    <3>2. CASE HeartbeatGet(w) \/ HeartbeatPublish(w)
      BY <3>2 DEF HeartbeatGet, HeartbeatPublish
    <3>3. CASE LastGet(w) \/ LastPublish(w)
      BY <3>3, <1>a DEF LastGet, LastPublish, Return, Goto, Holding, TypeOK
    <3> QED
      BY <1>4, <3>1, <3>2, <3>3
  <2> QED
    BY <2>1, <2>2, StillHeld DEF table
<1>5. ASSUME NEW w \in Workers, Heartbeat(w) PROVE InFlightIsHeld'
  <2>1. up' = up /\ pc' = pc /\ job' = job
    BY <1>5 DEF Heartbeat
  <2>2. \A s \in Ids : status'[s] \in InFlight => status[s] \in InFlight /\ attempt'[s] = attempt[s]
    BY <1>5, <1>a DEF Heartbeat, IfOwner, HoldsLease, Progress, table, TableTypeOK
  <2> QED
    BY <2>1, <2>2, StillHeld
<1>6. ASSUME NEW w \in Workers, Record(w) PROVE InFlightIsHeld'
  <2> DEFINE r == job[w].id
             a == job[w].attempt
  <2>1. /\ pc' = [pc EXCEPT ![w] = "get"] /\ job' = job /\ up' = up /\ pc[w] = "record"
        /\ IF MayWrite(r, a)
           THEN \/ \E e : FailAttempt(r, a, 0, e)
                \/ FailAttempt(r, a, MaxAttempts, "sandbox")
                \/ \E vd, d, v : Finish(r, a, vd, d, v)
           ELSE UNCHANGED table
    BY <1>6, <1>b DEF Record, IfOwner, Goto
  <2>2. r \in Ids /\ a \in Nat
    BY <2>1, BusyHasJob DEF LInv
  <2>3. \A s \in Ids : status'[s] \in InFlight =>
           status[s] \in InFlight /\ attempt'[s] = attempt[s] /\ (s = r => attempt[s] # a)
    <3>1. CASE MayWrite(r, a)
      BY <2>1, <2>2, <3>1, <1>a DEF FailAttempt, Finish, InFlight, TableTypeOK
    <3>2. CASE ~MayWrite(r, a)
      BY <2>1, <3>2 DEF MayWrite, table, InFlight
    <3> QED
      BY <3>1, <3>2
  <2> SUFFICES ASSUME up, NEW s \in Ids, status'[s] \in InFlight
               PROVE  \E x \in Workers : Owns(x, s)' /\ pc'[x] \in Holding
    BY <2>1 DEF InFlightIsHeld, Holding
  <2>4. PICK x \in Workers : Owns(x, s) /\ pc[x] \in Holding
    BY <2>3 DEF InFlightIsHeld, Holding
  <2>5. x # w
    BY <2>3, <2>4 DEF Owns
  <2> QED
    BY <2>1, <2>3, <2>4, <2>5, <1>a DEF Owns, TypeOK
<1>7. CASE SweeperTick
  <2>1. UNCHANGED local /\ up' = up /\ Sweep
    BY <1>7, <1>b DEF SweeperTick
  <2>2. \A s \in Ids : status'[s] \in InFlight => status[s] \in InFlight /\ attempt'[s] = attempt[s]
    BY <2>1 DEF Sweep, InFlight
  <2> QED
    BY <2>1, <2>2, StillHeld DEF local
<1>8. ASSUME NEW s \in Ids, Tick(s) PROVE InFlightIsHeld'
  <2>1. UNCHANGED local /\ up' = up /\ UNCHANGED <<status, attempt>>
    BY <1>8 DEF Tick, LeaseExpires
  <2> QED
    BY <2>1, StillHeld DEF local
<1>9. CASE Crash
  BY <1>9 DEF Crash, ProcessGone, InFlightIsHeld
<1>10. CASE Restart
  <2>1. \A s \in Ids : status'[s] \notin InFlight
    BY <1>10 DEF Restart, RequeueInflight, InFlight
  <2> QED
    BY <2>1 DEF InFlightIsHeld
<1>11. CASE UNCHANGED vars
  BY <1>11, StillHeld DEF vars, local, table
<1> QED
  BY <1>1, <1>2, <1>3, <1>4, <1>5, <1>6, <1>7, <1>8, <1>9, <1>10, <1>11
     DEF Next, WorkerStep, HeartbeatStep

-----------------------------------------------------------------------------
(* A step that adds no late publisher of s and leaves somebody to publish   *)
(* its verdict, if there was somebody or the verdict is new.                *)
KeepsWay(s) ==
  /\ status'[s] = "DONE" /\ (status[s] = "DONE" => Outstanding(s)) => Outstanding(s)'
  /\ status[s] = "DONE" => Late(s)' \subseteq Late(s)

(* Late publishers are workers: finitely many.                              *)
LEMMA LateIsFinite ==
  ASSUME Served, NEW s
  PROVE  /\ IsFiniteSet(Late(s)) /\ Cardinality(Late(s)) \in Nat
         /\ IsFiniteSet(Late(s)') /\ Cardinality(Late(s)') \in Nat
<1>1. Late(s) \in SUBSET Workers /\ Late(s)' \in SUBSET Workers /\ IsFiniteSet(Workers)
  BY DEF Late, Served
<1>2. \A S \in SUBSET Workers : IsFiniteSet(S)
  BY <1>1, FS_Subset
<1> QED
  BY <1>1, <1>2, FS_CardinalityType

(* Fewer late publishers leave as much room.                                *)
LEMMA FewerLate ==
  ASSUME Served, NEW s, Late(s)' \subseteq Late(s)
  PROVE  Cardinality(Late(s)') <= Cardinality(Late(s))
<1>1. IsFiniteSet(Late(s)) /\ Late(s)' \in SUBSET Late(s)
  BY LateIsFinite
<1> QED
  BY <1>1, FS_Subset

(* A client that hears nothing loses nothing.                               *)
LEMMA NothingArrives ==
  ASSUME Served, NEW c \in Clients, OnItsWay(c), KeepsWay(topic[c]), InboxOK(c),
         client'[c] = client[c], topic'[c] = topic[c], inbox'[c] = inbox[c], shown'[c] = shown[c]
  PROVE  OnItsWay(c)'
<1> DEFINE s == topic[c]
<1>1. Outstanding(topic[c])' <=> Outstanding(s)'
  OBVIOUS
<1> SUFFICES ASSUME client[c] \in {"got", "streaming"}, status'[s] = "DONE", ~Outstanding(s)',
                    ~(client[c] = "got" /\ shown[c].status = "DONE")
             PROVE  Delivered(c)'
  BY DEF OnItsWay, Outstanding, Active, HasVerdict
<1>2. status[s] = "DONE" /\ ~Outstanding(s) /\ Late(s)' \subseteq Late(s)
  BY DEF KeepsWay
<1>3. PICK i \in 1 .. Len(inbox[c]) : inbox[c][i].status = "DONE" /\ Cardinality(Late(s)) <= Room(c, i)
  BY <1>2 DEF OnItsWay, Delivered
<1>4. Cardinality(Late(s)') <= Cardinality(Late(s))
  BY <1>2, FewerLate
<1>5. Cardinality(Late(s)) \in Nat /\ Cardinality(Late(s)') \in Nat
  BY LateIsFinite
<1>6. Len(inbox[c]) \in Nat /\ Capacity \in Nat
  BY LenProperties, CapacityIsPositive DEF InboxOK
<1>7. Room(c, i) \in Int /\ Room(c, i)' = Room(c, i)
  BY <1>6 DEF Room
<1>8. Cardinality(Late(s)') <= Room(c, i)
  BY <1>3, <1>4, <1>5, <1>7
<1>9. Late(topic[c])' = Late(s)'
  BY DEF Late
<1> QED
  BY <1>3, <1>7, <1>8, <1>9 DEF Delivered

(* A step of one worker, seen from a submission.                            *)
LEMMA OneWorkerMoves ==
  ASSUME NEW w \in Workers, NEW s,
         \A x \in Workers \ {w} : pc'[x] = pc[x] /\ job'[x] = job[x] /\ snap'[x] = snap[x],
         status'[s] = "DONE" /\ status[s] # "DONE" => Active(w, s)',
         status[s] = "DONE" /\ Active(w, s) => Active(w, s)' \/ HasVerdict(w, s)',
         ~HasVerdict(w, s),
         status[s] = "DONE" => w \notin Late(s)'
  PROVE  KeepsWay(s)
<1>1. \A x \in Workers \ {w} : /\ Active(x, s)' <=> Active(x, s)
                               /\ HasVerdict(x, s)' <=> HasVerdict(x, s)
                               /\ x \in Late(s)' => x \in Late(s)
  BY DEF Active, HasVerdict, Late
<1>2. Late(s)' \subseteq Workers
  BY DEF Late
<1>3. Outstanding(s)' <=> \E x \in Workers : Active(x, s)' \/ HasVerdict(x, s)'
  BY DEF Outstanding
<1> QED
  BY <1>1, <1>2, <1>3 DEF KeepsWay, Outstanding

(* A worker on its way to the last get stays on it; the one that decides a  *)
(* row has it ahead, and what it gets of a finished row is the verdict.     *)
LEMMA WorkersKeepWay ==
  ASSUME Served, LInv, EInv, NEW w \in Workers, NEW s \in Ids,
         \/ /\ \/ Claim(w) \/ ProblemGone(w) \/ Start(w) \/ JudgeNotify(w) \/ JudgeReturn(w)
               \/ Drained(w) \/ Record(w) \/ Heartbeat(w) \/ Hang(w)
            /\ snap' = snap
         \/ LastGet(w) /\ Hold(w, pc'[w] = "publish")
         \/ HeartbeatGet(w) /\ Hold(w, hb'[w] = "publish")
         \/ HeartbeatPublish(w) /\ snap' = [snap EXCEPT ![w] = NULL]
  PROVE  KeepsWay(s)
<1>a. TypeOK /\ Bookkeeping /\ TableTypeOK /\ snap \in [Workers -> Snapshots \cup {NULL}]
  BY DEF LInv, IInv, TypeOK, EInv, HubTypes
<1>b. catalog.version # NULL /\ ~Fault("store")
  BY <1>a DEF Served, TypeOK, Fault
<1> DEFINE Rest == \A x \in Workers \ {w} : pc'[x] = pc[x] /\ job'[x] = job[x] /\ snap'[x] = snap[x]
<1>1. CASE Claim(w) /\ snap' = snap
  <2>1. /\ \A t \in Ids : status'[t] = "DONE" => status[t] = "DONE"
        /\ pc' = [pc EXCEPT ![w] = "start"] /\ pc[w] = "idle" /\ Rest
    BY <1>1, <1>a, ZenonT(60) DEF Claim, ClaimNext, Goto, TypeOK, TableTypeOK
  <2>2. ~Active(w, s) /\ ~HasVerdict(w, s) /\ w \notin Late(s)'
    BY <2>1, <1>a DEF Active, HasVerdict, Late, TypeOK
  <2> QED
    BY <2>1, <2>2, OneWorkerMoves
<1>2. CASE ProblemGone(w)
  BY <1>2, <1>b DEF ProblemGone
<1>3. CASE (Start(w) \/ JudgeNotify(w) \/ JudgeReturn(w) \/ Drained(w) \/ Hang(w)) /\ snap' = snap
  <2>1. /\ status' = status /\ job' = job /\ Rest
        /\ pc[w] \in {"start", "judge", "drain"} /\ pc'[w] \in {"judge", "hung", "drain", "record"}
    BY <1>3, <1>a DEF Start, JudgeNotify, JudgeReturn, Drained, Hang, Goto, table, TypeOK
  <2>2. ~HasVerdict(w, s) /\ w \notin Late(s)' /\ (Active(w, s) => Active(w, s)')
    BY <2>1 DEF Active, HasVerdict, Late
  <2> QED
    BY <2>1, <2>2, OneWorkerMoves
<1>4. CASE \/ Heartbeat(w) /\ snap' = snap
           \/ HeartbeatGet(w) /\ Hold(w, hb'[w] = "publish")
           \/ HeartbeatPublish(w) /\ snap' = [snap EXCEPT ![w] = NULL]
  <2>1. /\ pc' = pc /\ job' = job /\ pc[w] \in {"judge", "hung", "drain"} /\ Rest
    BY <1>4, <1>a DEF Heartbeat, HeartbeatGet, HeartbeatPublish, Hold, Bookkeeping
  <2>2. \A t \in Ids : status'[t] = "DONE" => status[t] = "DONE"
    BY <1>4, <1>a DEF Heartbeat, HeartbeatGet, HeartbeatPublish, IfOwner, HoldsLease, Progress, table, TableTypeOK
  <2>3. ~HasVerdict(w, s) /\ w \notin Late(s)' /\ (Active(w, s) => Active(w, s)')
    BY <2>1 DEF Active, HasVerdict, Late
  <2> QED
    BY <2>1, <2>2, <2>3, OneWorkerMoves
<1>5. CASE Record(w) /\ snap' = snap
  <2>1. pc[w] = "record" /\ pc'[w] = "get" /\ job' = job /\ Rest /\ job[w] # NULL
    BY <1>5, <1>a DEF Record, Goto, TypeOK, Bookkeeping
  <2>2. ~HasVerdict(w, s) /\ w \notin Late(s)' /\ (Active(w, s) => Active(w, s)')
    BY <2>1 DEF Active, HasVerdict, Late
  <2>3. status'[s] # status[s] => job[w].id = s
    <3>1. \/ \E a, max, e : FailAttempt(job[w].id, a, max, e)
          \/ \E a, vd, d, v : Finish(job[w].id, a, vd, d, v)
          \/ UNCHANGED table
      BY <1>5, <1>b DEF Record, IfOwner
    <3> QED
      BY <3>1, <1>a DEF FailAttempt, Finish, table, TableTypeOK
  <2>4. status'[s] # status[s] => Active(w, s)'
    BY <2>1, <2>3 DEF Active
  <2> QED
    BY <2>1, <2>2, <2>4, OneWorkerMoves
<1>6. CASE LastGet(w) /\ Hold(w, pc'[w] = "publish")
  <2>1. /\ pc[w] = "get" /\ pc'[w] = "publish" /\ job' = job /\ job[w] # NULL /\ status' = status
        /\ snap'[w] = Snapshot(job[w].id) /\ Rest
    BY <1>6, <1>a, <1>b DEF LastGet, Return, Goto, Hold, TypeOK, Bookkeeping, table
  <2>2. /\ ~HasVerdict(w, s)
        /\ status[s] = "DONE" => w \notin Late(s)' /\ (Active(w, s) => HasVerdict(w, s)')
    BY <2>1 DEF Active, HasVerdict, Late, Snapshot
  <2> QED
    BY <2>1, <2>2, OneWorkerMoves
<1> QED
  BY <1>1, <1>2, <1>3, <1>4, <1>5, <1>6

(* Requests, the sweeper, restarts and time: what the sweeper gives up was  *)
(* held by a worker.                                                        *)
LEMMA OthersKeepWay ==
  ASSUME Served, LInv, InFlightIsHeld, NEW s \in Ids, snap' = snap,
         CreateSubmission \/ SweeperTick \/ Restart \/ (\E t \in Ids : Tick(t)) \/ UNCHANGED vars
  PROVE  KeepsWay(s)
<1>a. TableTypeOK /\ ~Fault("store")
  BY DEF LInv, IInv, TypeOK, Served, Fault
<1>1. UNCHANGED <<pc, job>>
  BY DEF CreateSubmission, SweeperTick, Restart, Tick, vars, local
<1>2. Late(s)' = Late(s) /\ (Outstanding(s)' <=> Outstanding(s))
  BY <1>1 DEF Late, Outstanding, Active, HasVerdict
<1>3. status'[s] = "DONE" /\ status[s] # "DONE" => Outstanding(s)
  <2>1. CASE SweeperTick
    <3>1. status'[s] = "DONE" /\ status[s] # "DONE" => status[s] \in InFlight /\ up
      BY <2>1, <1>a DEF SweeperTick, Sweep, Expired
    <3> QED
      BY <3>1 DEF InFlightIsHeld, Outstanding, Active, Owns
  <2>2. CASE CreateSubmission \/ Restart \/ (\E t \in Ids : Tick(t)) \/ UNCHANGED vars
    <3>1. status'[s] = "DONE" => status[s] = "DONE"
      BY <2>2, <1>a DEF CreateSubmission, Insert, Restart, RequeueInflight, Tick, LeaseExpires,
                        vars, table, InFlight, TableTypeOK
    <3> QED
      BY <3>1
  <2> QED
    BY <2>1, <2>2
<1> QED
  BY <1>2, <1>3 DEF KeepsWay

(* What is sent arrives, and what is in the inbox has room for one item     *)
(* less.                                                                    *)
LEMMA PushRoom ==
  ASSUME NEW q \in Seq(Snapshots), Len(q) <= Capacity, NEW item \in Snapshots
  PROVE  /\ Len(Push(q, item)) \in 1 .. Capacity /\ Push(q, item)[Len(Push(q, item))] = item
         /\ \A i \in 1 .. Len(q) : Capacity - Len(q) + i - 1 >= 1 =>
               \E j \in 1 .. Len(Push(q, item)) :
                  /\ Push(q, item)[j] = q[i]
                  /\ Capacity - Len(Push(q, item)) + j - 1 = Capacity - Len(q) + i - 1 - 1
<1>1. Len(q) \in Nat /\ Capacity \in Nat /\ Capacity > 0
  BY LenProperties, CapacityIsPositive
<1>2. CASE Len(q) = Capacity
  <2>1. q # <<>>
    BY <1>2, CapacityIsPositive, EmptySeq
  <2>2. /\ Tail(q) \in Seq(Snapshots) /\ Len(Tail(q)) = Len(q) - 1
        /\ \A i \in 1 .. Len(q) - 1 : Tail(q)[i] = q[i + 1]
    BY <2>1, HeadTailProperties
  <2>3. /\ Push(q, item) = Append(Tail(q), item)
        /\ Len(Append(Tail(q), item)) = Len(q)
        /\ \A i \in 1 .. Len(q) - 1 : Append(Tail(q), item)[i] = q[i + 1]
        /\ Append(Tail(q), item)[Len(q)] = item
    BY <2>2, <1>1, <1>2, AppendProperties DEF Push
  <2>4. ASSUME NEW i \in 1 .. Len(q), Capacity - Len(q) + i - 1 >= 1
        PROVE  \E j \in 1 .. Len(q) : /\ Append(Tail(q), item)[j] = q[i]
                                      /\ Capacity - Len(q) + j - 1 = Capacity - Len(q) + i - 1 - 1
    <3>1. i - 1 \in 1 .. Len(q) - 1 /\ (i - 1) + 1 = i /\ i - 1 \in 1 .. Len(q)
      BY <2>4, <1>1, <1>2
    <3>2. Append(Tail(q), item)[i - 1] = q[i]
      BY <3>1, <2>3
    <3>3. Capacity - Len(q) + (i - 1) - 1 = Capacity - Len(q) + i - 1 - 1
      BY <1>1
    <3> QED
      BY <3>1, <3>2, <3>3
  <2>5. Len(q) \in 1 .. Capacity
    BY <1>1, <1>2
  <2> QED
    BY <2>3, <2>4, <2>5
<1>3. CASE Len(q) # Capacity
  <2>1. /\ Push(q, item) = Append(q, item)
        /\ Len(Append(q, item)) = Len(q) + 1
        /\ \A i \in 1 .. Len(q) : Append(q, item)[i] = q[i]
        /\ Append(q, item)[Len(q) + 1] = item
    BY <1>3, AppendProperties DEF Push
  <2>2. Len(q) + 1 \in 1 .. Capacity
    BY <1>1, <1>3
  <2>3. ASSUME NEW i \in 1 .. Len(q)
        PROVE  \E j \in 1 .. Len(q) + 1 :
                  /\ Append(q, item)[j] = q[i]
                  /\ Capacity - (Len(q) + 1) + j - 1 = Capacity - Len(q) + i - 1 - 1
    <3>1. i \in 1 .. Len(q) + 1 /\ Append(q, item)[i] = q[i]
      BY <1>1, <2>1
    <3>2. Capacity - (Len(q) + 1) + i - 1 = Capacity - Len(q) + i - 1 - 1
      BY <1>1
    <3> QED
      BY <3>1, <3>2
  <2> QED
    BY <2>1, <2>2, <2>3
<1> QED
  BY <1>2, <1>3

(* The last publish of a worker delivers the verdict, or one late publisher *)
(* is gone.                                                                 *)
LEMMA LastPublishKeepsWay ==
  ASSUME Served, LInv, EInv, NEW w \in Workers, LastPublish(w), Send(w),
         NEW c \in Clients, OnItsWay(c), ChannelsOpen
  PROVE  OnItsWay(c)'
<1> DEFINE s == topic[c]
           r == job[w].id
           q == inbox[c]
<1>a. /\ TypeOK /\ Bookkeeping /\ Held /\ HubTypes /\ InboxOK(c)
      /\ pc[w] = "publish" /\ job[w] # NULL
  BY DEF LInv, IInv, EInv, LastPublish, Bookkeeping
<1>b. /\ status' = status /\ pc'[w] = "idle" /\ snap[w] \in Snapshots
      /\ \A x \in Workers \ {w} : pc'[x] = pc[x] /\ job'[x] = job[x] /\ snap'[x] = snap[x]
      /\ UNCHANGED <<channels, client, topic, shown>>
  BY <1>a DEF LastPublish, Return, Goto, Send, Publish, table, TypeOK, HubTypes, Held, Publishing, Current
<1>c. ~Active(w, s) /\ w \notin Late(s)'
  BY <1>a, <1>b DEF Active, Late
<1>1. CASE s # r
  <2>1. ~HasVerdict(w, s)
    BY <1>1 DEF HasVerdict
  <2>2. KeepsWay(s)
    BY <1>b, <1>c, <2>1, OneWorkerMoves
  <2>3. inbox'[c] = inbox[c]
    BY <1>1 DEF Send, Publish
  <2> QED
    BY <2>2, <2>3, <1>a, <1>b, NothingArrives
<1>2. CASE s = r
  <2> SUFFICES ASSUME client[c] \in {"got", "streaming"}, status[s] = "DONE",
                      ~(client[c] = "got" /\ shown[c].status = "DONE"), ~Outstanding(s)'
               PROVE  Delivered(c)'
    BY <1>b DEF OnItsWay, Outstanding, Active, HasVerdict
  <2>1. inbox'[c] = Push(q, snap[w])
    BY <1>2 DEF ChannelsOpen, Listening, Send, Publish
  <2> DEFINE p == Push(q, snap[w])
  <2>2. /\ Len(p) \in 1 .. Capacity /\ p[Len(p)] = snap[w]
        /\ \A i \in 1 .. Len(q) : Capacity - Len(q) + i - 1 >= 1 =>
              \E j \in 1 .. Len(p) :
                 p[j] = q[i] /\ Capacity - Len(p) + j - 1 = Capacity - Len(q) + i - 1 - 1
    <3>1. q \in Seq(Snapshots) /\ Len(q) <= Capacity
      BY <1>a DEF InboxOK
    <3> HIDE DEF q
    <3> QED
      BY <3>1, <1>b, PushRoom
  <2>3. Late(s)' = Late(s) \ {w} /\ Late(topic[c])' = Late(s)'
    BY <1>b, <1>c DEF Late
  <2>4. /\ IsFiniteSet(Late(s)) /\ Cardinality(Late(s)) \in Nat /\ Cardinality(Late(s)') \in Nat
        /\ Capacity \in Nat /\ Len(q) \in Nat
    BY <1>a, LateIsFinite, LenProperties, CapacityIsPositive DEF InboxOK
  <2>5. CASE snap[w].status = "DONE"
    <3>1. Cardinality(Late(s)') <= Capacity - 1
      <4>1. Late(s)' \in SUBSET (Workers \ {w}) /\ IsFiniteSet(Workers)
        BY <1>c DEF Late, Served
      <4>2. IsFiniteSet(Workers \ {w}) /\ Cardinality(Workers \ {w}) = Cardinality(Workers) - 1
        BY <4>1, FS_RemoveElement
      <4>3. Cardinality(Late(s)') <= Cardinality(Workers \ {w})
        BY <4>1, <4>2, FS_Subset
      <4>4. Cardinality(Workers) \in Nat /\ Cardinality(Workers) <= Capacity
        BY <4>1, FS_CardinalityType DEF Served
      <4> QED
        BY <2>4, <4>2, <4>3, <4>4
    <3>2. Capacity - Len(p) + Len(p) - 1 = Capacity - 1 /\ Len(p) \in 1 .. Len(p)
      <4> HIDE DEF p
      <4> QED
        BY <2>2, <2>4
    <3>3. /\ inbox'[c][Len(inbox'[c])].status = "DONE" /\ Len(inbox'[c]) \in 1 .. Len(inbox'[c])
          /\ Cardinality(Late(s)') <= Capacity - Len(inbox'[c]) + Len(inbox'[c]) - 1
      BY <2>1, <2>2, <2>5, <3>1, <3>2
    <3> QED
      BY <3>3, <2>3 DEF Delivered, Room
  <2>6. CASE snap[w].status # "DONE"
    <3>1. w \in Late(s)
      BY <1>2, <1>a, <2>6 DEF Late
    <3>2. ~Outstanding(s)
      <4>1. ~HasVerdict(w, s)
        BY <2>6 DEF HasVerdict
      <4> QED
        BY <4>1, <1>b, <1>c DEF Outstanding, Active, HasVerdict
    <3>3. PICK i \in 1 .. Len(q) : q[i].status = "DONE" /\ Cardinality(Late(s)) <= Room(c, i)
      BY <3>2 DEF OnItsWay, Delivered
    <3>4. Cardinality(Late(s)') = Cardinality(Late(s)) - 1 /\ Cardinality(Late(s)) >= 1
      <4>1. Cardinality(Late(s) \ {w}) = Cardinality(Late(s)) - 1
        BY <2>4, <3>1, FS_RemoveElement
      <4> QED
        BY <4>1, <2>3, <2>4
    <3>5. Cardinality(Late(s)) <= Capacity - Len(q) + i - 1
      BY <3>3 DEF Room
    <3>6. Capacity - Len(q) + i - 1 \in Int
      BY <2>4
    <3>7. Capacity - Len(q) + i - 1 >= 1 /\ Cardinality(Late(s)') <= Capacity - Len(q) + i - 1 - 1
      <4> DEFINE now  == Cardinality(Late(s))
                 then == Cardinality(Late(s)')
                 size == Len(q)
      <4>1. now \in Int /\ then \in Int /\ size \in Int /\ i \in Int /\ Capacity \in Int
        BY <2>4
      <4>2. now >= 1 /\ then = now - 1 /\ now <= Capacity - size + i - 1
        BY <3>4, <3>5
      <4> HIDE DEF now, then, size
      <4>3. Capacity - size + i - 1 >= 1 /\ then <= Capacity - size + i - 1 - 1
        BY <4>1, <4>2
      <4> QED
        BY <4>3 DEF now, then, size
    <3>8. PICK j \in 1 .. Len(p) :
             p[j] = q[i] /\ Capacity - Len(p) + j - 1 = Capacity - Len(q) + i - 1 - 1
      BY <2>2, <3>7
    <3>9. /\ j \in 1 .. Len(inbox'[c]) /\ inbox'[c][j].status = "DONE"
          /\ Cardinality(Late(s)') <= Capacity - Len(inbox'[c]) + j - 1
      BY <2>1, <3>3, <3>7, <3>8
    <3> QED
      BY <3>9, <2>3 DEF Delivered, Room
  <2> QED
    BY <2>5, <2>6
<1> QED
  BY <1>1, <1>2

(* A heartbeat's publish is its worker's, whose last get is still to come.  *)
LEMMA HeartbeatKeepsWay ==
  ASSUME Served, LInv, EInv, NEW w \in Workers, HeartbeatPublish(w), Send(w),
         NEW c \in Clients, OnItsWay(c)
  PROVE  OnItsWay(c)'
<1>a. Bookkeeping /\ InboxOK(c) /\ StreamOK(c) /\ snap' = [snap EXCEPT ![w] = NULL]
  BY DEF LInv, IInv, EInv, Send
<1>b. /\ UNCHANGED <<client, topic, shown, pc, job>>
      /\ pc[w] \in {"judge", "hung", "drain"} /\ job[w] # NULL
  BY <1>a DEF HeartbeatPublish, Send, Publish, Bookkeeping
<1>1. CASE topic[c] = job[w].id
  <2>1. Active(w, topic[c])'
    BY <1>1, <1>b DEF Active
  <2> QED
    BY <2>1, <1>b DEF OnItsWay, Outstanding
<1>2. CASE topic[c] # job[w].id
  <2>1. inbox'[c] = inbox[c]
    BY <1>2 DEF Send, Publish
  <2>2. CASE topic[c] \in Ids
    BY <2>1, <2>2, <1>a, <1>b, WorkersKeepWay, NothingArrives
  <2>3. CASE topic[c] \notin Ids
    BY <2>3, <1>a, <1>b DEF OnItsWay, StreamOK
  <2> QED
    BY <2>2, <2>3
<1> QED
  BY <1>1, <1>2

(* Emitting, subscribing and leaving: an item that is emitted closes the    *)
(* stream or makes as much room as it took.                                 *)
LEMMA ClientKeepsWay ==
  ASSUME Served, LInv, EInv, NEW c \in Clients, OnItsWay(c),
         StreamStep(c) \/ Disconnect(c) \/ \E s \in Ids : Subscribe(c, s)
  PROVE  OnItsWay(c)'
<1>a. HubTypes /\ InboxOK(c) /\ StreamOK(c)
  BY DEF EInv
<1>v. /\ UNCHANGED <<status, pc, job, snap>>
  BY DEF StreamStep, ReadCurrent, EmitFirst, EmitNext, Emit, Disconnect, Subscribe, vars, table, local
<1>w. \A s : Late(s)' = Late(s) /\ (Outstanding(s)' <=> Outstanding(s))
  BY <1>v DEF Late, Outstanding, Active, HasVerdict
<1>1. CASE Disconnect(c) \/ \E s \in Ids : Subscribe(c, s)
  BY <1>1, <1>a DEF Disconnect, Subscribe, OnItsWay, HubTypes
<1>2. CASE ReadCurrent(c)
  <2>1. topic' = topic /\ client'[c] \in {"refused", "got"}
    BY <1>2, <1>a DEF ReadCurrent, HubTypes
  <2>2. client'[c] = "got" => shown'[c] = Snapshot(topic[c])
    BY <1>2, <1>a DEF ReadCurrent, HubTypes
  <2> QED
    BY <2>1, <2>2, <1>v DEF OnItsWay, Snapshot
<1>3. CASE EmitFirst(c)
  <2>1. /\ topic' = topic /\ client[c] = "got"
        /\ client'[c] = IF shown[c].status = "DONE" THEN "closed" ELSE "streaming"
        /\ shown[c].status # "DONE" => inbox'[c] = inbox[c]
    BY <1>3, <1>a DEF EmitFirst, Emit, HubTypes
  <2>2. shown[c].status # "DONE" /\ Delivered(c) => Delivered(c)'
    BY <2>1, <1>w DEF Delivered, Room
  <2> QED
    BY <2>1, <2>2, <1>v, <1>w DEF OnItsWay
<1>4. CASE EmitNext(c)
  <2> DEFINE q == inbox[c]
  <2>1. q \in Seq(Snapshots) /\ q # <<>> /\ Len(q) \in Nat \ {0} /\ Capacity \in Nat
    BY <1>4, <1>a, LenProperties, EmptySeq, CapacityIsPositive DEF EmitNext, InboxOK
  <2>2. /\ Head(q) = q[1] /\ Len(Tail(q)) = Len(q) - 1
        /\ \A i \in 1 .. Len(Tail(q)) : Tail(q)[i] = q[i + 1]
    BY <2>1, HeadTailProperties
  <2>3. /\ topic' = topic /\ client[c] = "streaming"
        /\ client'[c] = IF Head(q).status = "DONE" THEN "closed" ELSE "streaming"
        /\ Head(q).status # "DONE" => inbox'[c] = Tail(q)
    BY <1>4, <1>a DEF EmitNext, Emit, HubTypes
  <2>4. Head(q).status # "DONE" /\ Delivered(c) => Delivered(c)'
    <3> SUFFICES ASSUME Head(q).status # "DONE", Delivered(c) PROVE Delivered(c)'
      OBVIOUS
    <3>1. PICK i \in 1 .. Len(q) : q[i].status = "DONE" /\ Cardinality(Late(topic[c])) <= Room(c, i)
      BY DEF Delivered
    <3>2. i # 1 /\ i - 1 \in 1 .. Len(Tail(q)) /\ (i - 1) + 1 = i
      BY <3>1, <2>1, <2>2
    <3>3. Tail(q)[i - 1] = q[i]
      BY <2>2, <3>2
    <3>4. Capacity - Len(Tail(q)) + (i - 1) - 1 = Capacity - Len(q) + i - 1
      <4> DEFINE size == Len(q)
                 rest == Len(Tail(q))
      <4>1. size \in Int /\ rest = size - 1 /\ Capacity \in Int /\ i \in Int
        BY <2>1, <2>2
      <4> HIDE DEF size, rest
      <4>2. Capacity - rest + (i - 1) - 1 = Capacity - size + i - 1
        BY <4>1
      <4> QED
        BY <4>2 DEF size, rest
    <3>5. /\ i - 1 \in 1 .. Len(inbox'[c]) /\ inbox'[c][i - 1].status = "DONE"
          /\ Room(c, i - 1)' = Room(c, i)
      BY <2>3, <3>1, <3>2, <3>3, <3>4 DEF Room
    <3>6. Late(topic[c])' = Late(topic[c])
      BY <2>3, <1>v DEF Late
    <3> QED
      BY <3>1, <3>5, <3>6 DEF Delivered
  <2> QED
    BY <2>3, <2>4, <1>v, <1>w DEF OnItsWay
<1> QED
  BY <1>1, <1>2, <1>3, <1>4 DEF StreamStep

(* Somebody who listens has a channel.                                      *)
LEMMA ChannelsStep ==
  ASSUME EInv, ChannelsOpen, [EventsNext]_evars
  PROVE  ChannelsOpen'
<1>a. HubTypes /\ \A c \in Clients : StreamOK(c)
  BY DEF EInv
<1>1. ASSUME UNCHANGED <<client, topic, channels>> PROVE ChannelsOpen'
  BY <1>1 DEF ChannelsOpen, Listening
<1>2. ASSUME NEW w \in Workers,
             WorkerEvents(w) \/ HeartbeatEvents(w) \/ (Hang(w) /\ UNCHANGED hub)
      PROVE  ChannelsOpen'
  BY <1>1, <1>2 DEF WorkerEvents, HeartbeatEvents, Hold, Send, Publish, hub
<1>3. CASE SweepAndPrune
  BY <1>3 DEF SweepAndPrune, Prune, ChannelsOpen, Listening
<1>4. CASE CrashConnections
  BY <1>4 DEF CrashConnections, ChannelsOpen, Listening
<1>5. CASE (CreateSubmission \/ Restart \/ \E s \in Ids : Tick(s)) /\ UNCHANGED hub
  BY <1>1, <1>5 DEF hub
<1>6. ASSUME NEW c \in Clients, StreamStep(c) PROVE ChannelsOpen'
  <2>1. /\ topic' = topic /\ channels' = channels
        /\ \A d \in Clients : Listening(d)' => Listening(d)
    <3>1. CASE ReadCurrent(c)
      BY <3>1, <1>a DEF ReadCurrent, Listening, HubTypes
    <3>2. CASE EmitFirst(c) \/ EmitNext(c)
      BY <3>2, <1>a DEF EmitFirst, EmitNext, Emit, Listening, HubTypes
    <3> QED
      BY <1>6, <3>1, <3>2 DEF StreamStep
  <2> QED
    BY <2>1 DEF ChannelsOpen
<1>7. ASSUME NEW c \in Clients, Disconnect(c) PROVE ChannelsOpen'
  BY <1>7, <1>a DEF Disconnect, ChannelsOpen, Listening, HubTypes
<1>8. ASSUME NEW c \in Clients, NEW s \in Ids, Subscribe(c, s) PROVE ChannelsOpen'
  BY <1>8, <1>a DEF Subscribe, ChannelsOpen, Listening, HubTypes
<1>9. CASE UNCHANGED evars
  BY <1>1, <1>9 DEF evars, hub
<1> QED
  BY <1>2, <1>3, <1>4, <1>5, <1>6, <1>7, <1>8, <1>9 DEF EventsNext

(* The invariant about verdicts on their way is inductive.                  *)
LEMMA OnItsWayStep ==
  ASSUME Served, LInv, EInv, WInv, [EventsNext]_evars
  PROVE  WInv'
<1>n. [Next]_vars
  BY EventsStepIsStep
<1>1. InFlightIsHeld' /\ ChannelsOpen'
  BY <1>n, HeldStep, ChannelsStep DEF WInv
<1> SUFFICES ASSUME NEW c \in Clients PROVE OnItsWay(c)'
  BY <1>1 DEF WInv
<1>a. OnItsWay(c) /\ ChannelsOpen /\ InFlightIsHeld /\ InboxOK(c) /\ StreamOK(c)
  BY DEF WInv, EInv
<1>b. client'[c] = client[c] /\ topic'[c] = topic[c] /\ topic[c] \notin Ids => OnItsWay(c)'
  BY <1>a DEF OnItsWay, StreamOK
<1>q. ASSUME \A s \in Ids : KeepsWay(s), UNCHANGED <<client, topic, inbox, shown>>
      PROVE  OnItsWay(c)'
  <2>1. CASE topic[c] \in Ids
    BY <2>1, <1>a, <1>q, NothingArrives
  <2>2. CASE topic[c] \notin Ids
    BY <2>2, <1>b, <1>q
  <2> QED
    BY <2>1, <2>2
<1>2. ASSUME NEW w \in Workers,
             \/ Claim(w) \/ ProblemGone(w) \/ Start(w) \/ JudgeNotify(w) \/ JudgeReturn(w)
             \/ Drained(w) \/ Record(w) \/ Heartbeat(w) \/ Hang(w),
             UNCHANGED hub
      PROVE  OnItsWay(c)'
  <2>1. \A s \in Ids : KeepsWay(s)
    BY <1>2, WorkersKeepWay DEF hub
  <2> QED
    BY <1>2, <1>q, <2>1 DEF hub
<1>3. ASSUME NEW w \in Workers,
             \/ LastGet(w) /\ Hold(w, pc'[w] = "publish")
             \/ HeartbeatGet(w) /\ Hold(w, hb'[w] = "publish")
      PROVE  OnItsWay(c)'
  <2>1. \A s \in Ids : KeepsWay(s)
    BY <1>3, WorkersKeepWay
  <2> QED
    BY <1>3, <1>q, <2>1 DEF Hold
<1>4. ASSUME NEW w \in Workers, LastPublish(w), Send(w) PROVE OnItsWay(c)'
  BY <1>4, <1>a, LastPublishKeepsWay
<1>5. ASSUME NEW w \in Workers, HeartbeatPublish(w), Send(w) PROVE OnItsWay(c)'
  BY <1>5, <1>a, HeartbeatKeepsWay
<1>6. CASE \/ SweepAndPrune
           \/ (CreateSubmission \/ Restart \/ \E s \in Ids : Tick(s)) /\ UNCHANGED hub
           \/ UNCHANGED evars
  <2>1. /\ UNCHANGED <<snap, client, topic, inbox, shown>>
        /\ CreateSubmission \/ SweeperTick \/ Restart \/ (\E t \in Ids : Tick(t)) \/ UNCHANGED vars
    BY <1>6 DEF SweepAndPrune, Prune, hub, evars
  <2>2. \A s \in Ids : KeepsWay(s)
    BY <2>1, <1>a, OthersKeepWay
  <2> QED
    BY <1>q, <2>1, <2>2
<1>7. CASE CrashConnections
  BY <1>7 DEF CrashConnections, OnItsWay
<1>8. ASSUME NEW d \in Clients, StreamStep(d) \/ Disconnect(d) \/ \E s \in Ids : Subscribe(d, s)
      PROVE  OnItsWay(c)'
  <2>1. CASE d = c
    BY <2>1, <1>8, <1>a, ClientKeepsWay
  <2>2. CASE d # c
    <3>0. HubTypes
      BY DEF EInv
    <3>1. /\ client'[c] = client[c] /\ topic'[c] = topic[c] /\ inbox'[c] = inbox[c] /\ shown'[c] = shown[c]
          /\ UNCHANGED vars /\ snap' = snap
      BY <2>2, <1>8, <3>0 DEF StreamStep, ReadCurrent, EmitFirst, EmitNext, Emit, Disconnect, Subscribe, HubTypes
    <3>2. \A s \in Ids : KeepsWay(s)
      BY <3>1, <1>a, OthersKeepWay
    <3>3. CASE topic[c] \in Ids
      BY <3>1, <3>2, <3>3, <1>a, NothingArrives
    <3>4. CASE topic[c] \notin Ids
      BY <3>1, <3>4, <1>b
    <3> QED
      BY <3>3, <3>4
  <2> QED
    BY <2>1, <2>2
<1> QED
  BY <1>2, <1>3, <1>4, <1>5, <1>6, <1>7, <1>8 DEF EventsNext, WorkerEvents, HeartbeatEvents

(* Once a submission is DONE its verdict is on its way to every stream that *)
(* has not ended, or its worker hangs: if no store call fails, no problem   *)
(* is removed and a channel has room for an item of every worker.           *)
THEOREM VerdictsArrive ==
  ASSUME Served
  PROVE  EventsSpec => []VerdictOnItsWay
<1>1. EventsInit => WInv
  BY DEF EventsInit, Disconnected, Init, TableInit, InFlight, WInv, InFlightIsHeld, ChannelsOpen,
         Listening, OnItsWay
<1>2. LInv /\ EInv /\ WInv /\ [EventsNext]_evars => WInv'
  BY OnItsWayStep
<1>3. LInv /\ EInv /\ WInv => VerdictOnItsWay
  <2> SUFFICES ASSUME LInv, EInv, WInv, NEW c \in Clients,
                      client[c] \in {"got", "streaming"}, status[topic[c]] = "DONE"
               PROVE  \/ client[c] = "got" /\ shown[c].status = "DONE"
                      \/ \E i \in DOMAIN inbox[c] : inbox[c][i].status = "DONE"
                      \/ \E w \in Workers : WillPublish(w, topic[c])
                      \/ \E w \in Workers : pc[w] = "hung" /\ job[w].id = topic[c]
    BY DEF VerdictOnItsWay
  <2>1. catalog.version # NULL
    BY DEF Served, LInv, IInv, TypeOK
  <2>2. DOMAIN inbox[c] = 1 .. Len(inbox[c])
    BY LenProperties DEF EInv, InboxOK
  <2>3. \A w \in Workers : Active(w, topic[c]) \/ HasVerdict(w, topic[c]) =>
           WillPublish(w, topic[c]) \/ (pc[w] = "hung" /\ job[w].id = topic[c])
    BY <2>1 DEF Active, HasVerdict, WillPublish
  <2> QED
    BY <2>2, <2>3 DEF WInv, OnItsWay, Delivered, Outstanding
<1> QED
  BY <1>1, <1>2, <1>3, EventsInvariant, PTL DEF EventsSpec
=============================================================================
