------------------------------- MODULE Events -------------------------------
(***************************************************************************)
(* Live updates: the Hub (crates/server/src/events.rs) and the SSE handler *)
(* submission_events (http.rs) on top of the workers that publish to them. *)
(*                                                                         *)
(* A publish is a get followed, after an await, by Hub::publish, so what   *)
(* is sent may be out of date by then.  A Receiver sees what is sent while *)
(* it exists and loses the oldest items when it lags more than Capacity    *)
(* behind.                                                                 *)
(***************************************************************************)
EXTENDS Workers

CONSTANTS
  Clients,
  Capacity     \* of a broadcast channel; 64 in the code

ASSUME CapacityIsPositive == Capacity \in Nat \ {0}

VARIABLES
  snap,        \* what a worker or its heartbeat got and has yet to publish
  channels,    \* Hub::channels: the submissions that have a Sender
  client,      \* where a client's request is in submission_events
  topic,       \* the submission it asks for
  inbox,       \* what its Receiver still has to deliver
  shown        \* the last item its stream emitted

hub   == <<snap, channels, client, topic, inbox, shown>>
evars == <<vars, hub>>

Snapshot(s) == [status |-> status[s], verdict |-> verdict[s]]
Snapshots   == [status : Status, verdict : Verdicts \cup {NULL}]

ClientStates == {"away", "subscribed", "got", "streaming", "closed", "refused"}

EventsTypeOK ==
  /\ TypeOK
  /\ snap     \in [Workers -> Snapshots \cup {NULL}]
  /\ channels \subseteq Ids
  /\ client   \in [Clients -> ClientStates]
  /\ topic    \in [Clients -> Ids \cup {NULL}]
  /\ inbox    \in [Clients -> Seq(Snapshots)]
  /\ \A c \in Clients : Len(inbox[c]) <= Capacity
  /\ shown    \in [Clients -> Snapshots \cup {NULL}]

Disconnected ==
  /\ client = [c \in Clients |-> "away"]
  /\ topic  = [c \in Clients |-> NULL]
  /\ inbox  = [c \in Clients |-> <<>>]
  /\ shown  = [c \in Clients |-> NULL]

EventsInit ==
  /\ Init
  /\ snap = [w \in Workers |-> NULL]
  /\ channels = {}
  /\ Disconnected

-----------------------------------------------------------------------------
ReadFirst(c) == client[c] = "streaming"  \* mutant: get first, then subscribe

(* A client holds a Receiver from subscribe until its stream is dropped.    *)
Listening(c) == client[c] \in {"subscribed", "got", "streaming"}

(* Hub::publish: a no-op without a channel.                                 *)
PushUnbounded(q, item) == Append(q, item)  \* mutant
Push(q, item) == Append(IF Len(q) = Capacity THEN Tail(q) ELSE q, item)

Publish(s, item) ==
  /\ inbox' = [c \in Clients |->
                 IF s \in channels /\ Listening(c) /\ topic[c] = s
                 THEN Push(inbox[c], item) ELSE inbox[c]]
  /\ UNCHANGED <<channels, client, topic, shown>>

(* Hub::prune drops the channels nobody listens to.                         *)
Prune ==
  /\ channels' = {s \in channels : \E c \in Clients : Listening(c) /\ topic[c] = s}
  /\ UNCHANGED <<snap, client, topic, inbox, shown>>

-----------------------------------------------------------------------------
(* The steps of the workers and what they do to the hub.                    *)
Hold(w, publishes) ==
  /\ snap' = [snap EXCEPT ![w] = IF publishes THEN Snapshot(job[w].id) ELSE NULL]
  /\ UNCHANGED <<channels, client, topic, inbox, shown>>

Send(w) == Publish(job[w].id, snap[w]) /\ snap' = [snap EXCEPT ![w] = NULL]

WorkerEvents(w) ==
  \/ /\ \/ Claim(w) \/ ProblemGone(w) \/ Start(w) \/ JudgeNotify(w) \/ JudgeReturn(w)
        \/ Drained(w) \/ Record(w)
     /\ UNCHANGED hub
  \/ LastGet(w) /\ Hold(w, pc'[w] = "publish")
  \/ LastPublish(w) /\ Send(w)

HeartbeatEvents(w) ==
  \/ Heartbeat(w) /\ UNCHANGED hub
  \/ HeartbeatGet(w) /\ Hold(w, hb'[w] = "publish")
  \/ HeartbeatPublish(w) /\ Send(w)

(* A tick of the sweeper ends with hub.prune().                             *)
SweepAndPrune == SweeperTick /\ Prune

(* Connections do not survive the process.                                  *)
CrashConnections ==
  /\ Crash
  /\ snap' = [w \in Workers |-> NULL]
  /\ channels' = {}
  /\ client' = [c \in Clients |-> "away"]
  /\ topic'  = [c \in Clients |-> NULL]
  /\ inbox'  = [c \in Clients |-> <<>>]
  /\ shown'  = [c \in Clients |-> NULL]

-----------------------------------------------------------------------------
(* submission_events: subscribe first, for any id at all ...                *)
Subscribe(c, s) ==
  /\ up /\ client[c] = "away"
  /\ channels' = channels \cup {s}
  /\ client'   = [client EXCEPT ![c] = "subscribed"]
  /\ topic'    = [topic EXCEPT ![c] = s]
  /\ UNCHANGED <<vars, snap, inbox, shown>>

(* ... then read the current state, or answer 404 and drop the Receiver.    *)
ReadCurrent(c) ==
  /\ client[c] = "subscribed"
  /\ IF status[topic[c]] = "ABSENT"
     THEN /\ client' = [client EXCEPT ![c] = "refused"]
          /\ inbox'  = [inbox EXCEPT ![c] = <<>>]
          /\ UNCHANGED shown
     ELSE /\ client' = [client EXCEPT ![c] = "got"]
          /\ shown'  = [shown EXCEPT ![c] = Snapshot(topic[c])]
          /\ UNCHANGED inbox
  /\ UNCHANGED <<vars, snap, channels, topic>>

(* The unfold emits an item and ends right after a DONE one.                *)
EmitAndWait(c, item, rest) ==  \* mutant: would end when the item after DONE arrives
  /\ shown'  = [shown EXCEPT ![c] = item]
  /\ client' = [client EXCEPT ![c] = "streaming"]
  /\ inbox'  = [inbox EXCEPT ![c] = rest]
  /\ UNCHANGED <<vars, snap, channels, topic>>

EmitAndEnd(c, item, rest) ==  \* mutant: ends after any item
  /\ shown'  = [shown EXCEPT ![c] = item]
  /\ client' = [client EXCEPT ![c] = "closed"]
  /\ inbox'  = [inbox EXCEPT ![c] = <<>>]
  /\ UNCHANGED <<vars, snap, channels, topic>>

Emit(c, item, rest) ==
  /\ shown'  = [shown EXCEPT ![c] = item]
  /\ client' = [client EXCEPT ![c] = IF item.status = "DONE" THEN "closed" ELSE "streaming"]
  /\ inbox'  = [inbox EXCEPT ![c] = IF item.status = "DONE" THEN <<>> ELSE rest]
  /\ UNCHANGED <<vars, snap, channels, topic>>

EmitFirst(c) == client[c] = "got" /\ Emit(c, shown[c], inbox[c])

EmitNext(c) ==
  /\ client[c] = "streaming" /\ inbox[c] # <<>>
  /\ Emit(c, Head(inbox[c]), Tail(inbox[c]))

(* The client goes away; it may come back.                                  *)
Disconnect(c) ==
  /\ Listening(c) \/ client[c] \in {"closed", "refused"}
  /\ client' = [client EXCEPT ![c] = "away"]
  /\ topic'  = [topic EXCEPT ![c] = NULL]
  /\ inbox'  = [inbox EXCEPT ![c] = <<>>]
  /\ shown'  = [shown EXCEPT ![c] = NULL]
  /\ UNCHANGED <<vars, snap, channels>>

StreamStep(c) == ReadCurrent(c) \/ EmitFirst(c) \/ EmitNext(c)

EventsNext ==
  \/ \E w \in Workers : WorkerEvents(w) \/ HeartbeatEvents(w) \/ (Hang(w) /\ UNCHANGED hub)
  \/ SweepAndPrune
  \/ CrashConnections
  \/ (CreateSubmission \/ Restart \/ \E s \in Ids : Tick(s)) /\ UNCHANGED hub
  \/ \E c \in Clients : StreamStep(c) \/ Disconnect(c) \/ \E s \in Ids : Subscribe(c, s)

EventsSpec == EventsInit /\ [][EventsNext]_evars

(* The fairness of Workers for its own steps; a stream that can emit does.  *)
(* Nobody has to connect or disconnect.                                     *)
EventsFairness ==
  /\ \A w \in Workers : WF_evars(WorkerEvents(w)) /\ WF_evars(HeartbeatEvents(w))
  /\ WF_evars(SweepAndPrune)
  /\ \A s \in Ids : WF_evars(Tick(s) /\ UNCHANGED hub)
  /\ WF_evars(Restart /\ UNCHANGED hub)
  /\ \A c \in Clients : WF_evars(StreamStep(c))

EventsFairSpec == EventsSpec /\ EventsFairness

-----------------------------------------------------------------------------
(* A stream that has ended showed the final verdict of its submission, also *)
(* when stale snapshots of an earlier attempt were published meanwhile.     *)
ClosedWithVerdict ==
  \A c \in Clients :
     client[c] = "closed" => shown[c] = Snapshot(topic[c]) /\ shown[c].status = "DONE"

(* Once a submission is DONE, a stream that has not ended has the verdict   *)
(* in its inbox or as its first item, or a worker still has its last get    *)
(* and publish for that submission ahead, or was to publish but hangs: what *)
(* the sweeper decides for it nobody publishes.  (Streams that have yet to  *)
(* read the current state will read DONE.)                                  *)
WillPublish(w, s) ==
  /\ job[w] # NULL /\ job[w].id = s
  /\ pc[w] # "hung"
  /\ pc[w] = "start" => catalog.version # NULL
  /\ pc[w] = "publish" => snap[w].status = "DONE"

VerdictOnItsWay ==
  \A c \in Clients :
     client[c] \in {"got", "streaming"} /\ status[topic[c]] = "DONE" =>
        \/ client[c] = "got" /\ shown[c].status = "DONE"
        \/ \E i \in DOMAIN inbox[c] : inbox[c][i].status = "DONE"
        \/ \E w \in Workers : WillPublish(w, topic[c])
        \/ \E w \in Workers : pc[w] = "hung" /\ job[w].id = topic[c]

(* http.rs:247: "the current state immediately, then every change, closing  *)
(* after DONE": a stream ends, unless its client leaves or the process      *)
(* stops.                                                                   *)
StreamsEnd == \A c \in Clients : client[c] = "subscribed" ~> ~Listening(c)
=============================================================================
