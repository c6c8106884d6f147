------------------------------ MODULE Durable ------------------------------
(***************************************************************************)
(* Workers on a machine that may lose power, and the answers that          *)
(* create_submission (http.rs) gives to clients.                           *)
(*                                                                         *)
(* SCHEMA (store.rs) sets journal_mode = WAL and synchronous = NORMAL.     *)
(* What that means is taken from SQLite: a commit is atomic and survives   *)
(* the process, but it is on disk only after a later sync of the log, so a *)
(* power failure undoes the commits since some earlier point.              *)
(*                                                                         *)
(* A lost id may be issued again here; in the code it would be a new UUID. *)
(***************************************************************************)
EXTENDS Workers

CONSTANT MaxSyncs  \* bound on the syncs; one can leave any past table on disk

ASSUME MaxSyncsIsNat == MaxSyncs \in Nat

VARIABLES
  disk,       \* the table as a power failure would leave it
  replying,   \* ids whose insert has returned to create_submission
  accepted,   \* ids that some client was sent with a 202
  outages,
  syncs

client == <<replying, accepted>>
dvars  == <<vars, disk, client, outages, syncs>>

Rows == [status |-> status, verdict |-> verdict, attempt |-> attempt, lease |-> lease,
         tests_done |-> tests_done, version |-> version, error |-> error, key |-> key]

DurableInit ==
  /\ Init
  /\ disk = Rows
  /\ replying = {} /\ accepted = {} /\ outages = 0 /\ syncs = 0

-----------------------------------------------------------------------------
(* create_submission calls insert, which makes a row ...                    *)
Create ==
  /\ CreateSubmission
  /\ replying' = replying \cup {s \in Ids : status[s] = "ABSENT" /\ status'[s] # "ABSENT"}
  /\ UNCHANGED <<disk, accepted, outages, syncs>>

(* ... or finds the one that has the idempotency key ...                    *)
Repeat(s) ==
  /\ up /\ catalog.version # NULL /\ catalog.language # NULL
  /\ key[s] # NULL
  /\ replying' = replying \cup {s}
  /\ UNCHANGED <<vars, disk, accepted, outages, syncs>>

IsCreating(s) == up /\ IsNextId(s)  \* mutant: the 202 does not wait for insert
Answerable(s) == s \in replying

(* ... and answers with its id, if the client has not gone away.            *)
Reply(s) ==
  /\ Answerable(s)
  /\ accepted' = accepted \cup {s}
  /\ replying' = replying \ {s}
  /\ UNCHANGED <<vars, disk, outages, syncs>>

(* The log is synced, by a checkpoint or by the operating system.  After    *)
(* the last fault it would make no difference.                              *)
Sync ==
  /\ faults < MaxFaults /\ syncs < MaxSyncs
  /\ disk' = Rows
  /\ syncs' = syncs + 1
  /\ UNCHANGED <<vars, client, outages>>

(* The machine goes down with its process and the commits that were not     *)
(* synced.                                                                  *)
PowerLoss ==
  /\ Fault("power")
  /\ ProcessGone
  /\ status'  = disk.status  /\ verdict' = disk.verdict /\ attempt'    = disk.attempt
  /\ lease'   = disk.lease   /\ version' = disk.version /\ tests_done' = disk.tests_done
  /\ error'   = disk.error   /\ key'     = disk.key
  /\ replying' = {}
  /\ outages'  = outages + 1
  /\ UNCHANGED <<catalog, disk, accepted, syncs>>

(* The process stops: the operating system still has every commit.          *)
Stop ==
  /\ Crash
  /\ replying' = {}
  /\ UNCHANGED <<disk, accepted, outages, syncs>>

ServerNext ==
  \/ \E w \in Workers : WorkerStep(w) \/ HeartbeatStep(w) \/ Hang(w)
  \/ SweeperTick
  \/ \E s \in Ids : Tick(s)
  \/ Restart

DurableNext ==
  \/ ServerNext /\ UNCHANGED <<disk, client, outages, syncs>>
  \/ Create \/ Sync \/ PowerLoss \/ Stop
  \/ \E s \in Ids : Repeat(s) \/ Reply(s)

DurableSpec == DurableInit /\ [][DurableNext]_dvars

-----------------------------------------------------------------------------
(* Persisted before the 202: while the power stays on, every submission     *)
(* that was answered has its row, whatever stops the process.               *)
AcceptedSurvivesCrashes ==
  outages = 0 => \A s \in accepted : status[s] # "ABSENT"

(* A power failure undoes only the newest rows and steps: no row has come   *)
(* less far than the copy on disk, and a verdict on disk is the row's.      *)
DiskIsThePast ==
  \A s \in Ids :
     /\ disk.status[s] # "ABSENT" => status[s] # "ABSENT" /\ disk.key[s] = key[s]
     /\ disk.attempt[s] <= attempt[s]
     /\ disk.status[s] = "DONE" => status[s] = "DONE" /\ disk.verdict[s] = verdict[s]

(* http.rs:194: "Persisted before the 202: from here on the submission      *)
(* cannot be lost."                                                         *)
AcceptedIsKept == \A s \in accepted : status[s] # "ABSENT"
=============================================================================
