------------------------------- MODULE Store -------------------------------
(***************************************************************************)
(* The submissions table of crates/server/src/store.rs, which doubles as   *)
(* the durable job queue.  Every public method of Store that writes is one *)
(* operator below.  Each runs under the connection mutex, most of them in  *)
(* a transaction, so each is one atomic step.                              *)
(*                                                                         *)
(* One variable per column the properties tell apart.  NULL is SQL's NULL. *)
(* lease_until_ms is kept relative to the clock: NULL, "live" while it is  *)
(* at or after now_ms(), "expired" once it is before.  Left out: columns   *)
(* that no other code of the server reads back into a decision (user_id,   *)
(* time_ms, memory_kb, test_results, judged_at_ms, tests_total, ...).      *)
(***************************************************************************)
EXTENDS Integers

CONSTANTS
  Ids,          \* submission ids, numbered in creation order (UUIDv7)
  Keys,         \* idempotency keys that clients send
  Versions,     \* problem versions (content hashes)
  Tests,        \* number of tests of the problem
  MaxAttempts,  \* ServerConfig::max_attempts
  NULL

ASSUME IdsAreNat == Ids \subseteq Nat
ASSUME TestsIsNat == Tests \in Nat \ {0}
ASSUME MaxAttemptsIsNat == MaxAttempts \in Nat
ASSUME NullIsFresh ==
  NULL \notin Keys \cup Versions \cup Int
              \cup {"AC", "WA", "CE", "IE"} \cup {"live", "expired"}
              \cup {"sandbox", "no problem", "no language", "lease expired"}

VARIABLES
  status,      \* "ABSENT" (no row) or a status of the table
  verdict,
  attempt,     \* the fencing token
  lease,
  tests_done,
  version,     \* problem_version
  error,       \* last infrastructure error
  key          \* idempotency_key

table == <<status, verdict, attempt, lease, tests_done, version, error, key>>

Verdicts == {"AC", "WA", "CE", "IE"}  \* "WA": any verdict of a failing test
InFlight == {"COMPILING", "RUNNING"}
Status   == {"QUEUED", "DONE"} \cup InFlight
Errors   == {"sandbox", "no problem", "no language", "lease expired"}

TableTypeOK ==
  /\ status     \in [Ids -> Status \cup {"ABSENT"}]
  /\ verdict    \in [Ids -> Verdicts \cup {NULL}]
  /\ attempt    \in [Ids -> Nat]
  /\ lease      \in [Ids -> {"live", "expired", NULL}]
  /\ tests_done \in [Ids -> 0 .. Tests]
  /\ version    \in [Ids -> Versions \cup {NULL}]
  /\ error      \in [Ids -> Errors \cup {NULL}]
  /\ key        \in [Ids -> Keys \cup {NULL}]

TableInit ==
  /\ status     = [s \in Ids |-> "ABSENT"]
  /\ verdict    = [s \in Ids |-> NULL]
  /\ attempt    = [s \in Ids |-> 0]
  /\ lease      = [s \in Ids |-> NULL]
  /\ tests_done = [s \in Ids |-> 0]
  /\ version    = [s \in Ids |-> NULL]
  /\ error      = [s \in Ids |-> NULL]
  /\ key        = [s \in Ids |-> NULL]

-----------------------------------------------------------------------------
(* insert: a fresh id, newer than every row, unless the key is taken.  With *)
(* a taken key the original row is returned and the table does not change.  *)
IsNextId(s) == \A t \in Ids : status[t] # "ABSENT" <=> t < s

InsertUnchecked(s, k, v) ==  \* mutant: no look-up of the key
  /\ IsNextId(s)
  /\ status'  = [status EXCEPT ![s] = "QUEUED"]
  /\ version' = [version EXCEPT ![s] = v]
  /\ key'     = [key EXCEPT ![s] = k]
  /\ UNCHANGED <<verdict, attempt, lease, tests_done, error>>

Insert(s, k, v) ==
  /\ IsNextId(s)
  /\ k = NULL \/ \A t \in Ids : key[t] # k
  /\ status'  = [status EXCEPT ![s] = "QUEUED"]
  /\ version' = [version EXCEPT ![s] = v]
  /\ key'     = [key EXCEPT ![s] = k]
  /\ UNCHANGED <<verdict, attempt, lease, tests_done, error>>

IsQueued(s) == status[s] = "QUEUED"  \* mutant: any queued row

(* claim_next: the oldest queued row becomes COMPILING under a new token.   *)
IsOldestQueued(s) ==
  /\ status[s] = "QUEUED"
  /\ \A t \in Ids : status[t] = "QUEUED" => s <= t

ClaimWithOldToken(s) ==  \* mutant: the attempt is not counted
  /\ IsOldestQueued(s)
  /\ status'     = [status EXCEPT ![s] = "COMPILING"]
  /\ lease'      = [lease EXCEPT ![s] = "live"]
  /\ tests_done' = [tests_done EXCEPT ![s] = 0]
  /\ UNCHANGED <<verdict, attempt, version, error, key>>

ClaimNext(s) ==
  /\ IsOldestQueued(s)
  /\ status'     = [status EXCEPT ![s] = "COMPILING"]
  /\ attempt'    = [attempt EXCEPT ![s] = @ + 1]
  /\ lease'      = [lease EXCEPT ![s] = "live"]
  /\ tests_done' = [tests_done EXCEPT ![s] = 0]
  /\ UNCHANGED <<verdict, version, error, key>>

HasToken(s, a)  == attempt[s] = a        \* mutant: no condition on the status
NotDone(s, a)   == status[s] # "DONE"    \* mutant: no fencing

(* The WHERE clauses of progress, and of finish and fail_attempt.           *)
HoldsLease(s, a) == attempt[s] = a /\ status[s] \in InFlight
MayWrite(s, a)   == attempt[s] = a /\ status[s] # "DONE"

(* progress, when it applies: records the status and extends the lease.     *)
Progress(s, a, st, done) ==
  /\ HoldsLease(s, a)
  /\ status'     = [status EXCEPT ![s] = st]
  /\ tests_done' = [tests_done EXCEPT ![s] = done]
  /\ lease'      = [lease EXCEPT ![s] = "live"]
  /\ UNCHANGED <<verdict, attempt, version, error, key>>

(* finish, when it applies: stores the verdict and the version judged.      *)
FinishPartly(s, a, vd, done, v) ==  \* mutant: version and error are left as they were
  /\ MayWrite(s, a)
  /\ status'     = [status EXCEPT ![s] = "DONE"]
  /\ verdict'    = [verdict EXCEPT ![s] = vd]
  /\ tests_done' = [tests_done EXCEPT ![s] = done]
  /\ lease'      = [lease EXCEPT ![s] = NULL]
  /\ UNCHANGED <<attempt, version, error, key>>

Finish(s, a, vd, done, v) ==
  /\ MayWrite(s, a)
  /\ status'     = [status EXCEPT ![s] = "DONE"]
  /\ verdict'    = [verdict EXCEPT ![s] = vd]
  /\ tests_done' = [tests_done EXCEPT ![s] = done]
  /\ version'    = [version EXCEPT ![s] = v]
  /\ lease'      = [lease EXCEPT ![s] = NULL]
  /\ error'      = [error EXCEPT ![s] = NULL]
  /\ UNCHANGED <<attempt, key>>

(* fail_attempt, when it applies: back to the queue, or IE once the caller's *)
(* max attempts are used up (max = 0: at once).                              *)
GivesUpEarly(a, max) == a + 1 >= max  \* mutant
GivesUp(a, max) == a >= max

FailAttempt(s, a, max, e) ==
  /\ MayWrite(s, a)
  /\ status'  = [status EXCEPT ![s] = IF GivesUp(a, max) THEN "DONE" ELSE "QUEUED"]
  /\ verdict' = [verdict EXCEPT ![s] = IF GivesUp(a, max) THEN "IE" ELSE @]
  /\ error'   = [error EXCEPT ![s] = e]
  /\ lease'   = [lease EXCEPT ![s] = NULL]
  /\ UNCHANGED <<attempt, tests_done, version, key>>

(* sweep: one transaction, first the expired rows that have used up their    *)
(* attempts, then the other expired rows.                                    *)
ExpiredRunning(s) == status[s] = "RUNNING" /\ lease[s] = "expired"  \* mutant
Expired(s) == status[s] \in InFlight /\ lease[s] = "expired"

Sweep ==
  /\ status'  = [s \in Ids |-> IF ~Expired(s) THEN status[s]
                               ELSE IF GivesUp(attempt[s], MaxAttempts)
                                    THEN "DONE" ELSE "QUEUED"]
  /\ verdict' = [s \in Ids |-> IF Expired(s) /\ GivesUp(attempt[s], MaxAttempts)
                               THEN "IE" ELSE verdict[s]]
  /\ error'   = [s \in Ids |-> IF Expired(s) /\ GivesUp(attempt[s], MaxAttempts)
                                  /\ error[s] = NULL
                               THEN "lease expired" ELSE error[s]]
  /\ lease'   = [s \in Ids |-> IF Expired(s) THEN NULL ELSE lease[s]]
  /\ UNCHANGED <<attempt, tests_done, version, key>>

(* requeue_inflight: at start-up, whatever the attempt and the lease.        *)
RequeueStatusOnly ==  \* mutant: the lease is not cleared
  /\ status' = [s \in Ids |-> IF status[s] \in InFlight THEN "QUEUED" ELSE status[s]]
  /\ UNCHANGED <<verdict, attempt, lease, tests_done, version, error, key>>

RequeueInflight ==
  /\ status' = [s \in Ids |-> IF status[s] \in InFlight THEN "QUEUED" ELSE status[s]]
  /\ lease'  = [s \in Ids |-> IF status[s] \in InFlight THEN NULL ELSE lease[s]]
  /\ UNCHANGED <<verdict, attempt, tests_done, version, error, key>>

(* now_ms() passes lease_until_ms of one row.                                *)
LeaseExpires(s) ==
  /\ lease[s] = "live"
  /\ lease' = [lease EXCEPT ![s] = "expired"]
  /\ UNCHANGED <<status, verdict, attempt, tests_done, version, error, key>>

-----------------------------------------------------------------------------
(* The table under any client at all: the operations in any order and with   *)
(* any fencing token, issued or not.  What holds here holds whatever the     *)
(* workers do.                                                               *)
TableNext ==
  \/ \E s \in Ids, k \in Keys \cup {NULL}, v \in Versions : Insert(s, k, v)
  \/ \E s \in Ids : ClaimNext(s) \/ LeaseExpires(s)
  \/ \E s \in Ids, a \in Nat, st \in InFlight, d \in 0 .. Tests : Progress(s, a, st, d)
  \/ \E s \in Ids, a \in Nat, vd \in Verdicts, d \in 0 .. Tests, v \in Versions :
        Finish(s, a, vd, d, v)
  \/ \E s \in Ids, a \in Nat, max \in {0, MaxAttempts}, e \in Errors :
        FailAttempt(s, a, max, e)
  \/ Sweep
  \/ RequeueInflight

TableSpec == TableInit /\ [][TableNext]_table

-----------------------------------------------------------------------------
(* A row has a lease exactly while it is in flight.  sweep looks only at     *)
(* lease_until_ms, and NULL compares with nothing: a row in flight without a *)
(* lease would never be recovered.                                           *)
LeaseCoversInFlight == \A s \in Ids : status[s] \in InFlight <=> lease[s] # NULL

(* The idempotency key of a row is its own: a repeated request finds at most *)
(* one original (the UNIQUE constraint on idempotency_key never fires).      *)
KeysAreUnique ==
  \A s, t \in Ids : key[s] # NULL /\ key[s] = key[t] => s = t

RowUnchanged(s) ==
  <<status[s], verdict[s], attempt[s], tests_done[s], version[s], error[s], key[s]>>'
    = <<status[s], verdict[s], attempt[s], tests_done[s], version[s], error[s], key[s]>>

(* What no step may do to a row: change it once DONE, delete it, or issue a  *)
(* fencing token other than the next one.                                    *)
DoneRowsStay     == \A s \in Ids : status[s] = "DONE" => RowUnchanged(s)
TokensAreCounted == \A s \in Ids : attempt'[s] \in {attempt[s], attempt[s] + 1}
=============================================================================
