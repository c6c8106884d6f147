# codexec in TLA+

codexec judges programs: it takes submissions and ad-hoc runs over HTTP, keeps
submissions in SQLite, runs them in `isolate` sandboxes and streams progress to
clients. This directory holds TLA+ models of it, from the job queue down to the
comparison of outputs, the TLC configurations that check them on small
instances, and TLAPS proofs of nearly all safety properties for instances of
any size.

    tlc -config MCWorkers.cfg MCWorkers        # a run; PROJECT.json lists them all
    tlapm WorkersProofs.tla                    # the proofs about the workers

## The system

| part | code | state | operations |
|---|---|---|---|
| store and queue | `server/src/store.rs` | table `submissions` | insert, claim_next, progress, finish, fail_attempt, sweep, requeue_inflight |
| workers | `server/src/worker.rs` | claimed job, progress channel, heartbeat task per worker | worker_loop, handle_submission, handle_run, fail, fail_permanently |
| sweeper | `server/src/worker.rs` | none | every 5 s: sweep, `RunStore::prune`, `Hub::prune` |
| run lane | `server/src/runs.rs` | queue and records in memory | submit, pop, complete, prune |
| hub and SSE | `server/src/events.rs`, `http.rs` | a broadcast channel per watched submission | subscribe, publish, prune, submission_events |
| HTTP API | `server/src/http.rs` | none | create_submission, create_run, reads |
| judge pipeline | `judge/src/pipeline.rs`, `verdict.rs` | locals of a call | judge, judge_in_box, classify |
| sandbox pool | `judge/src/isolate.rs` | semaphore, free box ids, boxes and meta files on disk | acquire, write_file, exec, release, Drop |
| isolate results | `judge/src/isolate.rs` | none | read_capped, interpret |
| output comparison | `judge/src/compare.rs` | none | lines, tokens, float |
| problems, languages | `judge/src/problem.rs`, `language.rs` | loaded at start-up | Problem::load, ProblemSet::load, from_toml, version |
| command line | `cli/src/main.rs` | counts of one command | judge, check-problem |
| configuration, mock sandbox, scripts | `server/src/config.rs`, `judge/src/mock.rs`, `scripts/` | none | not modelled |

How they interact. Everything runs in one process on tokio. Request handlers
insert rows or runs and wake idle workers through a `Notify`. A worker takes a
run or claims a row. While judging a row, a spawned heartbeat task turns
progress messages into store writes, each of which extends the lease, and
publishes what it reads back. The worker waits for that task, records the
outcome and publishes once more. The sweeper recovers rows whose lease has
expired. At start-up everything in flight is put back into the queue. All
store calls go through one mutex, so a call is atomic and between two calls
anything can happen.

What is hard here: a worker that lost its lease and does not know it; a crash
between any two store calls; store calls that fail and are only logged; a
snapshot that is read, and published after an await; lagging subscribers; lost
wake-ups; two lanes that share the workers; box ids and meta files that are
reused after failures; commits that a power failure takes back; the order in
which the many signs of a failed execution are read; outputs cut at a limit. `PROJECT.json` lists these hazards with their lines and
the properties that guard against them.

What makes each part correct:

* store: at most one holder of a token, DONE is final, rows in flight can be
  recovered, keys are unique;
* workers: a verdict is what the current attempt judged, it agrees with the
  tests recorded beside it, IE is explained, every submission is decided;
* events: a stream shows the verdict and ends;
* lanes: neither lane starves, records agree with the work;
* pool: ids and permits are never lost, a box is fresh, a report is its own;
* pipeline: a verdict follows from what was executed, it is that of the first
  failing test, and of a hidden test clients see at most its stderr;
* problems: a stored version names the tests that were judged;
* check-problem: success means that every labelled solution got its label.

## Modules

| module | what it is |
|---|---|
| `Store` | the table and its operations; `TableSpec` is the table under any client at all, with any token |
| `JudgeCall` | what a caller may rely on in one call of `judge`: order of progress, possible outcomes |
| `Workers` | workers, heartbeats, sweeper, crash and restart over `Store` and `JudgeCall` |
| `Lifecycle` | what the service promises for one submission; abstract |
| `Durable` | `Workers` on a machine that may lose power, with the answers clients get |
| `Events` | hub, subscribers and SSE streams on top of `Workers` |
| `Lanes` | run lane, `worker_loop`'s choice of lane, `Notify` |
| `SandboxPool` | semaphore, box ids, box directories and meta files |
| `Compare` | the comparers, and a reference for them |
| `Isolate` | `read_capped`, `interpret`, and what `exec` makes of them |
| `Problems` | loading of problems and languages, versions, look-up |
| `Judge` | `judge` in detail over these three, called by submissions, runs and the command line |
| `MCWorkers`, `MCDurable`, `MCEvents`, `MCJudge` | values of constants that a `.cfg` cannot spell |
| `WorkersProofs`, `LifecycleProofs` | theorems about `Store` and `Workers`: the table, the workers, the refinement, the order of the queue |
| `DurableProofs`, `EventsProofs`, `LanesProofs`, `PoolProofs`, `JudgeProofs` | theorems about the modules of these names |
| `DataProofs` | lemmas about sequences, sorting, versions, capped reading and output comparison, by induction |

`Workers` is extended by `Events` and `Durable`, and implements `Lifecycle` and
`TableSpec`. `Judge` is checked against `JudgeCall`, on which `Workers` is
built: that is how the pipeline and the server fit together without their
product being explored.

Operators marked `mutant` are faulty variants of the definition that follows
them. They are used by nothing; put in place of that definition they must
break the property named beside them in `PROJECT.json`.

### Store and Workers

One variable per column the properties tell apart: `status`, `verdict`,
`attempt` (the fencing token), `lease`, `tests_done`, `version`, `error`,
`key`. `lease_until_ms` is kept relative to the clock: NULL, "live" or
"expired"; `LeaseExpires` is the clock passing it. A verdict is `AC`, `CE`,
`IE` or `WA`, which stands for the verdict of any failing test. Ids are
numbers in creation order, which is what UUIDv7 and `created_at_ms` give while
the clock does not go back.

A worker's `pc` follows `handle_submission`: `idle`, `start` (claimed, problem
not yet looked up), `judge`, `drain` (`heartbeat.await`), `record`, `get`,
`publish`; `hung` is a sandbox call that never returns. `hb` follows the
heartbeat task. A step is one store call or less. `at` is the last progress
sent, which stands for where `judge_in_box` is; `Outcomes` of `JudgeCall` are
the results `judge` can return there. A test case is nondeterministic: it
passes, fails or ends in an infrastructure error; `Judge` says which.

Faults (`FaultKinds`, at most `MaxFaults`): a crash, which loses all memory; a
worker that hangs for ever; a failing store call, at each place the code
handles one. A failing claim or insert changes nothing. Expired leases are not
faults: time may pass at any moment, so a slow worker is always possible.

`Lifecycle` is implemented through `phase`, `tries`, `result` and `reason`
computed from the row. It fixes what retries, sweeps and restarts may do to a
submission: count a try, decide once, and give up only when `MaxAttempts` are
used up or the submission can never be judged.

### Durable

`disk` is the table as a power failure would leave it: the store uses WAL with
`synchronous = NORMAL`, so a commit survives the process but is on disk only
after a later sync. What SQLite does is external. `Create`, `Repeat` (the
request of a key that has a row) and `Reply` are `create_submission`, which
answers only after `insert` has returned; a crash or a client that goes away
loses the answer. An id lost with its row may be issued again; in the code it
would be a new UUID.

### Events

Publishing is a get and, a step later, a `Hub::publish` of what was read. A
subscriber's `inbox` is what its `Receiver` has still to deliver; sending to a
full one drops the oldest item. A client subscribes, reads the current state,
emits it, and emits what arrives until an item says DONE.

### Lanes

The submission lane is a counter. `Notify` has its permit, and `notify_one`
wakes any waiter. `prefer`, `streak` and the places of `worker_loop` are as in
the code; the pause after a failed attempt comes before its wake-up. A handler
dropped with its connection between insert and `notify_one` wakes nobody. Run
ids are reused after a prune so that the lane runs for ever in a finite model.

### SandboxPool

A call of `judge` takes a permit, then an id, cleans and initialises the box,
writes the source, executes a number of times, releases and drops: first the
id, then the permit. Any isolate call may fail. `disk` and `meta` are
isolate's side. It is assumed that a meta file that is still there after
`remove_file` cannot be read, and that `--init` leaves an existing directory
as it is.

### Judge

A process starts, loads languages and problems from a disk that may differ at
every start, and makes one call of `judge` at a time: calls share nothing but
the pool of boxes. `pc` follows `judge_in_box`. An execution is what isolate
leaves behind, a member of `Compilations` or `Executions`: exit code, meta
file, output in the chunks it was read in, and what kind of text is on stderr
(none, words of the program, or what it was given to read). What becomes of it
is computed by `Isolate` and `Compare` as in the code. The server calls for submissions
(stop at the first failure) and runs (no stop, everything shown; custom input,
samples or empty input), the command line for `judge` and for each file of
`check-problem`. The command line runs only while no server does: both would
use the same box ids, which the code leaves to the operator. `stored` remembers
what the last stored verdict was based on, across restarts; `check.log` is for
the properties only.

A result has the two guards that `judge_in_box` puts on its fields: `shown`
stands for input, expected output and stdout (`ShowsIO`), `stderr` for what is
shown of stderr (`ShowsStderr`: in addition every runtime error, whoever asks).
`MayKnow` says of which tests a client may know the input; the others are
hidden. `HiddenShowsOnlyStderr` bounds what the code shows of a hidden test, and
that bound is wider than the README of the repository has it: see finding 4.

Left out: messages (they name a line, a token, a count or an exit code, no
text), times and the length of excerpts. Numbers compared with tolerance
are unsigned integers and the tolerance a fraction. SHA-256 is taken to be
injective, and contents are shorter than 2^32 bytes. The version hashes a test's
name without its length; see the theorem `VersionsName`.

`Compare` also holds the reference: which bytes of an output matter, byte by
byte, without lines or tokens (`LinesSkeleton`, `Words`). What the code does
with iterators (`split`, `filter`, the chunks that `read` returns) is written as
functions that recur on the length of the data, which is what the proofs can
reason about. The comparer without tolerance is `None`, as in the code, and not
a small tolerance: tokens that are equal as numbers, "0" and "00", are not equal
tokens.

## Runs

| run | bounds | checks |
|---|---|---|
| `workers` | 1 row, 2 tests, 2 workers, 2 attempts, 1 crash, hang or failing store call, 4 catalogs, fairness | fencing, agreement of the row with what was judged, `ImplementsLifecycle`, `EventuallyDone` |
| `durable` | 2 rows, 1 key, 1 worker, 1 attempt, 1 fault of any kind, 1 sync | order of first tries, keys, accepted submissions over crashes, what a power failure leaves |
| `judging` | 12 problem directories, 7 language tables, 15 check-problem commands, 5 compilations, 29 executions | the properties of pipeline, problems and command line; `ImplementsCall` |
| `events` | 1 row, 2 workers, 1 client, capacity 2, 1 crash or hang | no stream is left without its verdict |
| `streams` | 1 row, 2 tests, 1 worker, 1 client, capacity 2, 1 crash, fairness | every stream ends |
| `lanes` | 2 workers, 2 runs, capacity 1, burst 2, backlog 2, fairness | no starvation, records agree with the work |
| `pool` | 3 calls, 2 boxes, 2 executions per box, fairness | pool and box properties |
| `attempts`, `streams_gone`, `lanes_store_down`, `stderr_shown`, `power_loss` | as small as shows it | the findings below |

Why the bounds are enough to be interesting. Rows influence each other only
through the order of claims, so one row with two workers has all the races for
a lease, and two attempts have a first, a retry and a last. Two tests tell the
first from the last. One fault falls at any point, before or after an expiry.
Capacity 2 is exceeded by three progress messages and the verdict. Two runs
and a lane of one fill the lane. Three calls for two boxes always leave one
waiting. `attempt` is bounded because the sweep gives up and crashes are
bounded by `MaxFaults`. One sync leaves any past table on disk, and with one
fault only the last sync before it matters. Two tests with one sample have a
hidden and a shown one, a first and a later failure. The executions have every
status of isolate, memory on both sides of the limit and of nine tenths of it,
and output of at most and of more than the cap, in one chunk and in two, the
second one read when the cap is already reached. Programs say something on
stderr, or repeat their input there, before they succeed, fail or run out of
time. Compilers write less and more than is kept. The problem directories
differ in every condition of `Problem::load`, two of them only in where the
input ends and the expected output begins.

Fairness. `Durable` and `Judge` need none. `Workers`: tasks that can run are polled (tokio), sandbox calls
return unless they hang, which is a fault, the sweeper ticks, time passes, and
a stopped process is started again. Nobody has to submit. `Events` adds that a
stream that can emit does. `Lanes`: weak fairness of each loop, its 500 ms
timeout included; `StoreRecovers` is strong fairness of a claim that does not
fail. `SandboxPool`: weak fairness inside a box, and strong fairness of
getting a permit because tokio's semaphore is first come, first served.

What the runs showed beyond their properties: `VerdictOnItsWay` needs
`Capacity` to be at least the number of workers. With less, stale snapshots of
workers that lost their lease can push DONE out of a lagging inbox. The code
has 64, and as many workers as boxes. `StreamsEnd` does not survive a hang: when
the last attempt hangs, the sweep that gives up publishes nothing, and the
worker that would has not returned. The code knows no timeout around `judge`
(each execution has one), so `streams` has crashes only.

### Findings

1. `attempts`: `requeue_inflight` does not look at the attempts, so with
   restarts a submission is tried more than `max_attempts` times
   (`codexec.toml:10`, `store.rs:8` say otherwise).
2. `streams_gone`: when the problem no longer exists, `handle_submission`
   returns before the last publish, and a waiting event stream never ends
   (`http.rs:247`: "closing after DONE").
3. `lanes_store_down`: while `claim_next` fails, a worker that has served
   `RUN_BURST` runs in a row serves no more (`worker.rs:17`: "neither lane can
   starve the other").
4. `stderr_shown`: stderr is returned for every runtime error, whatever the
   problem says (`pipeline.rs:190`), so the input of a hidden test comes back if
   the program has written it there (`README.md:102`: "The failing test's input
   is returned only if the problem sets `show_failed_input = true`"). What holds
   instead, `HiddenShowsOnlyStderr`, is checked and proved: of the texts of a
   hidden test, clients get at most this one, and only of the first that fails.
5. `power_loss`: with `synchronous = NORMAL` (`store.rs:22`) a submission that
   was answered with 202 can be gone after a power failure (`http.rs:194`:
   "from here on the submission cannot be lost").

A limit of the compiler's output, which `CompileErrorIsEarned` spells out:
`compile_output_bytes` is the output limit of the compiler's execution
(`pipeline.rs:227`, `:147`), so a compiler that succeeds with many warnings gives
CE, although `pipeline.rs:32` speaks only of "Bytes of compiler output kept."

A limit of the version, found when its proof needed to know where a name ends:
`Problem::load` hashes a test's name without its length (`problem.rs:136`). A
test "a" whose input starts with a NUL byte can be hashed from the same bytes as
a test "a1", with suitable contents of both, so the version tells tests apart
(`problem.rs:12`) only if no input starts with NUL. Text inputs do not.

## Proofs

Everything is proved for any sets of rows, keys, versions, workers, clients,
runs and calls, any number of tests, attempts, faults, boxes and executions,
any capacities, any problem directories, commands and executions, from the
ASSUMEs in `Store`, `Workers`, `Durable`, `Events`, `Lanes`, `SandboxPool`,
`Problems` and `Judge`: numbers are numbers, directories are finite and hold
bytes, memory limits and the memory in a meta file are integers, a comparer is
one of the three, and NULL is none of the values. Two theorems, `VerdictsArrive` and
`VersionsName`, have a hypothesis of their own, explained below.

`WorkersProofs` begins with `TableSpec`, where clients may call anything with
any token: types, leases cover exactly the rows in flight, keys are unique, DONE
rows stay, tokens are counted by one.

For the workers it first proves the inductive invariant `IInv`, which is
`TypeOK` and `Bookkeeping`. Types alone are not inductive: that the version
written by `Finish` is a version, and that what is recorded is a verdict,
depends on where the worker is. `Bookkeeping` says that a worker has a job
unless it is idle, that its heartbeat lives while it judges, that its outcome
is one `judge` can return after the progress it sent, and that a stopped
process has no workers at work. `StepCases` then splits a step by what it does
to the table, and `ImplementsTable` makes every behaviour of the workers one of
`TableSpec`, so that the theorems about the table carry over (`LeaseCovers`,
`DoneFinal`). The others go over the same cases: `TokensUnique` (a new token is
larger than all that were issued), `ErrorsExplained`, `VerdictsMatch` (through
`OutcomeTests`: what an outcome says about the tests run),
`LiveLeaseExclusive` (through `WritesOwnRow`) and `VerdictsJudged`.

`ProgressMonotone` needs to know what is in the heartbeat's channel.
`ProgressInv` says that the messages waiting there ascend and end at the
progress last sent, and that a row whose token a worker holds has not come
further than the first of them (`Behind`). A write by another token is
excluded by `TokensUnique`, and `Finish` comes only after the channel has been
drained. `ProgressGrows` is the one fact used about the order of messages.

`LifecycleProofs` proves the refinement: `Spec => ImplementsLifecycle`. Besides
`IInv`, `TokensUnique` and `ErrorsExplained` it needs `Tried`: a row in flight
has been claimed at least once, and a row that does not exist never, so that no
submission is decided untried. There is one lemma per kind of table write
(`ProgressStutters`, `FinishDecides`, `FailureIsLife`, `SweepIsLife`), and
`LifeStep` puts them together.

The same module proves `FirstInFirstOut`. The order of first tries is not
inductive: a claim keeps it because an older row exists, is not queued, and so
is in flight or DONE, and has been tried. `Ordered` adds that DONE rows were
tried and that rows are created in the order of their ids; `Tried` gives the
rows in flight. Only a claim (`ClaimKeepsOrder`) and an insert change anything
here; all other writes fall under `OrderKept`.

`DurableProofs` proves `AcceptedSurvivesCrashes`, `DiskIsThePast` and, through
power failures, `KeysAreUnique`. Every step but `PowerLoss` is one of `Workers`
(`PowerOrNext`) and therefore an operation on the table, which moves rows
forward (`RowsGoForward`). A power failure goes back, so the invariant `DInv`
says the same of the copy on disk (`OnDisk`, an instance of `Store`) as of the
table. It also needs that a row with a key exists, for the answer to a repeated
request. `FirstInFirstOutThroughout` carries `Tried`, `ErrorExplainsIE` and
`Ordered` through power failures the same way: `Sound` states them of columns,
and holds of those of the table and of those on disk (`QInv`).

`EventsProofs` proves `EventsTypeOK`, `ClosedWithVerdict` and
`VerdictOnItsWay`. Hub and clients
only watch, so `EventsSpec` implies `Spec` and the invariants of the workers are
there for free. `EInv` follows a snapshot from the get over the inbox to the
client: it may be out of date at each stage, but not if it says DONE
(`Current`), because DONE rows stay. That a published snapshot is of a row that
exists needs `Tried`. `VerdictsArrive` is proved under `Served`: no store call
fails (a failed get publishes nothing), no problem is removed (finding 2), and
there are no more workers than a channel has places. The last is used in a
count: behind a DONE item in an inbox there can be only items of workers that
had read the row before it was DONE, at most one of each, so DONE is not pushed
out. With two workers and one place TLC finds the counterexample. `WInv` says in
addition that a row in flight belongs to a worker that has still to record it
and that channels of listening clients are open.

`LanesProofs` proves `RecordsMatchWork`, with `RunsInHand`: a worker has a run
exactly while it is in `handle_run`. Without it, `complete` could end a run
that another worker executes.

`PoolProofs` proves all invariants of the pool. `Exclusive` says that the stack
of free ids repeats nothing, shares nothing with the ids held, and together
with them is everything; with `Fresh` and `Own`, what a call does in its box
concerns no other call (`OthersKeep`). `PermitImpliesFreeId` is a count: permits
and busy calls are `Slots`, free ids and holding calls are `Slots`, and a call
with a permit and no id is busy without holding (`Counts`).

`DataProofs` has the lemmas about data that `Judge` needs. The library's
induction theorems take operators and cannot be used, so induction is done over
sets: a set of numbers that has 0 and with n - 1 also n has them all
(`BoundedInduction`, from a least counterexample). From it follow what a
function defined by steps computes (`StepsDefine`), that `Samples` returns
samples, that a finite set of names can be sorted, so that `InOrder`, a CHOOSE,
is what it says (`InOrderSorts`), and where the parts of `FlattenSeq` lie
(`FlattenPlaces`). The second half is the version. `HashedBytes` gives the
place of every byte of a test, `NamesEnd` shows that two tests read from the
same place have names of the same length: the upper half of the first length
is zero and names have no NUL, so the longer name would end within four bytes,
and then zeros of its length would be the first byte of the other input.
`SameTest` and `SamePrefixTests` compare the rest, test by test, and
`VersionIsInjective` is the result.

The last part of `DataProofs` is about output. `ReadCappedIs`: what was read is
cut off exactly when there was more than the cap, and else it is the whole
output, however the pipe was read. `ComparersJudgeRight`: the comparers accept
what `JudgesRight` says, for every two outputs. Everything is followed from the
last byte to the first, where a byte in front changes little: `SplitSteps`,
`SubsequenceSteps` and `TrimEndOfCons` say what. For lines, `RowsHaveInk` ties the
two views: the first normalized line of a rest is empty exactly when no ink
comes before the next LF, and all are exactly when no ink comes at all. So a
byte that the skeleton drops changes no line, and one that it keeps starts a
line or goes in front of one (`LinesSteps`); for tokens and words the same
(`TokensSteps`). Two outputs are then walked through together: `StepsAgree` is
the induction over both lengths, in which a dropped byte is passed over and two
kept bytes are compared. `LinesRight` and `TokensRight` are its two uses. For
`float` only what `JudgesRight` says is proved, not when two numbers are close.

`JudgeProofs` proves the properties of `Judge` from `JInv`, which has three
parts. `CallOK` follows `judge_in_box`: what is known at each `pc`, that
`failed_test` is the name of the first result that is not AC, and that a result
shows its data only to a caller that captures or for this test, and stderr also
for a runtime error (`Shows`). `Serves` says what the server asked for: a
submission to a problem it has loaded, which stops at the first failure, or a
run with samples or the client's own input. `HiddenOutput` needs all of these:
that stderr is shown of one hidden test at most is not due to its guard, but to
submissions stopping there. `Checks` is about check-problem: while
no failure is counted, everything before the current problem and file is as it
should be, and `accepted` stands for an accepted file of this problem.
`JudgeImplementsCall` closes the gap to the workers: what `JudgeCall` allows is
all that `Judge` does. `VersionsName` has an invariant of its own
(`VersionInv`: what is loaded or stored came from some disk) and the hypothesis
`UnambiguousDisks`: names have no NUL, which every file system guarantees, and
no input starts with one, without which it is false, as said above.

`VerdictsEarned` puts the pieces together. `ExecIsOk` is about one execution: the
status is Ok exactly when isolate worked and the program ended well, within its
memory and with all of its output kept (`EndedWell`); `ExecEarns` adds that
`classify` then asks the comparer. `CompileErrorsEarned` uses the same lemma for
the compiler: `CompileInv` remembers that a call that has reached its tests ran
a compiler that ended well first.
`EarnedInv` says where the executions of the results are: at the end of `ran`,
behind the compiler's, one for each, as long as no infrastructure error has
been returned; only such an error comes with a broken execution.

Every invariant and every action property of the passing runs is proved. Only
model-checked is all liveness (`EventuallyDone`, `StreamsEnd`, `RunsAreServed`,
`SubmissionsAreServed`, `EveryoneIsServed`), which is beyond the prover.

## Not modelled

Formatting, logging, the read-only endpoints, parsing of the configuration,
the mock sandbox, scripts and problem data. The argument list for isolate
(`build_run_args`), which only isolate reads. Numbers that no decision reads
(times, `tests_total`). The graceful shutdown, during which workers go on
while connections drain, is a stop at an arbitrary moment.

## Plan

The modules, runs and theorems planned are there. What could come next: decimal
points, signs and exponents in the numbers that `float` compares, with the
rounding of f64, which `Compare` leaves out; and the times of an execution,
should a decision other than isolate's own come to depend on them.
