# Verification of aws2azure-showcases

The repository shows real AWS clients (Airflow, Celery, Fluent Bit, dynein)
running unchanged against Azure emulators through the `aws2azure` proxy. The
proxy, the clients and the emulators are not part of it. Its own code is what
starts each stack and the scripts that decide whether a case study has worked.
These scripts are sequential, but each one runs against a dozen processes that
move at their own pace: a scheduler that backfills, an upload that lags, a queue
whose locks run out, a child process that prompts. The project below models the
scripts together with these, and asks two questions of each: does its PASS mean
what it says, and does it end.

## Inventory

Paths are relative to `src/case-studies/`.

| Component | State it keeps | Operations | Interacts with |
|---|---|---|---|
| `airflow-s3-logging/scripts/verify_e2e_run.py` | position, deadlines, the two logs read last | wait for webserver, unpause, clear runs, trigger, wait for run, compare logs, delete local copy, compare again | Airflow REST API, Azurite through the proxy, `docker compose exec` |
| `airflow-s3-logging/scripts/verify_s3_roundtrip.py` | none but the bucket | head or create, put, list, get, delete | S3 front of the proxy |
| `airflow-s3-logging/differential/` script and DAG | the backend it is at, one summary per backend; containers and database of one compose project | up, wait, trigger, wait, fetch, down; compare; nine S3 tasks in a chain | docker compose, Airflow REST API, LocalStack, Azurite through the proxy |
| `airflow-celery-sqs/scripts/verify_e2e_run.py` | position, deadlines, state of the run | wait for webserver, wait for queue, unpause, trigger, wait for run, read depth | Airflow REST API, SQS front |
| `airflow-celery-sqs/` stack | run and task states, messages with locks and delivery counts | send, receive, execute, acknowledge, lock expiry, dead-lettering | Service Bus emulator |
| `airflow-sns-fanout/` script and DAG | subscription, received message | wait for emulator, trigger, wait, receive, compare | Service Bus emulator (AMQP), Airflow REST API |
| `fluentbit-kinesis/` script and `wait_for_stack.sh` | waiting time; shard iterator, records | staged start with one restart; read all, compare | docker compose, Kinesis front |
| `dynein-dynamodb/` script and bootstrap | position, terminal output, answered | create database; download the binary; create, put, get, query, scan, del, delete table over a pty | dynein child process, Cosmos emulator |
| `airflow-secrets-manager/scripts/` | none but the secret | create or put, describe, get, delete, purge; render config | Secrets Manager front |
| compose files | container states | start when healthy / completed / started | docker compose |
| `.github/workflows/` | none | detect changes, gate the end-to-end job | GitHub Actions |

What makes each hard, and the properties that make it correct, line by line, is
the list `hazards` of `PROJECT.json`. In short:

* S3 logging: the upload happens in the teardown of the task, before or after
  the scheduler marks the run; the webserver silently falls back to the local
  file; the handler swallows upload errors; a backfilled run competes. PASS must
  mean a log served from Azurite, a late upload must not be called a mismatch
  (it can be, in one case, see below), the only copy must not be deleted.
* Celery over SQS: a message is locked, may be delivered again, is acknowledged
  after the execution; a backfilled run shares the queue. PASS must mean that
  the run's tasks went through the queue, a drained queue must not be reported
  as stuck, every message must leave the queue.
* dynein: output arrives in pieces, the child exits between a read and a poll,
  the deadline fires at any moment, a failed run leaves the table, the deletion
  of the table is only started when it is confirmed. No child may survive, a
  printed confirmation must not be missed, PASS must leave a stack on which the
  verification can be repeated, once a deletion still under way has ended.
* Fluent Bit to Kinesis: the emulator may hang and is restarted once, its port
  opens before it serves, Fluent Bit delivers at least once or gives a record
  up, and the records are all alike. The shipper must start on a ready stack,
  and a count must not be made of records read twice.
* Differential: two stacks that are one compose project on one set of ports, an
  `up` outside the `try` whose `finally` tears down, a script that may be
  killed. What is left over must make the next execution fail and never lie:
  PASS must mean that the two stores agree, and nothing may outlive an execution
  that ended in good order.
* The two replays (S3 and secrets): a constant value under a constant name, so
  that what an earlier execution left reads like what this one wrote; requests
  that boto3 repeats after a lost answer; a deletion that leaves the name
  reserved. A value read must be the own one, and an honest proxy must not be
  blamed without a cause that can be named.
* SNS fan-out: all runs publish the same message into one subscription, and a
  run may outlive the execution that triggered it. A published message must not
  be reported missing, and one message must not be evidence for two executions.

## Modules

| Module | Models |
|---|---|
| `Showcase` | the promise of every script: it ends with its last PASS line or without, for good, and with it only after an observation of an effect that had happened |
| `S3Logging` | `airflow-s3-logging`: script, scheduler, task process, upload, webserver, proxy |
| `Counting` | one number for the place of a script in its stages and loops, and lemmas about it; models no code |
| `S3LoggingProofs` | theorems about `S3Logging` |
| `CelerySqs` | `airflow-celery-sqs`: script, scheduler, executor, worker, queue |
| `MCCelerySqs` | the assignment of tasks to runs that TLC checks `CelerySqs` with |
| `CelerySqsProofs` | theorems about `CelerySqs` |
| `Dynein` | `dynein-dynamodb`: bootstrap, download, script, terminal, child process, table, repeated runs |
| `DyneinProofs` | theorems about `Dynein` |
| `FluentKinesis` | `fluentbit-kinesis`: `wait_for_stack.sh` and the script, emulator, proxy, Fluent Bit, stream |
| `FluentKinesisProofs` | theorems about `FluentKinesis` |
| `SnsFanout` | `airflow-sns-fanout`: repeated executions of the script, the DAG's two tasks, topic and subscription |
| `SnsFanoutProofs` | theorems about `SnsFanout` |
| `Differential` | `airflow-s3-logging/differential`: repeated executions of the runner, the compose project, the DAG, the teardown steps |
| `DifferentialProofs` | theorems about `Differential` |
| `Replay` | `verify_s3_roundtrip.py` and `verify_secrets_roundtrip.py`: repeated executions over one backend |
| `ReplayProofs` | theorems about `Replay` |

### How the modules correspond to the code

In every module a script is a program counter `pc` naming the request it is
about to make; one action is one request with the decision that follows it. A
`while time.time() < deadline` loop is a counter of failed probes with a bound
(`Budget`, `Idle`; `Attempts` for a loop over a `range`). Such a loop reads its
clock before each probe, the first time just after setting it, so it may give up
as soon as it has slept once. A loop that reads the clock after the probe may
give up at the first: that is the comparison of the S3 logs, a `while True`
whose two reads alone can use up the timeout. Either way every relation between
a deadline and the events it races is covered, and a loop has to give up when
the bound is reached. A request that can fail takes one of `MaxFaults` faults;
the action `RequestRaises` stands for an exception nothing catches
(`raise_for_status` and the bare boto3 calls). `verdict` is how the process
ended: the last PASS line, the `sys.exit`, the assertion or the exception.

What the source does not decide is chosen at the start of a behaviour and kept
in `env`: in `S3Logging` whether the bucket was provisioned, whether the upload
lands before the run is marked success, whether the proxy loses the end of
bodies, whether the API refuses to delete an executing run; in `CelerySqs`
whether the queue is declared in `Config.json`, whether a lock may run out
before the acknowledgement, and whether the depth reported counts locked
messages (SQS does not, the entity count of Service Bus does).

`S3Logging`. `round` 1 and 2 are the two calls of
`wait_for_azurite_log_containment`, before and after `delete_local_log_copy`.
`api`, `az` and `cmp` are its three steps, in the order of the code: the log as
served, the object, the comparison. A log is its number of lines, so that `in`
is `<=`: only one log is ever compared, and both sides are prefixes of it.
`Served` is Airflow's reader: the object when there is one, else the local file.
`UploadLog` is the swallowed upload. `CompareLogs` is lines 184 to 193 after the
reads: equal logs go on, unequal ones are read again or end the script, also the
first time. `DeleteStray` is one iteration over the
listing taken by `ListRuns`, with the best-effort `except`.

`CelerySqs`. `msg`, `deliveries` and `ti` are the message, its delivery count
and the task instance. `Execute` starts only a task that still waits, as
`airflow tasks run` does; `Acknowledge` comes after the execution (Airflow sets
`task_acks_late`). `LockExpires` returns or dead-letters the message
(`LockDuration`, `MaxDeliveryCount`). `AssertDrained` is the one reading of
`ApproximateNumberOfMessages`; the pause of five seconds before it is no state.
`passes` counts the PASS lines: the first is printed before the depth is read
(line 122) and the script may still fail after it, so it is no outcome. What the
first line says holds from then on (`PassIsConsumed`); the outcome that
`Showcase` speaks of is the second line, which comes with the exit status 0.

`Dynein`. `SelectAndRead`, `SelectNothing`, `PollChild`, `Deadline` and
`WaitChild` are the loop of `delete_table_via_pty` and what follows it: select
and read are one action, the poll is another, so the child can move between
them. The prompt is written in two pieces. `RunDy(op)` is one `dy` command with
the assertion on its output, with `Works` and `Leaves` the table it needs and
the table it leaves. `RunAgain` runs the script again on the same stack.
`DyDeletes` is the DeleteTable that the child sends, `DyConfirms` the text "has
been started" it prints then. The script waits for that text and never looks at
the table again, and DeleteTable is asynchronous by contract. Nothing in the
repository says whether the proxy answers before or after the container is gone,
so both are setups: with `synchronous` the table is gone when the request is
answered, without it the table is `deleting` until `DeletionEnds`, at any later
time. The loop's breaks at lines 127 and 130 do not kill the child, and the
`proc.wait(timeout=5)` after them would raise for one that stays; the model
keeps the terminal open until the child exits, so there that wait is short.
`DownloadDynein` is `download_dynein`: a file that is there is believed
whatever is in it, an unsupported platform exits, and a download or an unpacking
that fails leaves no file, or the beginning of one (`binary`).

`FluentKinesis`. The shell script and the Python script are one program counter:
CI runs one after the other. The waits of the shell count their sleeps, so they
give up only when the bound is reached; those of Python look at the clock.
`RestartEmulator` acts on whatever state the emulator is in. `env.prompt` says
that the fixed warm-up delay is long enough. `PutRecord(r)` is one attempt of
Fluent Bit for one record: stored and acknowledged, stored with the answer lost,
or refused; the last attempt drops it. `iterator` is a place in the stream, and
a response holds any number of the records that follow it. Records are told
apart only by the properties, never by the script.

`SnsFanout`. `turn` counts the executions on one stack; execution `k` triggers
run `k`. `ready` and `locked` count the messages of each run in the
subscription, `stored` those that ever got there. `Receive` takes any of them.
`Publish` may store the message twice when the client retries, or store it and
fail. The few executions stay below the delivery count at which Service Bus
would dead-letter a message, so that is left out.

`Differential`. `turn` counts the executions on one host. `running`, `conn` and
the dag run belong to the compose project, which both compose files share:
`StartStore`, `AddConnection` and `StartAirflow` are the three stages that
`docker compose up --build -d` reaches in the order of `depends_on`. An
execution ends in two ways: `Leave` goes through the `finally` (everything
inside the `try`), `Quit` does not (a failing `up`, which stands before it, and
a failing `down`). `Killed` is the end without any handler. `SafetyNet` is the
workflow's teardown step, which may or may not run between two executions.
`TaskSucceeds` is the next of the nine tasks of the chain; the seventh writes
the summary. A summary is the store it was made from, and `env.diverges` says
whether the two stores would give different ones.

`Replay`. `env.service` is which of the two scripts is executed. `item` is what
the constant name stands for: nothing, a soft-deleted name, a value of somebody
else, or the scripts' value; `others` says that somebody else's objects lie
under the prefix that the S3 script lists. `Init` leaves both open (a secret may
be soft-deleted by somebody else); during the executions nobody else writes.
`Effect` is what the request at hand does at the backend, `AnswerLost` the same
effect without the answer, after which boto3 sends the request again or gives up
(`RequestRaises`). `env.honest` says that what is acknowledged is done (a proxy
that is not honest loses or changes what is written and skips deletions; what it
lists and returns is always what the backend holds), `idempotent` that a
repeated request is answered like the first, `deletion` what the service does on
a forced deletion, and `recovers` that a soft-deleted name can be created again.
`stored` and `read` are looked at by the properties, `repeated` (the executions
in which an answer was lost) by them and by the answer to a repeated creation.

## Runs

| Run | Bounds | Shows |
|---|---|---|
| `S3Logging` | 1 own, 1 backfilled, 1 earlier run; log of 2 lines; 2 probes; 1 fault; all 16 setups | `TypeOK`, `PassIsRemote`, `NoSpuriousMismatch`, `OnlyRealFailures`, `DeletesNothingNeeded`, refinement of `Showcase`, `VerdictReached` |
| `S3Logging_lag` | the same | violation: a read before the upload ends the script |
| `CelerySqs` | 1 own, 1 backfilled task; 2 deliveries; 2 probes; 1 fault; all 8 setups | `TypeOK`, `PassIsConsumed`, `NeverFalselyStuck`, refinement of `Showcase`, `VerdictReached`, `QueueDrains` |
| `CelerySqs_queue` | the same | violation: the queue resolves before any client has connected |
| `CelerySqs_catchup` | the same | violation: a backfilled run's message fails the assertion |
| `Dynein` | 3 attempts, 2 empty selects, 2 faults, 3 runs on one stack; deletion that ends before its answer or after | `TypeOK`, `PassLeavesNothing`, `NoOrphan`, `ConfirmationNotLost`, `BrokenBeforeUse`, `EveryRunEnds` |
| `Dynein_prompt` | no fault, 1 run | violation: a split prompt is never answered |
| `FluentKinesis` | 3 samples, 2 attempts each, 2 probes, 2 faults; all 16 setups | `TypeOK`, `StartsBehindOpenPort`, `NoStartupDrop`, `PassIsComplete`, `NoOvercount`, refinement of `Showcase`, `VerdictReached` |
| `FluentKinesis_all` | the same with 1 fault | violation: a duplicate stands in for a missing record |
| `SnsFanout` | 3 executions, 2 probes, 2 faults; all 4 setups | `TypeOK`, `NeverFalselyMissing`, `NoEvidenceTwice`, `OwnAfterCleanTurns`, `EveryTurnEnds` |
| `Differential` | 3 executions, 2 probes, 2 faults or kills; stores that agree and that differ | `TypeOK`, `VerdictIsHonest`, `SummaryOfWholeRun`, `TornDown`, `EveryExecutionEnds` |
| `Replay` | 3 executions, 3 faults or lost answers; all setups of both services | `TypeOK`, `EvidenceIsOwn`, `NoFalseAlarm`, refinement of `Showcase` |

Why the bounds are enough. Two lines make a log partial, complete, or cut short;
two probes make a wait succeed at once, succeed after a retry, or give up with a
retry behind it; nothing distinguishes a third. One fault hits every request
once, and every script ends or retries at the first. One backfilled run is
listed, or comes after the listing; two would only repeat it. Two deliveries
make a message redelivered and dead-lettered. Three runs of `Dynein` make a
failed run, a run on its leftovers, and a run after a pass. Three samples with
two attempts and two faults let one record be stored twice while another is
given up, or a record be dropped by faults alone. Three executions of
`SnsFanout` make one that leaves a message, one that takes the wrong one, and
one after both. Three executions of `Differential` with two faults make one that
is killed, one that fails on what it left and leaves more, and one after both,
with the safety net before any of them. Three executions of `Replay` make one
that leaves a name half-deleted, one that meets it, and one after that; three
faults give each a lost answer. With somebody else's objects or soft-deleted
name found at the start, every cause that `NoFalseAlarm` lists occurs: without
any one of them TLC finds the property violated. The theorems hold for every
value of these constants.

### Fairness

Every script is a running process: `WF` of its actions. Nothing is assumed of
Airflow, dynein, docker compose's leftovers or the emulators for
`VerdictReached`, `EveryRunEnds`, `EveryTurnEnds` and `EveryExecutionEnds`,
since every wait has a deadline and every list is finite. `Replay` states no
liveness: its scripts are sequences of requests without a loop. `QueueDrains`
also assumes the Celery worker to be running: it connects, receives what is
ready, executes, ends and acknowledges. It assumes nothing of the locks: when
they always run out, `MaxDeliveryCount` is what ends it. `FluentKinesis` assumes
that an emulator whose port is open gets ready to serve, because the warm-up
delay of the setup `prompt` is defined by it; whether the port ever opens, the
proxy comes up or Fluent Bit ships anything is left open.

## What the runs found

* **`S3Logging_lag`.** `wait_for_azurite_log_containment` says that retrying
  tolerates a read that races the upload. What is retried is a comparison; a
  missing object makes `get_object` raise `NoSuchKey`, which nothing catches.
  The property asks for a stack with its bucket, so the lag is all that goes
  wrong. The comparison has a second gap of the same kind: an upload that lands
  between the two reads of the first comparison makes it unequal, and when the
  reads have used up the timeout the script asserts at once, with nothing
  retried. `NoSpuriousMismatch` says that this is the only mismatch an honest
  proxy can be charged with.
* **`CelerySqs_queue`.** The docstring says that `GetQueueUrl` succeeds only
  once kombu has connected. The queue is declared in `Config.json`, so it
  succeeds when the emulator is up.
* **`CelerySqs_catchup`.** The S3 script clears the runs that unpausing
  `example_bash_operator` backfills; the Celery script triggers the same DAG and
  does not, and asserts the depth of a queue it shares with them. In the run the
  script has by then printed its first PASS line.
* **`Dynein_prompt`.** The prompt is looked for in the last chunk, not in the
  output, so a prompt that arrives in two reads is never answered.
* **`FluentKinesis_all`.** The PASS line says that all records were read back.
  The script counts records that are all alike; Fluent Bit sends a record again
  when an answer is lost, so a record that was stored twice stands in for one
  that was given up. Without lost answers the count is sound (`PassIsComplete`,
  proved).

Limits of the oracles, seen while modelling, that are no run of their own:
comparing two reads through the same proxy, the S3 script cannot see a log that
was cut short when it was stored; the listing of `clear_catchup_dag_runs` is one
request, and a run backfilled after it stays; the depth the Celery script reads
does not count a message that is locked and not yet acknowledged; after dynein's
PASS the table may still be on its way out, and a run started at once may fail
to create it; the SNS script takes whatever message comes first, which after an
execution that failed half-way may be that execution's (`OwnAfterCleanTurns`
says when it is its own). A download of dynein that was cut off leaves a file
that every later run believes, and reports as a proxy that is not reachable
(`BrokenBeforeUse` bounds the damage). The replays write a constant: after an
execution that failed, the value it left can stand in for a write that was lost
(`EvidenceIsOwn` says when it cannot). The secrets script reads `AccessDenied`
as a purge that was denied, though the README grants only get, list and set,
under which the deletion itself is denied and the next step fails; it also
overwrites and purges a secret that was there before; and after a PASS with a
denied purge the name is still reserved when the script is executed again. The
S3 replay fails on any object under its prefix, its own being gone or not, and
takes every refusal of HeadBucket for a missing bucket, so that it may create
one that exists (`NoFalseAlarm` lists these as the only causes of a failure over
an honest proxy). An `up` of the differential runner that fails leaves its
containers to the next execution, which then fails too (the second part of
`TornDown`), unless the safety net runs.

## Proofs

`tlapm` checks, for every value of the constants that satisfies the assumptions
of the modules (finite sets of runs and tasks, a run with at least one task, at
least one probe per wait, distinct runs):

* `S3LoggingProofs`: `Spec => []TypeOK`, `[]PassIsRemote`,
  `DeletesNothingNeeded`, `KeepsPromise` (refinement of `Showcase`),
  `[]NoSpuriousMismatch`, `[]OnlyRealFailures` and `ScriptIsBounded`.
* `CelerySqsProofs`: `Spec => []TypeOK`, `[]PassIsConsumed`,
  `[]NeverFalselyStuck`, `KeepsPromise`, `ScriptIsBounded` and
  `NoMessageCirculates`.
* `DyneinProofs`: `Spec => []TypeOK`, `[]PassLeavesNothing`, `[]NoOrphan`,
  `[]ConfirmationNotLost`, `[]BrokenBeforeUse` and `RunsAreBounded`.
* `FluentKinesisProofs`: `Spec => []TypeOK`, `[]StartsBehindOpenPort`,
  `[]NoStartupDrop`, `[]PassIsComplete`, `[]NoOvercount`, `KeepsPromise` and
  `ScriptIsBounded`.
* `SnsFanoutProofs`: `Spec => []TypeOK`, `[]NeverFalselyMissing`,
  `[]NoEvidenceTwice`, `[]OwnAfterCleanTurns`, `TurnsAreBounded`, and the
  refinement of `Showcase` by each execution (`PromisesKept`).
* `DifferentialProofs`: `Spec => []TypeOK`, `[]VerdictIsHonest`,
  `[]SummaryOfWholeRun`, `[]TornDown` and `ExecutionsAreBounded`.
* `ReplayProofs`: `Spec => []TypeOK`, `[]EvidenceIsOwn`, `NoFalseAlarm` (an
  action property) and `KeepsPromise`.

Argument for the bounds. A liveness property of a script is the conclusion of
two facts: that it can go on until it has a verdict, and that it cannot go on
for ever. The second is proved. `Stage` counts the stages ahead, `Within` the
steps the present one can still take, and `Remaining` makes one number of the
two (`Counting`). Each of the `...Bounded` theorems says three things:
`Remaining` lies between 0 and `MostSteps`, a term in the constants alone; it is
0 exactly when there is a verdict; and every step of the script lowers it while
no step of anything else raises it, a new execution apart. The wait loops are
paid for by their deadlines. Two are not that simple. The loop that clears runs
in `S3Logging` goes over a listing, so its places are counted by the strays that
are left, a finite set. The loop over dynein's terminal also takes a step for
every piece of output, which its count of empty selects does not pay for: the
pieces that are unread and those the child has still to write do (`Tally`), and
what the child writes is moved from the second to the first.
`NoMessageCirculates` does the same for a message: deliveries left, and its
place within one, bound its moves by `2 * MaxDeliveryCount + 2`, however the
locks run out. The first fact, that a script that has no verdict is able to take
a step, is `ENABLED` and with the fairness stays with TLC (`VerdictReached` and
the like).

Argument for `S3Logging`. `PassIsRemote` alone is not inductive: it needs to
know how the script came to its last comparison. `Evidence` records it: the
object was fetched, so it exists, from the first comparison on, and it is never
removed; the second round starts without the local copy, so what is served in it
is remote. It also says that the own run is absent until it is triggered, and is
never among the strays: the one listing is taken before, from runs that are
there, so that no later deletion, however stale the listing has become, can hit
it (`DeletesNothingNeeded`). `IInv == TypeOK /\ Evidence` is preserved by one
step per action; `AirflowStep` says once for all what the environment cannot do
(move the script, remove the object, restore the local copy).
`NoSpuriousMismatch` needs a second invariant, `Agreement`, for proxies that
keep bodies whole: the own run executes once, so the object is written once and
never empty; a log served from it equals it; and from the second comparison on
the log is served from it, so only the first comparison can differ, when the log
was served from the local file just before the upload. It is retried unless the
clock has run out by then, which is the one mismatch that `NoSpuriousMismatch`
admits. `OnlyRealFailures` adds `Calm`: a run that has succeeded has uploaded
before, so the object is there whenever the script fetches it; that faults only
ever get fewer is what lets a state without a fault say something of its past.

Argument for `CelerySqs`. `Chain` follows a task backwards: a successful run has
only successful tasks, a task that has started was delivered, a message that
waits has a delivery left (which bounds the count), and what `wait_for_dag_run`
has returned is still true at the first PASS line, when the depth is read, and
after the second; the number of PASS lines goes with the place of the script.
`Drained`, for a setup that keeps locks and a stack without another run, says
that only tasks of the own run have messages and that none of a started task
waits; when the run has succeeded the messages that count are the empty set.

Argument for `Dynein`. `Staged` ties the child to the place of the script:
before the spawn there is none, in the loop it has not been killed, after the
loop it has exited. `Said` ties what was written and read to what the child has
done: a child that has exited with success has written its confirmation, and it
is either read or still in the terminal; the loop is left by the exit only after
a last read, so the terminal is empty then. `Clean` is the table: once the child
has sent DeleteTable it is gone or on its way out, and only a later create
brings one back; `Unused` is the binary. The lemmas on texts say that a piece
that occurs is found by the search, whatever surrounds it.

Argument for `FluentKinesis`. The invariant has four parts. `Staged` is what the
shell script has established at each of its commands; that an open port stays
open is what makes it last. `Charged` is the account of attempts: on a ready
stack each failed attempt has used up a fault. `Collected` says that what the
script holds is the part of the stream before its iterator. `StoredOnce` says
that without lost answers a stored record is acknowledged and stands in the
stream once. `PassIsComplete` then is the pigeonhole principle: as many places
as records and no record in two of them, so every record has a place;
`NoOvercount` is the same principle the other way round. Both use the library's
facts on cardinality.

Argument for `SnsFanout`. The messages are all alike, so the invariant counts
them run by run: those stored and no longer ready were received by some
execution, and an execution that has completed one has taken it away for good
(`Account`). When nothing is ready, every run that has stored a message has thus
given one to an execution; if the own run had too, as many executions would have
received as have not, and the one at hand has received nothing. That is
`NeverFalselyMissing`; the lemma behind it counts the executions by a function
onto the runs. `NoEvidenceTwice` reads the same account for the executions that
have passed, and `Own` is an induction over the executions that the invariant
carries. `Place` and `Sent` say where script, run and publication are.
`PromisesKept` reads `Showcase` once for each execution: while it runs the steps
of its script observe, pass or fail, and those of a later execution do not
concern it.

Argument for `Differential`. A summary belongs to the store the connection
stands for (`OwnSummary`), the connection to the backend at hand from
airflow-init on, because a connection that is left over stops it
(`OwnConnection`), and the results to their own backends (`OwnResults`): that is
`VerdictIsHonest`. `Tidy` describes the host while every execution has ended in
good order; one lemma (`QuitStep`) says once what ending does to all of them.

Argument for `Replay`. `Own`: after executions that have all passed, the value
is there only when the execution at hand has stored it, since a PASS has seen it
gone. `Course` follows an execution over an honest proxy: at each request it
says what the name stands for, also when an answer was lost (only the deletion
may then find nothing). Two lemmas (`GoingStep`, `StoppingStep`) treat going
on and stopping for all requests at once. `NoFalseAlarm` is about the step that
ends an execution: `EndsJustified` goes through the steps that can and reads off
`Course` why each does.

Refinement: initial states map to initial states; a script step observes,
passes, fails or stutters (`ScriptEffects`); an environment step takes the
effect or stutters.

Every safety property of the passing runs is proved. Only model-checked are the
liveness properties, of which the bounds above are the part that does not rest
on fairness, and the five violations.

## Not modelled

* `airflow-secrets-manager/scripts/render_config.sh`: a substitution of four
  variables in a template, executed once by hand. It has no state and no step,
  and nothing it interacts with.
* The triggers of the workflows: each is one boolean condition over a single
  event, so a property would restate it. Their teardown steps are `SafetyNet`
  and `TearDown`. Their health gate greps for `healthy`, which `unhealthy`
  matches too; the scripts wait for what they need once more themselves.
* Intervals and retry counts of the compose health checks: a service is up, or
  not yet, and may never be. The order of the start is modelled where something
  depends on it (`Differential`, `FluentKinesis`).
* Requests that never return. The shell's `curl` has no `--max-time`; a port
  that accepts and then says nothing would hold `wait_for_stack.sh` up for ever.
  A request of the models is answered or fails, so `VerdictReached` of
  `FluentKinesis` is about stacks that do one of the two.
* Iterators that lose their place: a shard iterator of `FluentKinesis` continues
  exactly where the response before it ended, and `NoOvercount` rests on that.
* A proxy that lies about reads or listings (`Replay`): what it returns is what
  the backend holds.
* Whether a start succeeds: the one bucket check of `airflow-init` may come too
  early for Azurite, which fails the start of the S3 stack. The scripts see a
  webserver that never comes and end by its deadline, and that is all the models
  say of it; `S3Logging` starts from every result of that check.
* The asynchronous part of a Key Vault deletion: the vault is purged,
  soft-deleted or untouched at once.
* That no backfilled run is left over: one that comes up after
  `clear_catchup_dag_runs` has listed the runs is in the models and executes
  next to the own run, but no property says that it does not, because nothing in
  the code prevents it. What such a run must not disturb is
  `DeletesNothingNeeded` and `NoSpuriousMismatch`.
* The proxy, the clients and the emulators beyond what the scripts can tell
  apart: they are not part of the repository.
* Static configuration and prose: the fields that matter are constants and
  setups of the modules.
