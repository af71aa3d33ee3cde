----------------------------- MODULE CelerySqs ------------------------------
(***************************************************************************)
(* case-studies/airflow-celery-sqs: the end-to-end verification script     *)
(* running against a CeleryExecutor whose broker is the Service Bus queue  *)
(* `default`, reached through aws2azure's SQS front.                       *)
(*                                                                         *)
(* A task instance is sent as one message, locked while a worker holds it, *)
(* and acknowledged after the task has been executed; a lock that runs out *)
(* makes the message available again until its deliveries are used up.     *)
(* The script sees none of this but the state of its run and the depth of  *)
(* the queue.  It prints a PASS line for each of the two, and may still    *)
(* fail between them.                                                      *)
(***************************************************************************)
EXTENDS Naturals, FiniteSets

CONSTANTS
  Own,               \* the dag run the script triggers
  Catchup,           \* runs the scheduler backfills once the dag is unpaused
  Tasks,             \* task instances of all the runs
  RunOf,             \* the run of a task instance
  Budget,            \* bound: probes that fit before a wait's deadline
  MaxFaults,         \* bound: requests that fail in one behaviour
  MaxDeliveryCount   \* of the queue

Runs == {Own} \union Catchup

TasksOf(r) == {t \in Tasks : RunOf[t] = r}

ASSUME RunsAssumption ==
  /\ Own \notin Catchup
  /\ RunOf \in [Tasks -> Runs]
  /\ IsFiniteSet(Tasks)
  /\ TasksOf(Own) # {}

ASSUME BoundsAssumption ==
  /\ Budget \in Nat \ {0}
  /\ MaxFaults \in Nat
  /\ MaxDeliveryCount \in Nat \ {0}

VARIABLES
  \* the script
  pc,          \* the call it is about to make
  polls,       \* failed probes of the wait it is in
  state,       \* what wait_for_dag_run has returned
  passes,      \* PASS lines it has printed
  verdict,     \* how the script ended: its last line and exit status
  \* Airflow
  webUp, paused, run,
  ti,          \* state of each task instance
  kombu,       \* a Celery client has resolved the queue
  \* the queue
  queue,       \* it exists
  msg,         \* the message of each task instance
  deliveries,  \* how often it was handed out
  faults,      \* requests that may still fail
  env          \* how the stack was set up, fixed for a behaviour

script == << pc, polls, state, passes, verdict >>
airflow == << webUp, paused, run, ti, kombu >>
broker == << queue, msg, deliveries >>
vars == << script, airflow, broker, faults, env >>

Labels == {"web", "queue", "unpause", "post", "dag", "depth", "end"}

Failures ==
  {"exit_webserver", "exit_queue", "exit_run_failed", "exit_run_timeout",
   "assert_depth", "raise_request"}

\* The queue is declared in the emulator's Config.json; a lock may run out
\* before the acknowledgement; the depth reported includes locked messages.
Setups ==
  [declared : BOOLEAN, locksExpire : BOOLEAN, countsLocked : BOOLEAN]

TypeOK ==
  /\ pc \in Labels
  /\ polls \in 0..Budget
  /\ state \in {"none", "success", "failed"}
  /\ passes \in 0..2
  /\ verdict \in {"none", "pass"} \union Failures
  /\ webUp \in BOOLEAN
  /\ paused \in BOOLEAN
  /\ run \in [Runs -> {"absent", "queued", "running", "success", "failed"}]
  /\ ti \in [Tasks -> {"none", "sent", "running", "success", "failed"}]
  /\ kombu \in BOOLEAN
  /\ queue \in BOOLEAN
  /\ msg \in [Tasks -> {"none", "ready", "locked", "acked", "dead"}]
  /\ deliveries \in [Tasks -> 0..MaxDeliveryCount]
  /\ faults \in 0..MaxFaults
  /\ env \in Setups

Init ==
  /\ env \in Setups
  /\ pc = "web"
  /\ polls = 0
  /\ state = "none"
  /\ passes = 0
  /\ verdict = "none"
  /\ webUp \in BOOLEAN
  /\ paused = TRUE
  /\ run = [r \in Runs |-> "absent"]
  /\ ti = [t \in Tasks |-> "none"]
  /\ kombu = FALSE
  /\ queue = env.declared
  /\ msg = [t \in Tasks |-> "none"]
  /\ deliveries = [t \in Tasks |-> 0]
  /\ faults = MaxFaults

-----------------------------------------------------------------------------
(* The script.                                                             *)

GoTo(label) ==
  /\ pc' = label
  /\ polls' = 0
  /\ UNCHANGED verdict

Quit(how) ==
  /\ pc' = "end"
  /\ verdict' = how
  /\ UNCHANGED polls

\* Mutant: a wait that looks at the clock only after it has probed again.
AgainLate ==
  /\ polls <= Budget
  /\ polls' = polls + 1
  /\ UNCHANGED << pc, verdict, env >>

\* One more probe of the same wait, after a sleep.
Again ==
  /\ polls < Budget
  /\ polls' = polls + 1
  /\ UNCHANGED << pc, verdict, env >>

DeadlinePassed == polls > 0

WaitForWebserver ==
  /\ pc = "web"
  /\ \/ webUp /\ polls < Budget /\ GoTo("queue") /\ UNCHANGED faults
     \/ ~webUp /\ Again /\ UNCHANGED faults
     \/ faults > 0 /\ faults' = faults - 1 /\ Again
     \/ DeadlinePassed /\ Quit("exit_webserver") /\ UNCHANGED faults
  /\ UNCHANGED << state, passes, airflow, broker, env >>

\* GetQueueUrl until it answers; any exception is swallowed and retried.
WaitForBrokerQueue ==
  /\ pc = "queue"
  /\ \/ queue /\ polls < Budget /\ GoTo("unpause") /\ UNCHANGED faults
     \/ ~queue /\ Again /\ UNCHANGED faults
     \/ faults > 0 /\ faults' = faults - 1 /\ Again
     \/ DeadlinePassed /\ Quit("exit_queue") /\ UNCHANGED faults
  /\ UNCHANGED << state, passes, airflow, broker, env >>

\* The other requests are bare: when one fails the exception ends the script.
RequestRaises ==
  /\ pc \in {"unpause", "post", "dag", "depth"}
  /\ faults > 0
  /\ faults' = faults - 1
  /\ Quit("raise_request")
  /\ UNCHANGED << state, passes, airflow, broker, env >>

Unpause ==
  /\ pc = "unpause"
  /\ paused' = FALSE
  /\ GoTo("post")
  /\ UNCHANGED << state, passes, webUp, run, ti, kombu, broker, faults, env >>

TriggerRun ==
  /\ pc = "post"
  /\ run' = [run EXCEPT ![Own] = "queued"]
  /\ GoTo("dag")
  /\ UNCHANGED << state, passes, webUp, paused, ti, kombu, broker, faults,
                  env >>

\* Mutant: main goes on whatever state the run has reached.
WaitForDagRunAnyState ==
  /\ pc = "dag"
  /\ \/ /\ polls < Budget
        /\ run[Own] \in {"success", "failed"}
        /\ state' = run[Own]
        /\ passes' = 1
        /\ GoTo("depth")
     \/ /\ run[Own] \notin {"success", "failed"}
        /\ Again
        /\ UNCHANGED << state, passes >>
     \/ /\ DeadlinePassed
        /\ Quit("exit_run_timeout")
        /\ UNCHANGED << state, passes >>
  /\ UNCHANGED << airflow, broker, faults, env >>

\* What main does with the state of a finished run: its first PASS line, or
\* the end.
Report(result) ==
  /\ state' = result
  /\ \/ result = "success" /\ passes' = 1 /\ GoTo("depth")
     \/ result = "failed" /\ UNCHANGED passes /\ Quit("exit_run_failed")

\* Mutant: a run in an unfinished state is polled without looking at the clock.
WaitForDagRunUncounted ==
  /\ pc = "dag"
  /\ \/ run[Own] \in {"success", "failed"} /\ Report(run[Own])
     \/ /\ run[Own] \notin {"success", "failed"}
        /\ UNCHANGED script
  /\ UNCHANGED << airflow, broker, faults, env >>

WaitForDagRun ==
  /\ pc = "dag"
  /\ \/ /\ polls < Budget
        /\ run[Own] \in {"success", "failed"}
        /\ Report(run[Own])
     \/ /\ run[Own] \notin {"success", "failed"}
        /\ Again
        /\ UNCHANGED << state, passes >>
     \/ /\ DeadlinePassed
        /\ Quit("exit_run_timeout")
        /\ UNCHANGED << state, passes >>
  /\ UNCHANGED << airflow, broker, faults, env >>

\* Mutant: the script asks for ApproximateNumberOfMessagesNotVisible.
DepthInFlight == Cardinality({t \in Tasks : msg[t] = "locked"})

\* ApproximateNumberOfMessages, as the front reports it.
Depth ==
  Cardinality({t \in Tasks :
                 msg[t] = "ready" \/ (env.countsLocked /\ msg[t] = "locked")})

\* One reading, after a pause in which anything may have happened, and the
\* second PASS line when nothing is left.
AssertDrained ==
  /\ pc = "depth"
  /\ \/ Depth = 0 /\ passes' = passes + 1 /\ Quit("pass")
     \/ Depth # 0 /\ UNCHANGED passes /\ Quit("assert_depth")
  /\ UNCHANGED << state, airflow, broker, faults, env >>

Script ==
  \/ WaitForWebserver
  \/ WaitForBrokerQueue
  \/ RequestRaises
  \/ Unpause
  \/ TriggerRun
  \/ WaitForDagRun
  \/ AssertDrained

-----------------------------------------------------------------------------
(* Airflow: webserver, scheduler and Celery worker.                        *)

WebserverStarts ==
  /\ ~webUp
  /\ webUp' = TRUE
  /\ UNCHANGED << script, paused, run, ti, kombu, broker, faults, env >>

\* kombu resolves the queue, and creates it when it is missing.
WorkerConnects ==
  /\ ~kombu
  /\ kombu' = TRUE
  /\ queue' = TRUE
  /\ UNCHANGED << script, webUp, paused, run, ti, msg, deliveries, faults,
                  env >>

SchedulerBackfills(r) ==
  /\ ~paused
  /\ r \in Catchup
  /\ run[r] = "absent"
  /\ run' = [run EXCEPT ![r] = "queued"]
  /\ UNCHANGED << script, webUp, paused, ti, kombu, broker, faults, env >>

StartRun(r) ==
  /\ ~paused
  /\ run[r] = "queued"
  /\ run' = [run EXCEPT ![r] = "running"]
  /\ UNCHANGED << script, webUp, paused, ti, kombu, broker, faults, env >>

\* The executor resolves the queue like any Celery client, and sends; a task
\* it cannot send is failed.
SendTask(t) ==
  /\ run[RunOf[t]] = "running"
  /\ ti[t] = "none"
  /\ \/ /\ ti' = [ti EXCEPT ![t] = "sent"]
        /\ msg' = [msg EXCEPT ![t] = "ready"]
        /\ kombu' = TRUE
        /\ queue' = TRUE
        /\ UNCHANGED faults
     \/ /\ faults > 0
        /\ faults' = faults - 1
        /\ ti' = [ti EXCEPT ![t] = "failed"]
        /\ UNCHANGED << msg, kombu, queue >>
  /\ UNCHANGED << script, webUp, paused, run, deliveries, env >>

Receive(t) ==
  /\ kombu
  /\ msg[t] = "ready"
  /\ msg' = [msg EXCEPT ![t] = "locked"]
  /\ deliveries' = [deliveries EXCEPT ![t] = @ + 1]
  /\ UNCHANGED << script, airflow, queue, faults, env >>

\* Only a task that is still waiting is started: a second delivery of a task
\* that was already started does nothing.
Execute(t) ==
  /\ msg[t] = "locked"
  /\ ti[t] = "sent"
  /\ ti' = [ti EXCEPT ![t] = "running"]
  /\ UNCHANGED << script, webUp, paused, run, kombu, broker, faults, env >>

TaskEnds(t) ==
  /\ ti[t] = "running"
  /\ \E result \in {"success", "failed"} : ti' = [ti EXCEPT ![t] = result]
  /\ UNCHANGED << script, webUp, paused, run, kombu, broker, faults, env >>

\* A delivery is acknowledged after the execution it has started; one that
\* started nothing, at once.
Acknowledge(t) ==
  /\ msg[t] = "locked"
  /\ \/ ti[t] \in {"success", "failed"}
     \/ ti[t] = "running" /\ deliveries[t] > 1
  /\ msg' = [msg EXCEPT ![t] = "acked"]
  /\ UNCHANGED << script, airflow, queue, deliveries, faults, env >>

\* Mutant: the count of deliveries starts again with every lock.
LockExpiresUncounted(t) ==
  /\ env.locksExpire
  /\ msg[t] = "locked"
  /\ msg' = [msg EXCEPT ![t] = "ready"]
  /\ deliveries' = [deliveries EXCEPT ![t] = 0]
  /\ UNCHANGED << script, airflow, queue, faults, env >>

LockExpires(t) ==
  /\ env.locksExpire
  /\ msg[t] = "locked"
  /\ msg' = [msg EXCEPT ![t] =
               IF deliveries[t] = MaxDeliveryCount THEN "dead" ELSE "ready"]
  /\ UNCHANGED << script, airflow, queue, deliveries, faults, env >>

RunEnds(r) ==
  /\ run[r] = "running"
  /\ \/ /\ \A t \in TasksOf(r) : ti[t] = "success"
        /\ run' = [run EXCEPT ![r] = "success"]
     \/ /\ \E t \in TasksOf(r) : ti[t] = "failed"
        /\ run' = [run EXCEPT ![r] = "failed"]
  /\ UNCHANGED << script, webUp, paused, ti, kombu, broker, faults, env >>

Airflow ==
  \/ WebserverStarts
  \/ WorkerConnects
  \/ \E r \in Runs : SchedulerBackfills(r) \/ StartRun(r) \/ RunEnds(r)
  \/ \E t \in Tasks : \/ SendTask(t) \/ Receive(t) \/ Execute(t)
                      \/ TaskEnds(t) \/ Acknowledge(t) \/ LockExpires(t)

Finished ==
  /\ pc = "end"
  /\ UNCHANGED vars

Next == Script \/ Airflow \/ Finished

Spec == Init /\ [][Next]_vars

\* The script is a running process.  The worker is one too: it connects,
\* takes what is ready, executes it and acknowledges.  Nothing is assumed of
\* the scheduler, and locks may run out as often as the queue lets them.
FairSpec ==
  /\ Spec
  /\ WF_vars(Script)
  /\ WF_vars(WorkerConnects)
  /\ \A t \in Tasks : /\ WF_vars(Receive(t))
                      /\ WF_vars(Execute(t))
                      /\ WF_vars(TaskEnds(t))
                      /\ WF_vars(Acknowledge(t))

-----------------------------------------------------------------------------
(* Safety.                                                                 *)

\* From its first PASS line on, every task of the run has gone through the
\* queue and has been executed: "there is no other path to success" (docstring
\* of the script), not even for a task that could not be sent or whose message
\* was lost, and not where the script fails after that line.
PassIsConsumed ==
  passes > 0 =>
    \A t \in TasksOf(Own) : ti[t] = "success" /\ deliveries[t] > 0

\* While no backfilled run has come up, with a worker that keeps its locks and
\* a depth that counts what is waiting, the script never reports a queue that
\* is not drained: a task that has succeeded was received before.
NeverFalselyStuck ==
  /\ ~env.locksExpire
  /\ ~env.countsLocked
  /\ \A r \in Catchup : run[r] = "absent"
  => verdict # "assert_depth"

Promise == INSTANCE Showcase WITH
  effect  <- \A t \in TasksOf(Own) : ti[t] = "success",
  seen    <- state = "success",
  outcome <- CASE passes = 2 -> "pass"
               [] passes < 2 /\ verdict = "none" -> "none"
               [] OTHER -> "fail"

\* What the script ends with keeps the promise of every verification script:
\* its last PASS line follows an observation of the successful run, which
\* follows the tasks' success, and nothing takes it back.  The first PASS line
\* is no outcome: reading the depth may raise or disprove it.
KeepsPromise == Promise!Spec

-----------------------------------------------------------------------------
(* Liveness.                                                               *)

\* The script always ends, whatever Airflow and the queue do.
VerdictReached == <>(verdict # "none")

\* No message circulates for ever, not even one whose locks always run out:
\* it is acknowledged or used up, so the queue drains and stays drained.
QueueDrains ==
  <>[](\A t \in Tasks : msg[t] \notin {"ready", "locked"})

-----------------------------------------------------------------------------
(* What the comments of the script say and the code does not do.           *)

\* "this only succeeds once kombu has connected and the queue has been
\* resolved/created" (docstring of the script): wait_for_broker_queue is
\* passed only after a Celery client has resolved the queue.
QueueProvesBroker ==
  [][pc = "queue" /\ pc' = "unpause" => kombu]_vars

\* "expected the queue to be drained after a successful run" (the assertion
\* of main): with every lock kept and a depth that counts what is waiting, the
\* queue is drained when it is read after the run has succeeded.
DrainedAfterSuccess ==
  ~env.locksExpire /\ ~env.countsLocked => verdict # "assert_depth"
=============================================================================
