----------------------------- MODULE S3Logging ------------------------------
(***************************************************************************)
(* case-studies/airflow-s3-logging: the end-to-end verification script     *)
(* (scripts/verify_e2e_run.py) running against a live Airflow scheduler,   *)
(* task process and webserver, with the task log stored as an object in    *)
(* Azurite through aws2azure.                                              *)
(*                                                                         *)
(* The script is one sequential process; the scheduler, the task process   *)
(* that writes and uploads the log, and the proxy interleave with it       *)
(* freely.  A log is the number of its lines: a log of n lines is          *)
(* contained in one of m lines exactly when n <= m.  Only the log of the   *)
(* run the script triggered is part of the state, it is the only one read. *)
(***************************************************************************)
EXTENDS Naturals, FiniteSets

CONSTANTS
  Own,          \* the dag run the script triggers
  Catchup,      \* runs the scheduler backfills once the dag is unpaused
  Prior,        \* finished runs left by earlier verifications
  Lines,        \* lines of a complete task log
  Budget,       \* bound: probes that fit before a wait's deadline
  MaxFaults,    \* bound: requests that fail in one behaviour
  NoObject      \* Azurite holds no object under the log's key

Runs == {Own} \union Catchup \union Prior

ASSUME RunsAssumption ==
  /\ Own \notin Catchup \union Prior
  /\ Catchup \intersect Prior = {}
  /\ IsFiniteSet(Runs)

ASSUME BoundsAssumption ==
  /\ Lines \in Nat \ {0}
  /\ Budget \in Nat \ {0}
  /\ MaxFaults \in Nat
  /\ NoObject \notin Nat

VARIABLES
  \* the script
  pc,        \* the call it is about to make
  round,     \* 1 and 2: the two calls of wait_for_azurite_log_containment
  polls,     \* failed probes of the wait it is in
  strays,    \* runs it has listed and has still to delete
  apiLog,    \* last log served by the REST API, and where it came from
  azLog,     \* last object fetched from Azurite
  verdict,   \* how the script ended
  \* Airflow and the backend
  webUp, paused, run,
  task,      \* the process of task runme_0 of the own run
  log,       \* lines in its local file
  local,     \* the local file exists
  obj,       \* the object in Azurite
  faults,    \* requests that may still fail
  env        \* how the stack was set up, fixed for a behaviour

script == << pc, round, polls, strays, apiLog, azLog, verdict >>
airflow == << webUp, paused, run, task, log, local, obj >>
vars == << script, airflow, faults, env >>

Labels ==
  {"web", "unpause", "list", "clear", "post", "dag", "api", "az", "cmp",
   "rm", "end"}

Failures ==
  {"exit_webserver", "exit_run_failed", "exit_run_timeout", "assert_mismatch",
   "assert_empty", "raise_request", "raise_no_such_key"}

RunStates == {"absent", "queued", "running", "success", "failed", "deleted"}

Texts == [from : {"remote", "local", "nowhere"}, lines : 0..Lines]

\* The log bucket airflow-init has provisioned is still there; the upload lands
\* before the run is marked success; the proxy may lose the end of a body it
\* carries; the API refuses to delete a run that is executing.
Setups ==
  [bucket : BOOLEAN, uploadFirst : BOOLEAN, lossy : BOOLEAN,
   refuses : BOOLEAN]

TypeOK ==
  /\ pc \in Labels
  /\ round \in {1, 2}
  /\ polls \in 0..Budget
  /\ strays \subseteq Runs
  /\ apiLog \in Texts
  /\ azLog \in 0..Lines \union {NoObject}
  /\ verdict \in {"none", "pass"} \union Failures
  /\ webUp \in BOOLEAN
  /\ paused \in BOOLEAN
  /\ run \in [Runs -> RunStates]
  /\ task \in {"idle", "exec", "teardown", "done"}
  /\ log \in 0..Lines
  /\ local \in BOOLEAN
  /\ obj \in 0..Lines \union {NoObject}
  /\ faults \in 0..MaxFaults
  /\ env \in Setups

Init ==
  /\ pc = "web"
  /\ round = 1
  /\ polls = 0
  /\ strays = {}
  /\ apiLog = [from |-> "nowhere", lines |-> 0]
  /\ azLog = NoObject
  /\ verdict = "none"
  /\ webUp \in BOOLEAN
  /\ paused = TRUE
  /\ run = [r \in Runs |-> IF r \in Prior THEN "success" ELSE "absent"]
  /\ task = "idle"
  /\ log = 0
  /\ local = TRUE
  /\ obj = NoObject
  /\ faults = MaxFaults
  /\ env \in Setups

-----------------------------------------------------------------------------
(* The script.                                                             *)

GoTo(label) ==
  /\ pc' = label
  /\ polls' = 0
  /\ UNCHANGED verdict

Quit(how) ==
  /\ pc' = "end"
  /\ verdict' = how
  /\ UNCHANGED polls

\* Mutant: a wait that looks at the clock only after it has probed again.
AgainLate(label) ==
  /\ polls <= Budget
  /\ pc' = label
  /\ polls' = polls + 1
  /\ UNCHANGED verdict

\* One more probe of the same wait, after a sleep.
Again(label) ==
  /\ polls < Budget
  /\ pc' = label
  /\ polls' = polls + 1
  /\ UNCHANGED verdict

\* A loop "while time.time() < deadline" looks at the clock before it probes:
\* it may give up as soon as it has probed and slept once, whatever has become
\* of what it waits for, and has to once its budget is spent.
DeadlinePassed == polls > 0

\* A failed probe is swallowed and retried.
WaitForWebserver ==
  /\ pc = "web"
  /\ \/ webUp /\ polls < Budget /\ GoTo("unpause") /\ UNCHANGED faults
     \/ ~webUp /\ Again("web") /\ UNCHANGED faults
     \/ faults > 0 /\ faults' = faults - 1 /\ Again("web")
     \/ DeadlinePassed /\ Quit("exit_webserver") /\ UNCHANGED faults
  /\ UNCHANGED << round, strays, apiLog, azLog, airflow, env >>

\* Every other request but the deletion of a stray run is bare: when it
\* fails the exception ends the script.
BareCalls == {"unpause", "list", "post", "dag", "api", "az", "rm"}

RequestRaises ==
  /\ pc \in BareCalls
  /\ faults > 0
  /\ faults' = faults - 1
  /\ Quit("raise_request")
  /\ UNCHANGED << round, strays, apiLog, azLog, airflow, env >>

Unpause ==
  /\ pc = "unpause"
  /\ paused' = FALSE
  /\ GoTo("list")
  /\ UNCHANGED << round, strays, apiLog, azLog, webUp, run, task, log,
                  local, obj, faults, env >>

\* The runs that exist at the time of this one request.
ListRuns ==
  /\ pc = "list"
  /\ strays' = {r \in Runs : run[r] \notin {"absent", "deleted"}}
  /\ GoTo("clear")
  /\ UNCHANGED << round, apiLog, azLog, airflow, faults, env >>

\* Best effort: a deletion that is refused or fails leaves the run in place.
DeleteStray(r) ==
  /\ pc = "clear"
  /\ r \in strays
  /\ strays' = strays \ {r}
  /\ \/ run' = [run EXCEPT ![r] = "deleted"] /\ UNCHANGED faults
     \/ env.refuses /\ run[r] = "running" /\ UNCHANGED << run, faults >>
     \/ faults > 0 /\ faults' = faults - 1 /\ UNCHANGED run
  /\ UNCHANGED << pc, round, polls, apiLog, azLog, verdict, webUp, paused,
                  task, log, local, obj, env >>

StraysCleared ==
  /\ pc = "clear"
  /\ strays = {}
  /\ GoTo("post")
  /\ UNCHANGED << round, strays, apiLog, azLog, airflow, faults, env >>

TriggerRun ==
  /\ pc = "post"
  /\ run' = [run EXCEPT ![Own] = "queued"]
  /\ GoTo("dag")
  /\ UNCHANGED << round, strays, apiLog, azLog, webUp, paused, task, log,
                  local, obj, faults, env >>

\* Mutants of WaitForDagRun: a probe that is not charged to the budget; main
\* deletes the local copy before anything was seen in Azurite; main goes on
\* whatever state the run has reached.
WaitForDagRunUncounted ==
  /\ pc = "dag"
  /\ \/ run[Own] = "success" /\ polls < Budget /\ GoTo("api")
     \/ run[Own] = "failed" /\ polls < Budget /\ Quit("exit_run_failed")
     \/ run[Own] \notin {"success", "failed"} /\ GoTo("dag")
     \/ DeadlinePassed /\ Quit("exit_run_timeout")
  /\ UNCHANGED << round, strays, apiLog, azLog, airflow, faults, env >>

WaitForDagRunDeletesFirst ==
  /\ pc = "dag"
  /\ \/ run[Own] = "success" /\ polls < Budget /\ GoTo("rm")
     \/ run[Own] = "failed" /\ polls < Budget /\ Quit("exit_run_failed")
     \/ run[Own] \notin {"success", "failed"} /\ Again("dag")
     \/ DeadlinePassed /\ Quit("exit_run_timeout")
  /\ UNCHANGED << round, strays, apiLog, azLog, airflow, faults, env >>

WaitForDagRunAnyState ==
  /\ pc = "dag"
  /\ \/ run[Own] \in {"success", "failed"} /\ polls < Budget /\ GoTo("api")
     \/ run[Own] \notin {"success", "failed"} /\ Again("dag")
     \/ DeadlinePassed /\ Quit("exit_run_timeout")
  /\ UNCHANGED << round, strays, apiLog, azLog, airflow, faults, env >>

WaitForDagRun ==
  /\ pc = "dag"
  /\ \/ run[Own] = "success" /\ polls < Budget /\ GoTo("api")
     \/ run[Own] = "failed" /\ polls < Budget /\ Quit("exit_run_failed")
     \/ run[Own] \notin {"success", "failed"} /\ Again("dag")
     \/ DeadlinePassed /\ Quit("exit_run_timeout")
  /\ UNCHANGED << round, strays, apiLog, azLog, airflow, faults, env >>

\* What comes out of the proxy of a body of n lines, written or read.
Carried(n) == IF env.lossy THEN 0..n ELSE {n}

\* The log as the webserver serves it: the stored object when there is one,
\* the local file otherwise.
Served ==
  CASE obj # NoObject -> [from : {"remote"}, lines : Carried(obj)]
    [] obj = NoObject /\ local -> {[from |-> "local", lines |-> log]}
    [] OTHER -> {[from |-> "nowhere", lines |-> 0]}

FetchLogViaApi ==
  /\ pc = "api"
  /\ apiLog' \in Served
  /\ pc' = "az"
  /\ UNCHANGED << round, polls, strays, azLog, verdict, airflow, faults, env >>

\* Mutant: a missing object is read as an empty body, which is contained in
\* every log.
FetchLogViaAzuriteEmpty ==
  /\ pc = "az"
  /\ pc' = "cmp"
  /\ azLog' \in IF obj = NoObject THEN {0} ELSE Carried(obj)
  /\ UNCHANGED << round, polls, strays, apiLog, verdict, airflow, faults,
                  env >>

\* get_object raises NoSuchKey for a missing object (NoSuchBucket for a missing
\* bucket, the same verdict here), and nothing catches it.
FetchLogViaAzurite ==
  /\ pc = "az"
  /\ \/ obj # NoObject /\ azLog' \in Carried(obj) /\ pc' = "cmp"
        /\ UNCHANGED << polls, verdict >>
     \/ obj = NoObject /\ Quit("raise_no_such_key") /\ UNCHANGED azLog
  /\ UNCHANGED << round, strays, apiLog, airflow, faults, env >>

Contained == azLog <= apiLog.lines

\* Mutant: after an unequal comparison only the object is read again.
CompareLogsKeepingServed ==
  /\ pc = "cmp"
  /\ \/ Contained /\ round = 1 /\ apiLog.lines = 0 /\ Quit("assert_empty")
     \/ Contained /\ round = 1 /\ apiLog.lines > 0 /\ GoTo("rm")
     \/ Contained /\ round = 2 /\ Quit("pass")
     \/ ~Contained /\ Again("az")
     \/ ~Contained /\ Quit("assert_mismatch")
  /\ UNCHANGED << round, strays, apiLog, azLog, airflow, faults, env >>

\* The body of wait_for_azurite_log_containment after the two fetches, and
\* what main does with its result: the served log of the first call must not
\* be empty; the second call, after the deletion, ends the script.  This loop
\* looks at the clock after it has compared and before it sleeps: two slow
\* reads may use up the whole timeout, the first comparison can be the last.
CompareLogs ==
  /\ pc = "cmp"
  /\ \/ Contained /\ round = 1 /\ apiLog.lines = 0 /\ Quit("assert_empty")
     \/ Contained /\ round = 1 /\ apiLog.lines > 0 /\ GoTo("rm")
     \/ Contained /\ round = 2 /\ Quit("pass")
     \/ ~Contained /\ Again("api")
     \/ ~Contained /\ Quit("assert_mismatch")
  /\ UNCHANGED << round, strays, apiLog, azLog, airflow, faults, env >>

DeleteLocalLogCopy ==
  /\ pc = "rm"
  /\ local' = FALSE
  /\ round' = 2
  /\ GoTo("api")
  /\ UNCHANGED << strays, apiLog, azLog, webUp, paused, run, task, log, obj,
                  faults, env >>

Script ==
  \/ WaitForWebserver
  \/ RequestRaises
  \/ Unpause
  \/ ListRuns
  \/ \E r \in Runs : DeleteStray(r)
  \/ StraysCleared
  \/ TriggerRun
  \/ WaitForDagRun
  \/ FetchLogViaApi
  \/ FetchLogViaAzurite
  \/ CompareLogs
  \/ DeleteLocalLogCopy

-----------------------------------------------------------------------------
(* Airflow and the backend.                                                *)

WebserverStarts ==
  /\ ~webUp
  /\ webUp' = TRUE
  /\ UNCHANGED << script, paused, run, task, log, local, obj, faults, env >>

\* An unpaused dag is backfilled: its missed interval becomes a run, once.
SchedulerBackfills(r) ==
  /\ ~paused
  /\ r \in Catchup
  /\ run[r] = "absent"
  /\ run' = [run EXCEPT ![r] = "queued"]
  /\ UNCHANGED << script, webUp, paused, task, log, local, obj, faults, env >>

StartRun(r) ==
  /\ ~paused
  /\ run[r] = "queued"
  /\ run' = [run EXCEPT ![r] = "running"]
  /\ task' = IF r = Own THEN "exec" ELSE task
  /\ UNCHANGED << script, webUp, paused, log, local, obj, faults, env >>

WriteLine ==
  /\ task \in {"exec", "teardown"}
  /\ log < Lines
  /\ log' = log + 1
  /\ UNCHANGED << script, webUp, paused, run, task, local, obj, faults, env >>

TaskEnds ==
  /\ task = "exec"
  /\ log > 0
  /\ task' = "teardown"
  /\ UNCHANGED << script, webUp, paused, run, log, local, obj, faults, env >>

\* The task handler uploads from the teardown of the task's process; it
\* swallows the error of a missing bucket or a failed request.
UploadLog ==
  /\ task = "teardown"
  /\ task' = "done"
  /\ \/ env.bucket /\ obj' \in Carried(log) /\ UNCHANGED faults
     \/ ~env.bucket /\ UNCHANGED << obj, faults >>
     \/ faults > 0 /\ faults' = faults - 1 /\ UNCHANGED obj
  /\ UNCHANGED << script, webUp, paused, run, log, local, env >>

\* The scheduler marks the own run; the task's process may still be in its
\* teardown.
RunEnds ==
  /\ run[Own] = "running"
  /\ \/ /\ task \in IF env.uploadFirst THEN {"done"} ELSE {"teardown", "done"}
        /\ run' = [run EXCEPT ![Own] = "success"]
     \/ run' = [run EXCEPT ![Own] = "failed"]
  /\ UNCHANGED << script, webUp, paused, task, log, local, obj, faults, env >>

OtherRunEnds(r) ==
  /\ r # Own
  /\ run[r] = "running"
  /\ run' = [run EXCEPT ![r] = "success"]
  /\ UNCHANGED << script, webUp, paused, task, log, local, obj, faults, env >>

Airflow ==
  \/ WebserverStarts
  \/ \E r \in Runs : \/ SchedulerBackfills(r)
                     \/ StartRun(r)
                     \/ OtherRunEnds(r)
  \/ WriteLine
  \/ TaskEnds
  \/ UploadLog
  \/ RunEnds

Finished ==
  /\ pc = "end"
  /\ UNCHANGED vars

Next == Script \/ Airflow \/ Finished

Spec == Init /\ [][Next]_vars

\* The script is a running process, it is never descheduled for good.  No
\* fairness of Airflow or of the backend is assumed: every wait of the
\* script has a deadline.
FairSpec == Spec /\ WF_vars(Script)

-----------------------------------------------------------------------------
(* Safety.                                                                 *)

\* PASS is printed only when the object is in Azurite, the local copy is gone
\* and the log compared last was served from the object: the two rounds of
\* wait_for_azurite_log_containment, with the deletion between them, leave no
\* way to be fooled by the local file, whatever is late or missing.
PassIsRemote ==
  verdict = "pass" => /\ obj # NoObject
                      /\ ~local
                      /\ apiLog.from = "remote"

\* Over a proxy that keeps bodies whole the script reports no empty log, and a
\* mismatch in one case only: an upload that comes after the end of the run
\* lands between the two reads of the very first comparison, and these two
\* reads alone have used up the timeout.  Once a comparison has been repeated
\* an upload is never reported as a mismatch: both reads are made again, the
\* served log first.
NoSpuriousMismatch ==
  ~env.lossy =>
    /\ verdict # "assert_empty"
    /\ verdict = "assert_mismatch" =>
         /\ ~env.uploadFirst
         /\ round = 1
         /\ polls = 0
         /\ apiLog.from = "local"

\* What the script deletes is never what it has still to look at.  It removes
\* the local log only after the object has been seen in Azurite; and the runs
\* it clears, those of the one listing, never include the run it triggers,
\* whatever the scheduler backfills meanwhile.
DeletesNothingNeeded ==
  [][/\ local /\ ~local' => obj # NoObject
     /\ run[Own] # "deleted" => run'[Own] # "deleted"]_vars

\* When there is a bucket, the upload lands before the run is marked success,
\* bodies are kept whole and no request has failed, the script ends with PASS
\* or because the webserver or the run really did not make it: it raises no
\* false alarm of its own.
OnlyRealFailures ==
  env.bucket /\ env.uploadFirst /\ ~env.lossy /\ faults = MaxFaults =>
  /\ verdict \in {"none", "pass", "exit_webserver", "exit_run_failed",
                  "exit_run_timeout"}
  /\ verdict = "exit_run_failed" => run[Own] = "failed"

-----------------------------------------------------------------------------
(* Implementation and liveness.                                            *)

Promise == INSTANCE Showcase WITH
  effect  <- obj # NoObject,
  seen    <- azLog # NoObject,
  outcome <- IF verdict \in {"none", "pass"} THEN verdict ELSE "fail"

\* The script keeps the promise of every verification script: its PASS
\* follows an observation, and the observation follows the upload.
KeepsPromise == Promise!Spec

\* The script always ends: every loop of it is bounded by a deadline or by
\* the list it goes through, even when Airflow and the proxy do nothing.
VerdictReached == <>(verdict # "none")

-----------------------------------------------------------------------------
(* What the comments of the script say and the code does not do.           *)

\* "Reading immediately after that state transition can legitimately race
\* the upload; retrying tolerates that eventual consistency" (docstring of
\* wait_for_azurite_log_containment): where there is a bucket, a read that
\* comes before the upload does not end the script.
LagIsTolerated ==
  [][env.bucket /\ verdict' = "raise_no_such_key" => task' # "teardown"]_vars
=============================================================================
