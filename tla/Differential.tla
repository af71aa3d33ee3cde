---------------------------- MODULE Differential ----------------------------
(***************************************************************************)
(* case-studies/airflow-s3-logging/differential: run_differential.py runs  *)
(* the dag differential_s3 once on LocalStack and once on aws2azure over   *)
(* Azurite, on one host and one after the other, and compares the two      *)
(* summaries.                                                              *)
(*                                                                         *)
(* Both compose files are one compose project with one set of host ports:  *)
(* what an execution leaves behind is what the next `up` finds.  The       *)
(* script is executed several times; it may be killed, and the safety net  *)
(* of the workflow may or may not run in between.                          *)
(***************************************************************************)
EXTENDS Naturals

CONSTANTS
  Last,       \* bound: executions of the script on one host
  Budget,     \* bound: probes that fit before a wait's deadline
  MaxFaults   \* bound: requests and commands that fail, and kills

ASSUME DifferentialAssumption ==
  /\ Last \in Nat \ {0}
  /\ Budget \in Nat \ {0}
  /\ MaxFaults \in Nat

Turns == 1..Last

\* BACKENDS, in the order of the loop; the first is the baseline.
Backends == {"localstack", "aws2azure"}
First == "localstack"
Second == "aws2azure"

\* The tasks of the dag, a chain: create_bucket, put_tagging, get_tagging,
\* create_object, read_object, list_keys, summarize, delete_objects,
\* delete_bucket.
TaskCount == 9
Summarize == 7

VARIABLES
  \* the script
  turn, pc, polls,
  name,      \* the backend it is at
  results,   \* per backend, the store its summary was made from
  pending,   \* how it will end once `finally` is through
  verdict,   \* how each execution ended
  \* the compose project
  running,   \* the S3 services, and "airflow"
  conn,      \* the store aws_target stands for in Airflow's database
  \* the dag run
  run, task, summary,
  faults,
  env        \* whether the stores differ, fixed for a behaviour

script == << turn, pc, polls, name, results, pending, verdict >>
dag == << run, task, summary >>
project == << running, conn, dag >>
vars == << script, project, faults, env >>

\* compose up reaches its S3 service, airflow-init, and Airflow in turn; the
\* labels from "web" to "xcom" are the body of the `try`.
Labels ==
  {"up", "init", "airflow", "web", "unpause", "post", "dag", "xcom", "down",
   "end"}

Failures ==
  {"exit_webserver", "exit_run_timeout", "exit_run_failed", "exit_divergence",
   "raise_request", "raise_compose", "raise_leftover", "killed"}

Stores == Backends \union {"none"}

TypeOK ==
  /\ turn \in Turns
  /\ pc \in Labels
  /\ polls \in 0..Budget
  /\ name \in Backends
  /\ results \in [Backends -> Stores]
  /\ pending \in {"none"} \union Failures
  /\ verdict \in [Turns -> {"none", "pass"} \union Failures]
  /\ running \subseteq Backends \union {"airflow"}
  /\ conn \in Stores
  /\ run \in {"absent", "queued", "running", "success", "failed"}
  /\ task \in 0..TaskCount
  /\ summary \in Stores
  /\ faults \in 0..MaxFaults
  /\ env \in [diverges : BOOLEAN]

NoResults == [b \in Backends |-> "none"]

Init ==
  /\ env \in [diverges : BOOLEAN]
  /\ turn = 1
  /\ pc = "up"
  /\ polls = 0
  /\ name = First
  /\ results = NoResults
  /\ pending = "none"
  /\ verdict = [k \in Turns |-> "none"]
  /\ running = {}
  /\ conn = "none"
  /\ run = "absent" /\ task = 0 /\ summary = "none"
  /\ faults = MaxFaults

-----------------------------------------------------------------------------
(* The script.                                                             *)

GoTo(label) ==
  /\ pc' = label
  /\ polls' = 0
  /\ UNCHANGED << pending, verdict >>

\* An exception inside the `try`: the stack is torn down first.
Leave(how) ==
  /\ pc' = "down"
  /\ polls' = 0
  /\ pending' = how
  /\ UNCHANGED verdict

\* Nothing is torn down.
Quit(how) ==
  /\ pc' = "end"
  /\ polls' = 0
  /\ verdict' = [verdict EXCEPT ![turn] = how]
  /\ UNCHANGED pending

\* Mutant: a wait that looks at the clock only after it has probed again.
AgainLate ==
  /\ polls <= Budget
  /\ polls' = polls + 1
  /\ UNCHANGED << pc, pending, verdict >>

\* One more probe of the same wait, after a sleep.
Again ==
  /\ polls < Budget
  /\ polls' = polls + 1
  /\ UNCHANGED << pc, pending, verdict >>

DeadlinePassed == polls > 0

UseFault ==
  /\ faults > 0
  /\ faults' = faults - 1

\* `down -v` removes what the compose file names.
Remove(stores) ==
  /\ running' = running \ (stores \union {"airflow"})
  /\ conn' = "none"
  /\ run' = "absent" /\ task' = 0 /\ summary' = "none"

\* compose(..., check=True): `up` stands before the `try`, and a `down` may
\* fail before or after its work.
ComposeFails ==
  /\ pc \in {"up", "init", "airflow", "down"}
  /\ UseFault
  /\ Quit("raise_compose")
  /\ UNCHANGED project \/ (pc = "down" /\ Remove({name}))
  /\ UNCHANGED << turn, name, results, env >>

StartStore ==
  /\ pc = "up"
  /\ running' = running \union {name}
  /\ GoTo("init")
  /\ UNCHANGED << turn, name, results, conn, dag, faults, env >>

\* Mutant: airflow-init puts up with a connection that exists.
AddConnectionIfMissing ==
  /\ pc = "init"
  /\ conn' = IF conn = "none" THEN name ELSE conn
  /\ GoTo("airflow")
  /\ UNCHANGED << turn, name, results, running, dag, faults, env >>

\* `airflow connections add` refuses a connection that exists; airflow-init
\* fails and so does `up`.
AddConnection ==
  /\ pc = "init"
  /\ \/ conn = "none" /\ conn' = name /\ GoTo("airflow")
     \/ conn # "none" /\ Quit("raise_leftover") /\ UNCHANGED conn
  /\ UNCHANGED << turn, name, results, running, dag, faults, env >>

StartAirflow ==
  /\ pc = "airflow"
  /\ running' = running \union {"airflow"}
  /\ GoTo("web")
  /\ UNCHANGED << turn, name, results, conn, dag, faults, env >>

\* The webserver is up, or not yet.
WaitForWebserver ==
  /\ pc = "web"
  /\ \/ polls < Budget /\ GoTo("unpause")
     \/ Again
     \/ DeadlinePassed /\ Leave("exit_webserver")
  /\ UNCHANGED << turn, name, results, project, faults, env >>

\* The other requests are bare; an interrupt is an exception like theirs.
RequestRaises ==
  /\ pc \in {"web", "unpause", "post", "dag", "xcom"}
  /\ UseFault
  /\ Leave("raise_request")
  /\ UNCHANGED << turn, name, results, project, env >>

Unpause ==
  /\ pc = "unpause"
  /\ GoTo("post")
  /\ UNCHANGED << turn, name, results, project, faults, env >>

TriggerRun ==
  /\ pc = "post"
  /\ run' = "queued"
  /\ GoTo("dag")
  /\ UNCHANGED << turn, name, results, running, conn, task, summary, faults,
                  env >>

\* Mutant: any final state will do.
WaitForDagRunAnyState ==
  /\ pc = "dag"
  /\ \/ polls < Budget /\ run \in {"success", "failed"} /\ GoTo("xcom")
     \/ run \notin {"success", "failed"} /\ Again
     \/ DeadlinePassed /\ Leave("exit_run_timeout")
  /\ UNCHANGED << turn, name, results, project, faults, env >>

\* Mutant: a run in an unfinished state is polled without looking at the clock.
WaitForDagRunUncounted ==
  /\ pc = "dag"
  /\ \/ run = "success" /\ GoTo("xcom")
     \/ run = "failed" /\ Leave("exit_run_failed")
     \/ /\ run \notin {"success", "failed"}
        /\ UNCHANGED << pc, polls, pending, verdict >>
  /\ UNCHANGED << turn, name, results, project, faults, env >>

WaitForDagRun ==
  /\ pc = "dag"
  /\ \/ polls < Budget /\ run = "success" /\ GoTo("xcom")
     \/ polls < Budget /\ run = "failed" /\ Leave("exit_run_failed")
     \/ run \notin {"success", "failed"} /\ Again
     \/ DeadlinePassed /\ Leave("exit_run_timeout")
  /\ UNCHANGED << turn, name, results, project, faults, env >>

FetchSummary ==
  /\ pc = "xcom"
  /\ \/ /\ summary # "none"
        /\ results' = [results EXCEPT ![name] = summary]
        /\ GoTo("down")
     \/ /\ summary = "none"
        /\ Leave("raise_request")
        /\ UNCHANGED results
  /\ UNCHANGED << turn, name, project, faults, env >>

\* Two summaries are equal when they come from one store, or the stores agree.
Identical == results[First] = results[Second] \/ ~env.diverges

Outcome ==
  CASE pending # "none" -> pending
    [] pending = "none" /\ Identical -> "pass"
    [] OTHER -> "exit_divergence"

NextOrOutcome ==
  \/ /\ pending = "none" /\ name = First
     /\ name' = Second
     /\ GoTo("up")
  \/ /\ pending # "none" \/ name = Second
     /\ Quit(Outcome)
     /\ UNCHANGED name

\* Mutant: without `finally` only a backend that has succeeded is torn down.
TearDownUnlessFailed ==
  /\ pc = "down"
  /\ \/ pending = "none" /\ Remove({name})
     \/ pending # "none" /\ UNCHANGED project
  /\ NextOrOutcome
  /\ UNCHANGED << turn, results, faults, env >>

\* `finally`, followed by the next backend or by the comparison.
TearDown ==
  /\ pc = "down"
  /\ Remove({name})
  /\ NextOrOutcome
  /\ UNCHANGED << turn, results, faults, env >>

Script ==
  \/ ComposeFails \/ StartStore \/ AddConnection \/ StartAirflow
  \/ WaitForWebserver
  \/ RequestRaises
  \/ Unpause \/ TriggerRun
  \/ WaitForDagRun \/ FetchSummary
  \/ TearDown

-----------------------------------------------------------------------------
(* Whoever runs the script.                                                *)

\* With no chance to tear anything down.
Killed ==
  /\ pc # "end"
  /\ UseFault
  /\ Quit("killed")
  /\ UNCHANGED << turn, name, results, project, env >>

\* The step "Tear down (safety net)", or somebody by hand.
SafetyNet ==
  /\ pc = "end"
  /\ Remove(Backends)
  /\ UNCHANGED << script, faults, env >>

RunAgain ==
  /\ pc = "end"
  /\ turn < Last
  /\ turn' = turn + 1
  /\ pc' = "up"
  /\ name' = First
  /\ results' = NoResults
  /\ pending' = "none"
  /\ UNCHANGED << polls, verdict, project, faults, env >>

-----------------------------------------------------------------------------
(* Airflow.                                                                *)

StartRun ==
  /\ "airflow" \in running
  /\ run = "queued"
  /\ run' = "running"
  /\ task' = 0 /\ summary' = "none"
  /\ UNCHANGED << script, running, conn, faults, env >>

\* The next task of the chain, on the store the connection stands for.
TaskSucceeds ==
  /\ "airflow" \in running
  /\ run = "running"
  /\ task < TaskCount
  /\ task' = task + 1
  /\ summary' = IF task' = Summarize THEN conn ELSE summary
  /\ UNCHANGED << script, running, conn, run, faults, env >>

\* A task that fails fails the run, what follows is not executed.
RunEnds ==
  /\ "airflow" \in running
  /\ run = "running"
  /\ \/ task = TaskCount /\ run' = "success"
     \/ task < TaskCount /\ run' = "failed"
  /\ UNCHANGED << script, running, conn, task, summary, faults, env >>

Airflow == StartRun \/ TaskSucceeds \/ RunEnds

Finished ==
  /\ pc = "end" /\ turn = Last
  /\ UNCHANGED vars

Next == Script \/ Killed \/ SafetyNet \/ RunAgain \/ Airflow \/ Finished

Spec == Init /\ [][Next]_vars

\* The script is a running process.
FairSpec == Spec /\ WF_vars(Script)

-----------------------------------------------------------------------------
(* Safety.                                                                 *)

\* "produced an identical final state on all backends" / "divergence between
\* backends": what the script says of the two stores is so, whatever earlier
\* executions have left in the project that it shares with them.
VerdictIsHonest ==
  \A k \in Turns :
    /\ verdict[k] = "pass" => ~env.diverges
    /\ verdict[k] = "exit_divergence" => env.diverges

\* A summary that is compared is that of a run which has also deleted what it
\* had created.
SummaryOfWholeRun ==
  pc = "down" /\ results[name] # "none" => task = TaskCount /\ run = "success"

\* How an execution ends that may leave containers behind.
Abrupt == {"raise_compose", "raise_leftover", "killed"}

\* While every execution has ended in good order there is nothing on the host
\* but the stack at hand.
NothingOutlives ==
  (\A k \in Turns : verdict[k] \notin Abrupt) =>
    /\ pc = "end" => running = {} /\ conn = "none"
    /\ pc # "end" => running \subseteq {name, "airflow"}

\* An `up` meets a database of earlier only after such an execution, never
\* because of the other backend's stack.
LeftoverHasCause ==
  \A k \in Turns :
    verdict[k] = "raise_leftover" =>
      \E j \in 1..(k - 1) : verdict[j] \in Abrupt

\* "tearing each stack fully down before the next starts" (README): nothing of
\* an execution outlives it and none is disturbed by another, whatever wait or
\* request has failed, unless one was killed or docker compose has failed.
TornDown == NothingOutlives /\ LeftoverHasCause

-----------------------------------------------------------------------------
(* Liveness.                                                               *)

\* Every execution ends, whatever Airflow does, and whatever it finds on the
\* host when it starts.
EveryExecutionEnds == \A k \in Turns : turn = k ~> verdict[k] # "none"
=============================================================================
