-------------------------- MODULE CelerySqsProofs ---------------------------
(***************************************************************************)
(* What CelerySqs promises for every set of runs and tasks, every number   *)
(* of deliveries, probes and faults, and every setup of the stack.         *)
(***************************************************************************)
EXTENDS CelerySqs, Counting, FiniteSetTheorems

\* A task executes only after a delivery, a message that waits has a delivery
\* left, and the script's knowledge of its run is true and stays true.
Chain ==
  /\ \A t \in Tasks :
       /\ msg[t] # "none" => ti[t] # "none"
       /\ msg[t] = "ready" => deliveries[t] < MaxDeliveryCount
       /\ msg[t] = "locked" => deliveries[t] > 0
       /\ ti[t] \in {"running", "success"} => deliveries[t] > 0
       /\ ti[t] = "none" => deliveries[t] = 0
  /\ \A r \in Runs :
       run[r] = "success" => \A t \in TasksOf(r) : ti[t] = "success"
  /\ pc \in {"web", "queue", "unpause", "post"} => run[Own] = "absent"
  /\ state = "success" => run[Own] = "success"
  /\ pc = "depth" => state = "success"
  /\ passes > 0 => state = "success"
  /\ passes = 2 <=> verdict = "pass"
  /\ pc = "depth" => passes = 1
  /\ pc \notin {"depth", "end"} => passes = 0
  /\ verdict # "none" <=> pc = "end"
  /\ state # "none" => pc \in {"depth", "end"}

IInv == TypeOK /\ Chain

LEMMA Bounds ==
  /\ Budget \in Nat \ {0} /\ MaxFaults \in Nat
  /\ MaxDeliveryCount \in Nat \ {0}
  /\ Own \in Runs /\ Catchup \subseteq Runs
  /\ \A t \in Tasks : RunOf[t] \in Runs
BY BoundsAssumption, RunsAssumption DEF Runs

LEMMA InitIInv == Init => IInv
<1> SUFFICES ASSUME Init PROVE IInv OBVIOUS
<1>1. queue \in BOOLEAN /\ kombu \in BOOLEAN /\ paused \in BOOLEAN
  <2>1. env.declared \in BOOLEAN BY DEF Init, Setups
  <2> QED BY <2>1, Zenon DEF Init
<1>2. TypeOK BY <1>1, Bounds DEF Init, TypeOK, Labels, Failures
<1>3. Chain BY Bounds DEF Init, Chain
<1> QED BY <1>2, <1>3 DEF IInv

\* The script moves only its own variables and the state of its run.
LEMMA ScriptStep ==
  ASSUME IInv, Script
  PROVE  IInv'
<1> USE Bounds
<1>0. TypeOK /\ Chain BY DEF IInv
<1>1. CASE WaitForWebserver \/ WaitForBrokerQueue
  <2>1. TypeOK'
    BY <1>0, <1>1 DEF TypeOK, WaitForWebserver, WaitForBrokerQueue, GoTo,
                      Again, Quit, airflow, broker, Labels, Failures
  <2>2. Chain'
    BY <1>0, <1>1 DEF Chain, WaitForWebserver, WaitForBrokerQueue, GoTo,
                      Again, Quit, airflow, broker, TasksOf
  <2> QED BY <2>1, <2>2 DEF IInv
<1>2. CASE RequestRaises
  <2>1. TypeOK'
    BY <1>0, <1>2 DEF TypeOK, RequestRaises, Quit, airflow, broker, Labels,
                      Failures
  <2>2. Chain'
    BY <1>0, <1>2 DEF Chain, RequestRaises, Quit, airflow, broker, TasksOf
  <2> QED BY <2>1, <2>2 DEF IInv
<1>3. CASE Unpause
  <2>1. paused' \in BOOLEAN BY <1>3, Zenon DEF Unpause
  <2>2. TypeOK' BY <1>0, <1>3, <2>1 DEF TypeOK, Unpause, GoTo, Labels, broker
  <2>3. Chain' BY <1>0, <1>3 DEF Chain, Unpause, GoTo, broker, TasksOf
  <2> QED BY <2>2, <2>3 DEF IInv
<1>4. CASE TriggerRun
  <2>1. TypeOK' BY <1>0, <1>4 DEF TypeOK, TriggerRun, GoTo, Labels, broker
  <2>2. /\ run'[Own] = "queued"
        /\ \A r \in Runs : r # Own => run'[r] = run[r]
    BY <1>0, <1>4 DEF TypeOK, TriggerRun
  <2>3. Chain'
    BY <1>0, <1>4, <2>2 DEF Chain, TriggerRun, GoTo, broker, TasksOf
  <2> QED BY <2>1, <2>3 DEF IInv
<1>5. CASE WaitForDagRun
  <2>1. TypeOK'
    BY <1>0, <1>5 DEF TypeOK, WaitForDagRun, Report, GoTo, Again, Quit,
                      airflow, broker, Labels, Failures
  <2>2. Chain'
    BY <1>0, <1>5 DEF Chain, WaitForDagRun, Report, GoTo, Again, Quit,
                      airflow, broker, TasksOf
  <2> QED BY <2>1, <2>2 DEF IInv
<1>6. CASE AssertDrained
  <2>1. TypeOK'
    BY <1>0, <1>6 DEF TypeOK, Chain, AssertDrained, Quit, airflow, broker,
                      Labels, Failures
  <2>2. Chain'
    BY <1>0, <1>6 DEF Chain, AssertDrained, Quit, airflow, broker, TasksOf
  <2> QED BY <2>1, <2>2 DEF IInv
<1> QED BY <1>1, <1>2, <1>3, <1>4, <1>5, <1>6 DEF Script

\* What the steps of Airflow and of the queue leave alone: the script, and
\* whatever has already succeeded.
LEMMA AirflowStep ==
  ASSUME IInv, Airflow
  PROVE  /\ TypeOK'
         /\ UNCHANGED script
         /\ \A t \in Tasks : ti[t] = "success" => ti'[t] = "success"
         /\ \A r \in Runs : run[r] = "success" => run'[r] = "success"
         /\ \A r \in Runs : run'[r] = "success" =>
              \A t \in TasksOf(r) : ti'[t] = "success"
         /\ run[Own] = "absent" => run'[Own] = "absent"
         /\ \A t \in Tasks :
              /\ msg'[t] # "none" => ti'[t] # "none"
              /\ msg'[t] = "ready" => deliveries'[t] < MaxDeliveryCount
              /\ msg'[t] = "locked" => deliveries'[t] > 0
              /\ ti'[t] \in {"running", "success"} => deliveries'[t] > 0
              /\ ti'[t] = "none" => deliveries'[t] = 0
<1> USE Bounds
<1>0. TypeOK /\ Chain BY DEF IInv
<1>1. CASE WebserverStarts
  BY <1>0, <1>1 DEF TypeOK, Chain, WebserverStarts, script, broker, TasksOf
<1>2. CASE WorkerConnects
  BY <1>0, <1>2 DEF TypeOK, Chain, WorkerConnects, script, TasksOf
<1>3. ASSUME NEW r \in Runs,
             SchedulerBackfills(r) \/ StartRun(r) \/ RunEnds(r)
      PROVE  /\ TypeOK'
             /\ UNCHANGED << script, ti, msg, deliveries >>
             /\ \A q \in Runs : q # r => run'[q] = run[q]
             /\ run[r] # "success"
             /\ run'[r] = "success" => \A t \in TasksOf(r) : ti[t] = "success"
             /\ run[Own] = "absent" => run'[Own] = "absent"
  <2>1. CASE SchedulerBackfills(r)
    BY <1>0, <2>1, RunsAssumption
       DEF TypeOK, SchedulerBackfills, script, broker
  <2>2. CASE StartRun(r)
    BY <1>0, <2>2 DEF TypeOK, StartRun, script, broker
  <2>3. CASE RunEnds(r)
    BY <1>0, <2>3 DEF TypeOK, RunEnds, script, broker
  <2> QED BY <1>3, <2>1, <2>2, <2>3
<1>4. ASSUME NEW u \in Tasks, SendTask(u)
      PROVE  /\ TypeOK'
             /\ UNCHANGED << script, run, deliveries >>
             /\ ti[u] = "none" /\ ti'[u] \in {"sent", "failed"}
             /\ \A t \in Tasks : t # u => ti'[t] = ti[t] /\ msg'[t] = msg[t]
             /\ msg'[u] \in {"ready", msg[u]}
  <2>1. kombu' \in BOOLEAN /\ queue' \in BOOLEAN
    <3>1. kombu' = TRUE \/ kombu' = kombu BY <1>4 DEF SendTask
    <3>2. queue' = TRUE \/ queue' = queue BY <1>4 DEF SendTask
    <3>3. kombu \in BOOLEAN /\ queue \in BOOLEAN BY <1>0 DEF TypeOK
    <3> QED BY <3>1, <3>2, <3>3, Zenon
  <2>2. \/ ti' = [ti EXCEPT ![u] = "sent"] /\ msg' = [msg EXCEPT ![u] = "ready"]
           /\ UNCHANGED faults
        \/ ti' = [ti EXCEPT ![u] = "failed"] /\ UNCHANGED msg
           /\ faults > 0 /\ faults' = faults - 1
    BY <1>4 DEF SendTask
  <2>3. /\ UNCHANGED << script, webUp, paused, run, deliveries, env >>
        /\ ti[u] = "none"
    BY <1>4 DEF SendTask
  <2> QED BY <1>0, <2>1, <2>2, <2>3 DEF TypeOK, script
<1>5. ASSUME NEW u \in Tasks,
             Receive(u) \/ Acknowledge(u) \/ LockExpires(u)
      PROVE  /\ TypeOK'
             /\ UNCHANGED << script, run, ti >>
             /\ \A t \in Tasks :
                  /\ msg'[t] # "none" => msg[t] # "none"
                  /\ deliveries'[t] >= deliveries[t]
                  /\ ti[t] = "none" => deliveries'[t] = 0
                  /\ msg'[t] = "ready" => deliveries'[t] < MaxDeliveryCount
                  /\ msg'[t] = "locked" => deliveries'[t] > 0
  <2>1. CASE Receive(u)
    <3>1. deliveries[u] < MaxDeliveryCount /\ deliveries[u] \in Nat
          /\ ti[u] # "none"
      BY <1>0, <2>1 DEF TypeOK, Chain, Receive
    <3>2. UNCHANGED << script, airflow, queue, faults, env >>
      BY <2>1 DEF Receive
    <3>3. /\ msg' = [msg EXCEPT ![u] = "locked"]
          /\ deliveries' = [deliveries EXCEPT ![u] = @ + 1]
      BY <2>1 DEF Receive
    <3>4. TypeOK' BY <1>0, <3>1, <3>2, <3>3 DEF TypeOK, airflow, script
    <3>5. /\ msg'[u] = "locked" /\ deliveries'[u] = deliveries[u] + 1
          /\ \A t \in Tasks : t # u => /\ msg'[t] = msg[t]
                                     /\ deliveries'[t] = deliveries[t]
          /\ msg[u] = "ready"
      BY <1>0, <2>1, <3>3 DEF TypeOK, Receive
    <3>6. \A t \in Tasks : deliveries[t] \in Nat BY <1>0 DEF TypeOK
    <3> QED BY <1>0, <3>1, <3>2, <3>4, <3>5, <3>6 DEF Chain, airflow
  <2>2. CASE Acknowledge(u)
    BY <1>0, <2>2 DEF TypeOK, Chain, Acknowledge, airflow, script
  <2>3. CASE LockExpires(u)
    BY <1>0, <2>3 DEF TypeOK, Chain, LockExpires, airflow, script
  <2> QED BY <1>5, <2>1, <2>2, <2>3
<1>6. ASSUME NEW u \in Tasks, Execute(u) \/ TaskEnds(u)
      PROVE  /\ TypeOK'
             /\ UNCHANGED << script, run, msg, deliveries >>
             /\ ti[u] \in {"sent", "running"} /\ deliveries[u] > 0
             /\ ti'[u] \in {"running", "success", "failed"}
             /\ \A t \in Tasks : t # u => ti'[t] = ti[t]
  <2>1. CASE Execute(u)
    BY <1>0, <2>1 DEF TypeOK, Chain, Execute, broker, script
  <2>2. CASE TaskEnds(u)
    <3>1. PICK result \in {"success", "failed"} :
            ti' = [ti EXCEPT ![u] = result]
      BY <2>2 DEF TaskEnds
    <3> QED BY <1>0, <2>2, <3>1 DEF TypeOK, Chain, TaskEnds, broker, script
  <2> QED BY <1>6, <2>1, <2>2
<1>7. CASE \E r \in Runs : SchedulerBackfills(r) \/ StartRun(r) \/ RunEnds(r)
  BY <1>0, <1>3, <1>7 DEF Chain, TasksOf
<1>8. CASE \E t \in Tasks : SendTask(t)
  BY <1>0, <1>4, <1>8 DEF Chain, TasksOf
<1>9. CASE \E t \in Tasks : Receive(t) \/ Acknowledge(t) \/ LockExpires(t)
  BY <1>0, <1>5, <1>9 DEF Chain, TasksOf, TypeOK
<1>10. CASE \E t \in Tasks : Execute(t) \/ TaskEnds(t)
  BY <1>0, <1>6, <1>10 DEF Chain, TasksOf
<1> QED BY <1>1, <1>2, <1>7, <1>8, <1>9, <1>10 DEF Airflow

LEMMA NextIInv == IInv /\ [Next]_vars => IInv'
<1> SUFFICES ASSUME IInv, [Next]_vars PROVE IInv' OBVIOUS
<1>1. CASE Script BY <1>1, ScriptStep
<1>2. CASE Airflow
  <2>1. UNCHANGED << pc, state, passes, verdict >>
    BY <1>2, AirflowStep DEF script
  <2>2. TypeOK' BY <1>2, AirflowStep
  <2>3. Chain'
    BY <1>2, <2>1, AirflowStep, Bounds DEF IInv, Chain, TasksOf
  <2> QED BY <2>2, <2>3 DEF IInv
<1>3. CASE UNCHANGED vars
  BY <1>3 DEF IInv, TypeOK, Chain, TasksOf, vars, script, airflow, broker
<1> QED BY <1>1, <1>2, <1>3 DEF Next, Finished

\* The invariant the results below rest on.
THEOREM Invariance == Spec => []IInv
BY InitIInv, NextIInv, PTL DEF Spec

\* Every variable keeps its type: no message is delivered more often than the
\* queue allows.
THEOREM TypeCorrect == Spec => []TypeOK
<1>1. IInv => TypeOK BY DEF IInv
<1> QED BY Invariance, <1>1, PTL

\* From the first PASS line on every task of the run was delivered and
\* executed.
THEOREM PassIsConsumedAlways == Spec => []PassIsConsumed
<1>1. IInv => PassIsConsumed
  BY Bounds DEF IInv, Chain, PassIsConsumed, TasksOf
<1> QED BY Invariance, <1>1, PTL

-----------------------------------------------------------------------------
(* The script implements the promise of every verification script.        *)

\* What a step of the script can do to what it knows and says.
LEMMA ScriptEffects ==
  ASSUME IInv, Script
  PROVE  /\ UNCHANGED ti
         /\ verdict = "none" /\ passes < 2
         /\ \/ UNCHANGED << state, passes, verdict >>
            \/ UNCHANGED << state, passes >>
               /\ verdict' \notin {"none", "pass"}
            \/ UNCHANGED state /\ state = "success"
               /\ passes' = 2 /\ verdict' = "pass"
            \/ state' = "success" /\ run[Own] = "success"
               /\ passes' = 1 /\ verdict' = "none"
            \/ state = "none" /\ state' = "failed"
               /\ UNCHANGED passes /\ verdict' = "exit_run_failed"
<1>1. Chain BY DEF IInv
<1>2. CASE WaitForWebserver \/ WaitForBrokerQueue \/ RequestRaises
  BY <1>1, <1>2 DEF WaitForWebserver, WaitForBrokerQueue, RequestRaises,
                    Chain, GoTo, Again, Quit, airflow
<1>3. CASE Unpause \/ TriggerRun
  BY <1>1, <1>3 DEF Unpause, TriggerRun, Chain, GoTo
<1>4. CASE WaitForDagRun
  BY <1>1, <1>4 DEF WaitForDagRun, Report, Chain, GoTo, Again, Quit, airflow
<1>5. CASE AssertDrained
  BY <1>1, <1>5 DEF AssertDrained, Chain, Quit, airflow
<1> QED BY <1>2, <1>3, <1>4, <1>5 DEF Script

\* The script implements Showcase, with the success of the run's tasks as the
\* effect and the state wait_for_dag_run returns as the observation.
THEOREM PromiseKept == Spec => KeepsPromise
<1> USE DEF Promise!vars
<1>1. Init => Promise!Init
  BY RunsAssumption DEF Init, Promise!Init, TasksOf
<1>2. IInv /\ [Next]_vars => [Promise!Next]_(Promise!vars)
  <2> SUFFICES ASSUME IInv, [Next]_vars
               PROVE  [Promise!Next]_(Promise!vars)
    OBVIOUS
  <2> DEFINE done == \A t \in TasksOf(Own) : ti[t] = "success"
  <2> USE DEF Promise!Next, Promise!TakeEffect, Promise!Observe,
              Promise!Pass, Promise!Fail
  <2>1. CASE Script
    <3>1. run[Own] = "success" => done
      BY Bounds DEF IInv, Chain
    <3>2. done' <=> done BY <2>1, ScriptEffects DEF TasksOf
    <3> QED BY <2>1, <3>1, <3>2, ScriptEffects
  <2>2. CASE Airflow
    <3>1. done => done' BY <2>2, AirflowStep DEF TasksOf
    <3>2. UNCHANGED << state, passes, verdict >>
      BY <2>2, AirflowStep DEF script
    <3> QED BY <3>1, <3>2
  <2>3. CASE UNCHANGED vars
    BY <2>3 DEF vars, script, airflow, TasksOf
  <2> QED BY <2>1, <2>2, <2>3 DEF Next, Finished
<1> QED BY Invariance, <1>1, <1>2, PTL DEF Spec, KeepsPromise, Promise!Spec
-----------------------------------------------------------------------------
(* A drained queue is never reported as stuck.                             *)

Alone == \A r \in Catchup : run[r] = "absent"

\* With no other run about and locks that are kept, only tasks of the own run
\* have a message, and a message that still waits belongs to a task that has
\* not been started.
Drained ==
  /\ \A t \in Tasks : ti[t] # "none" => RunOf[t] = Own
  /\ \A t \in Tasks : ti[t] \in {"running", "success"} => msg[t] # "ready"
  /\ verdict # "assert_depth"

Kept == ~env.locksExpire /\ ~env.countsLocked /\ Alone => Drained

\* The setup is fixed, and a run that has come up never goes away.
LEMMA NothingForgotten ==
  ASSUME IInv, [Next]_vars
  PROVE  env' = env /\ (Alone' => Alone)
<1>0. TypeOK BY DEF IInv
<1>1. CASE Script
  <2>1. env' = env
    BY <1>1 DEF Script, WaitForWebserver, WaitForBrokerQueue, RequestRaises,
                Unpause, TriggerRun, WaitForDagRun, AssertDrained
  <2>2. CASE TriggerRun
    <3>1. \A r \in Catchup : run'[r] = run[r]
      BY <1>0, <2>2, RunsAssumption, Bounds DEF TriggerRun, TypeOK
    <3> QED BY <2>1, <3>1 DEF Alone
  <2>3. CASE ~TriggerRun
    BY <1>1, <2>1, <2>3
       DEF Alone, Script, WaitForWebserver, WaitForBrokerQueue, RequestRaises,
           Unpause, WaitForDagRun, AssertDrained, airflow
  <2> QED BY <2>2, <2>3
<1>2. ASSUME NEW r \in Runs, SchedulerBackfills(r) \/ StartRun(r) \/ RunEnds(r)
      PROVE  env' = env /\ (Alone' => Alone)
  <2>1. env' = env
    BY <1>2 DEF SchedulerBackfills, StartRun, RunEnds
  <2>2. run'[r] # "absent" /\ \A q \in Runs : q # r => run'[q] = run[q]
    BY <1>0, <1>2 DEF SchedulerBackfills, StartRun, RunEnds, TypeOK
  <2> QED BY <2>1, <2>2, Bounds DEF Alone
<1>3. CASE \/ WebserverStarts \/ WorkerConnects
           \/ \E t \in Tasks : \/ SendTask(t) \/ Receive(t) \/ Execute(t)
                               \/ TaskEnds(t) \/ Acknowledge(t)
                               \/ LockExpires(t)
  BY <1>3 DEF Alone, WebserverStarts, WorkerConnects, SendTask, Receive,
              Execute, TaskEnds, Acknowledge, LockExpires, airflow
<1>4. CASE UNCHANGED vars
  BY <1>4 DEF Alone, vars, airflow
<1> QED BY <1>1, <1>2, <1>3, <1>4 DEF Next, Airflow, Finished

LEMMA ScriptDrained ==
  ASSUME IInv, Script, ~env.countsLocked, Drained
  PROVE  Drained'
<1>0. TypeOK /\ Chain BY DEF IInv
<1>1. UNCHANGED << ti, msg >>
  BY DEF Script, WaitForWebserver, WaitForBrokerQueue, RequestRaises, Unpause,
         TriggerRun, WaitForDagRun, AssertDrained, airflow, broker
<1>2. verdict' # "assert_depth"
  <2>1. CASE AssertDrained
    <3>1. \A t \in TasksOf(Own) : ti[t] = "success"
      BY <1>0, <2>1, Bounds DEF Chain, AssertDrained
    <3>2. {t \in Tasks : msg[t] = "ready"
                           \/ (env.countsLocked /\ msg[t] = "locked")} = {}
      BY <1>0, <3>1 DEF Chain, Drained, TasksOf
    <3>3. Depth = 0 BY <3>2, FS_EmptySet DEF Depth
    <3> QED BY <2>1, <3>3 DEF AssertDrained, Quit
  <2>2. CASE Script /\ ~AssertDrained
    BY <2>2 DEF Script, WaitForWebserver, WaitForBrokerQueue, RequestRaises,
                Unpause, TriggerRun, WaitForDagRun, Report, GoTo, Again, Quit,
                Drained
  <2> QED BY <2>1, <2>2
<1> QED BY <1>1, <1>2 DEF Drained

LEMMA AirflowDrained ==
  ASSUME IInv, Airflow, ~env.locksExpire, Alone, Drained
  PROVE  Drained'
<1>0. TypeOK /\ Chain BY DEF IInv
<1>1. verdict' = verdict BY AirflowStep DEF script
<1>2. CASE \/ WebserverStarts \/ WorkerConnects
           \/ \E r \in Runs : SchedulerBackfills(r) \/ StartRun(r)
                              \/ RunEnds(r)
  BY <1>1, <1>2 DEF Drained, WebserverStarts, WorkerConnects,
                    SchedulerBackfills, StartRun, RunEnds, broker
<1>3. ASSUME NEW u \in Tasks, SendTask(u) PROVE Drained'
  <2>1. RunOf[u] = Own
    BY <1>3, Bounds DEF SendTask, Alone, Runs
  <2>2. \A t \in Tasks : t # u => ti'[t] = ti[t] /\ msg'[t] = msg[t]
    BY <1>0, <1>3 DEF SendTask, TypeOK
  <2>3. ti'[u] \in {"sent", "failed"}
    BY <1>0, <1>3 DEF SendTask, TypeOK
  <2> QED BY <1>1, <2>1, <2>2, <2>3 DEF Drained
<1>4. ASSUME NEW u \in Tasks, Receive(u) \/ Acknowledge(u) PROVE Drained'
  <2>1. msg'[u] # "ready" /\ \A t \in Tasks : t # u => msg'[t] = msg[t]
    BY <1>0, <1>4 DEF Receive, Acknowledge, TypeOK
  <2>2. ti' = ti
    BY <1>4 DEF Receive, Acknowledge, airflow
  <2> QED BY <1>1, <2>1, <2>2 DEF Drained
<1>5. ASSUME NEW u \in Tasks, Execute(u) \/ TaskEnds(u) PROVE Drained'
  <2>1. \A t \in Tasks : t # u => ti'[t] = ti[t]
    BY <1>0, <1>5 DEF Execute, TaskEnds, TypeOK
  <2>2. msg' = msg /\ ti[u] # "none"
    BY <1>5 DEF Execute, TaskEnds, broker
  <2>3. msg[u] # "ready"
    BY <1>5 DEF Execute, TaskEnds, Drained
  <2> QED BY <1>1, <2>1, <2>2, <2>3 DEF Drained
<1>6. ASSUME NEW u \in Tasks, LockExpires(u) PROVE Drained'
  BY <1>6 DEF LockExpires
<1> QED BY <1>2, <1>3, <1>4, <1>5, <1>6 DEF Airflow

\* A depth that is not zero has a cause: a lock that ran out, a count of
\* locked messages, or the message of a backfilled run.
THEOREM NeverStuckFalsely == Spec => []NeverFalselyStuck
<1>1. Init => Kept
  BY DEF Init, Kept, Drained
<1>2. IInv /\ Kept /\ [Next]_vars => Kept'
  <2> SUFFICES ASSUME IInv, Kept, [Next]_vars,
                      ~env'.locksExpire, ~env'.countsLocked, Alone'
               PROVE  Drained'
    BY DEF Kept
  <2>1. ~env.locksExpire /\ ~env.countsLocked /\ Alone
    BY NothingForgotten
  <2>2. Drained BY <2>1 DEF Kept
  <2>3. CASE UNCHANGED vars
    BY <2>2, <2>3 DEF Drained, vars, script, airflow, broker
  <2> QED BY <2>1, <2>2, <2>3, ScriptDrained, AirflowDrained
          DEF Next, Finished
<1>3. Kept => NeverFalselyStuck
  BY DEF Kept, Alone, Drained, NeverFalselyStuck
<1> QED BY Invariance, <1>1, <1>2, <1>3, PTL DEF Spec

-----------------------------------------------------------------------------
(* The script ends after a bounded number of steps.                        *)

\* The stages that lie ahead, and the probes before the deadline of a wait.
Stage ==
  CASE pc = "web" -> 6
    [] pc = "queue" -> 5
    [] pc = "unpause" -> 4
    [] pc = "post" -> 3
    [] pc = "dag" -> 2
    [] pc = "depth" -> 1
    [] OTHER -> 0

Within == IF pc \in {"web", "queue", "dag"} THEN Budget - polls ELSE 0

Width == Budget + 1

Remaining == Left(Stage, Width, Within)
MostSteps == Left(6, Width, Width)

Placed ==
  /\ Stage \in 0..6
  /\ Within \in 0..(Width - 1)
  /\ Stage = 0 <=> pc = "end"
  /\ Stage = 0 => Within = 0

LEMMA Places ==
  ASSUME TypeOK
  PROVE  Placed
<1>1. Budget - polls \in 0..Budget
  BY Bounds DEF TypeOK
<1>2. Stage \in 0..6 /\ (Stage = 0 <=> pc = "end")
  BY DEF Stage, TypeOK, Labels
<1>3. Within \in 0..(Width - 1) /\ (Stage = 0 => Within = 0)
  BY <1>1, <1>2, Bounds DEF Within, Width
<1> QED BY <1>2, <1>3 DEF Placed

\* Every step of the script takes it to a later stage or nearer to the end of
\* the present one.
LEMMA ScriptAdvances ==
  ASSUME IInv, Script
  PROVE  \/ Stage' < Stage
         \/ Stage' = Stage /\ Within' < Within
<1> USE Bounds
<1>0. Chain /\ polls \in 0..Budget
  BY DEF IInv, TypeOK
<1>1. CASE WaitForWebserver \/ WaitForBrokerQueue
  BY <1>0, <1>1 DEF WaitForWebserver, WaitForBrokerQueue, GoTo, Again, Quit,
                    Stage, Within
<1>2. CASE RequestRaises \/ AssertDrained
  BY <1>2 DEF RequestRaises, AssertDrained, Quit, Stage
<1>3. CASE Unpause \/ TriggerRun
  BY <1>3 DEF Unpause, TriggerRun, GoTo, Stage
<1>4. CASE WaitForDagRun
  BY <1>0, <1>4 DEF WaitForDagRun, Report, GoTo, Again, Quit, Stage, Within
<1> QED BY <1>1, <1>2, <1>3, <1>4 DEF Script

\* The script ends after at most MostSteps steps of its own, whatever Airflow,
\* the queue and the faults do: every step of it takes at least one from what
\* remains, nothing adds to it, and the verdict is reached exactly when
\* nothing remains.
THEOREM ScriptIsBounded ==
  Spec => /\ [](/\ Remaining \in 0..MostSteps
                /\ Remaining = 0 <=> verdict # "none")
          /\ [][/\ Remaining' <= Remaining
                /\ Script => Remaining' < Remaining]_vars
<1>0. Width \in Nat \ {0} /\ 6 \in Nat
  BY Bounds DEF Width
<1>1. IInv => Placed
  BY Places DEF IInv
<1>2. IInv /\ Placed =>
        Remaining \in 0..MostSteps /\ (Remaining = 0 <=> verdict # "none")
  <2> SUFFICES ASSUME IInv, Placed
               PROVE  /\ Remaining \in 0..MostSteps
                      /\ Remaining = 0 <=> verdict # "none"
    OBVIOUS
  <2>1. Stage \in 0..6 /\ Within \in 0..Width
    BY <1>0 DEF Placed
  <2>2. Remaining \in 0..MostSteps
    BY <1>0, <2>1, LeftBounds DEF Remaining, MostSteps
  <2>3. Remaining = 0 <=> Stage = 0 /\ Within = 0
    BY <1>0, <2>1, LeftIsNone DEF Remaining
  <2> QED BY <2>2, <2>3 DEF Placed, IInv, Chain
<1>3. IInv /\ Placed /\ Placed' /\ [Next]_vars =>
        [/\ Remaining' <= Remaining
         /\ Script => Remaining' < Remaining]_vars
  <2> SUFFICES ASSUME IInv, Placed, Placed', Next
               PROVE  /\ Remaining' <= Remaining
                      /\ Script => Remaining' < Remaining
    BY DEF Remaining
  <2>1. /\ Stage \in Nat /\ Within \in Nat /\ Within \in 0..Width
        /\ Stage' \in Nat /\ Within' \in Nat /\ Within' \in 0..(Width - 1)
        /\ Width' = Width
    BY <1>0 DEF Placed, Width
  <2>2. Remaining \in Nat /\ Remaining' \in Nat
    BY <1>0, <2>1, LeftType DEF Remaining
  <2>3. CASE Script
    <3>1. Remaining' < Remaining
      BY <1>0, <2>1, <2>3, ScriptAdvances, LeftFalls DEF Remaining
    <3> QED BY <2>2, <3>1
  <2>4. CASE ~Script
    <3>1. UNCHANGED script
      BY <2>4, AirflowStep DEF Next, Finished, vars
    <3> QED BY <2>2, <2>4, <3>1 DEF script, Remaining, Stage, Within, Width
  <2> QED BY <2>3, <2>4
<1> QED BY Invariance, <1>1, <1>2, <1>3, PTL DEF Spec

-----------------------------------------------------------------------------
(* No message circulates for ever.                                         *)

\* The most moves the message of a task can still make: it is sent, and every
\* delivery that is left locks it and may give it back.
Moves(t) ==
  CASE msg[t] = "none" -> 2 * MaxDeliveryCount + 2
    [] msg[t] = "ready" -> 2 * (MaxDeliveryCount - deliveries[t]) + 1
    [] msg[t] = "locked" -> 2 * (MaxDeliveryCount - deliveries[t]) + 2
    [] OTHER -> 0

MovesBound(t) ==
  /\ Moves(t) \in 0..(2 * MaxDeliveryCount + 2)
  /\ Moves(t) = 0 <=> msg[t] \in {"acked", "dead"}

\* A step either leaves a message where it is or uses up one of its moves.
MovesFall(t) ==
  IF msg'[t] = msg[t] THEN Moves(t)' = Moves(t) ELSE Moves(t)' < Moves(t)

LEMMA MessageMoves ==
  ASSUME IInv, NEW t \in Tasks, NEW u \in Tasks,
         SendTask(u) \/ Receive(u) \/ Acknowledge(u) \/ LockExpires(u)
  PROVE  MovesFall(t)
<1> USE Bounds
<1>0. /\ msg \in [Tasks -> {"none", "ready", "locked", "acked", "dead"}]
      /\ deliveries \in [Tasks -> 0..MaxDeliveryCount]
      /\ deliveries[u] \in Nat /\ MaxDeliveryCount - deliveries[u] \in Nat
      /\ Chain
  BY DEF IInv, TypeOK
<1>1. CASE t # u
  <2>1. msg'[t] = msg[t] /\ deliveries'[t] = deliveries[t]
    BY <1>0, <1>1 DEF SendTask, Receive, Acknowledge, LockExpires
  <2> QED BY <2>1 DEF MovesFall, Moves
<1>2. CASE t = u
  <2>1. CASE SendTask(u)
    <3>1. msg[u] = "none" /\ deliveries[u] = 0 /\ UNCHANGED deliveries
      BY <1>0, <2>1 DEF SendTask, Chain
    <3>2. msg'[u] \in {"none", "ready"}
      BY <1>0, <2>1, <3>1 DEF SendTask
    <3> QED BY <1>2, <3>1, <3>2 DEF MovesFall, Moves
  <2>2. CASE Receive(u)
    <3>1. msg[u] = "ready" /\ deliveries[u] < MaxDeliveryCount
      BY <1>0, <2>2 DEF Receive, Chain
    <3>2. msg'[u] = "locked" /\ deliveries'[u] = deliveries[u] + 1
      BY <1>0, <2>2 DEF Receive
    <3> QED BY <1>0, <1>2, <3>1, <3>2 DEF MovesFall, Moves
  <2>3. CASE Acknowledge(u)
    <3>1. msg[u] = "locked" /\ msg'[u] = "acked"
      BY <1>0, <2>3 DEF Acknowledge
    <3> QED BY <1>0, <1>2, <3>1 DEF MovesFall, Moves
  <2>4. CASE LockExpires(u)
    <3>1. msg[u] = "locked" /\ msg'[u] \in {"ready", "dead"}
          /\ deliveries' = deliveries
      BY <1>0, <2>4 DEF LockExpires
    <3> QED BY <1>0, <1>2, <3>1 DEF MovesFall, Moves
  <2> QED BY <2>1, <2>2, <2>3, <2>4
<1> QED BY <1>1, <1>2

\* Nothing but the executor and the queue moves a message.
LEMMA MessageStays ==
  ASSUME Next, \A u \in Tasks : ~(\/ SendTask(u) \/ Receive(u)
                                  \/ Acknowledge(u) \/ LockExpires(u))
  PROVE  UNCHANGED << msg, deliveries >>
<1>1. CASE Script
  BY <1>1 DEF Script, WaitForWebserver, WaitForBrokerQueue, RequestRaises,
              Unpause, TriggerRun, WaitForDagRun, AssertDrained, broker
<1>2. CASE Airflow
  BY <1>2 DEF Airflow, WebserverStarts, WorkerConnects, SchedulerBackfills,
              StartRun, RunEnds, Execute, TaskEnds, broker
<1> QED BY <1>1, <1>2 DEF Next, Finished, vars, broker

\* A message moves at most 2 * MaxDeliveryCount + 2 times in all, however its
\* locks run out and whatever is delivered twice, and has then been
\* acknowledged or used up.
THEOREM NoMessageCirculates ==
  ASSUME NEW t \in Tasks
  PROVE  Spec => []MovesBound(t) /\ [][MovesFall(t)]_vars
<1>1. IInv => MovesBound(t)
  <2> SUFFICES ASSUME IInv PROVE MovesBound(t)
    OBVIOUS
  <2>1. /\ MaxDeliveryCount - deliveries[t] \in 0..MaxDeliveryCount
        /\ msg[t] \in {"none", "ready", "locked", "acked", "dead"}
    BY Bounds DEF IInv, TypeOK
  <2> QED BY <2>1, Bounds DEF MovesBound, Moves
<1>2. IInv /\ [Next]_vars => [MovesFall(t)]_vars
  <2> SUFFICES ASSUME IInv, Next PROVE MovesFall(t)
    OBVIOUS
  <2>1. CASE \E u \in Tasks : \/ SendTask(u) \/ Receive(u)
                              \/ Acknowledge(u) \/ LockExpires(u)
    BY <2>1, MessageMoves
  <2>2. CASE ~(\E u \in Tasks : \/ SendTask(u) \/ Receive(u)
                                \/ Acknowledge(u) \/ LockExpires(u))
    <3>1. UNCHANGED << msg, deliveries >>
      BY <2>2, MessageStays
    <3> QED BY <3>1 DEF MovesFall, Moves
  <2> QED BY <2>1, <2>2
<1> QED BY Invariance, <1>1, <1>2, PTL DEF Spec
=============================================================================
