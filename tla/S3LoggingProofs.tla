-------------------------- MODULE S3LoggingProofs ---------------------------
(***************************************************************************)
(* What S3Logging promises for every number of runs, lines, probes and     *)
(* faults, and for every setup of the stack.                               *)
(***************************************************************************)
EXTENDS S3Logging, Counting, FiniteSetTheorems

\* The evidence the script holds at every point of its way.
Evidence ==
  /\ azLog # NoObject => obj # NoObject
  /\ pc \in {"cmp", "rm"} => azLog # NoObject
  /\ round = 2 => azLog # NoObject /\ ~local
  /\ round = 2 /\ pc \in {"az", "cmp"} => apiLog.from = "remote"
  /\ round = 2 => pc \in {"api", "az", "cmp", "end"}
  /\ verdict = "pass" => round = 2 /\ apiLog.from = "remote"
  /\ verdict # "none" <=> pc = "end"
  /\ Own \notin strays
  /\ pc \in {"web", "unpause", "list", "clear", "post"} =>
       run[Own] = "absent"

IInv == TypeOK /\ Evidence

-----------------------------------------------------------------------------
\* The bounds leave room for a first probe, and no length is "no object".
LEMMA Bounds ==
  /\ Lines \in Nat /\ Budget \in Nat \ {0} /\ MaxFaults \in Nat
  /\ NoObject \notin Nat
  /\ Own \in Runs /\ Catchup \subseteq Runs /\ Prior \subseteq Runs
BY BoundsAssumption DEF Runs

\* A body is never longer once it has been carried, and is never "no object".
LEMMA CarriedLines ==
  ASSUME NEW n \in 0..Lines
  PROVE  Carried(n) \subseteq 0..Lines /\ NoObject \notin Carried(n)
BY Bounds DEF Carried

\* What the webserver serves is a text, and is remote when there is an object.
LEMMA ServedText ==
  ASSUME TypeOK
  PROVE  /\ Served \subseteq Texts
         /\ obj # NoObject => \A t \in Served : t.from = "remote"
<1>1. CASE obj # NoObject
  <2>1. obj \in 0..Lines BY <1>1 DEF TypeOK
  <2>2. Served = [from : {"remote"}, lines : Carried(obj)]
    BY <1>1 DEF Served
  <2> QED BY <2>1, <2>2, CarriedLines DEF Texts
<1>2. CASE obj = NoObject /\ local
  <2>1. Served = {[from |-> "local", lines |-> log]} BY <1>2 DEF Served
  <2> QED BY <1>2, <2>1 DEF Texts, TypeOK
<1>3. CASE obj = NoObject /\ ~local
  <2>1. Served = {[from |-> "nowhere", lines |-> 0]} BY <1>3 DEF Served
  <2> QED BY <1>3, <2>1, Bounds DEF Texts
<1> QED BY <1>1, <1>2, <1>3

-----------------------------------------------------------------------------
LEMMA InitIInv == Init => IInv
<1> SUFFICES ASSUME Init PROVE IInv OBVIOUS
<1>1. TypeOK
  BY Bounds DEF Init, TypeOK, Labels, Failures, RunStates, Texts
<1>2. Evidence BY Bounds, RunsAssumption DEF Init, Evidence
<1> QED BY <1>1, <1>2 DEF IInv

\* No request, and no step of the environment, breaks the invariant.
LEMMA ScriptStep == IInv /\ Script => IInv'
<1> SUFFICES ASSUME IInv, Script PROVE IInv' OBVIOUS
<1> USE Bounds
<1>0. TypeOK /\ Evidence BY DEF IInv
<1>1. CASE WaitForWebserver
  <2>1. TypeOK'
    BY <1>0, <1>1 DEF TypeOK, WaitForWebserver, GoTo, Again, Quit, airflow,
                      Labels, Failures
  <2>2. Evidence'
    BY <1>0, <1>1 DEF Evidence, WaitForWebserver, GoTo, Again, Quit, airflow
  <2> QED BY <2>1, <2>2 DEF IInv
<1>2. CASE RequestRaises
  <2>1. TypeOK'
    BY <1>0, <1>2 DEF TypeOK, RequestRaises, BareCalls, Quit, airflow,
                      Labels, Failures
  <2>2. Evidence'
    BY <1>0, <1>2 DEF Evidence, RequestRaises, BareCalls, Quit, airflow
  <2> QED BY <2>1, <2>2 DEF IInv
<1>3. CASE Unpause
  <2>1. paused' \in BOOLEAN BY <1>3, Zenon DEF Unpause
  <2>2. TypeOK' BY <1>0, <1>3, <2>1 DEF TypeOK, Unpause, GoTo, Labels
  <2>3. Evidence' BY <1>0, <1>3 DEF Evidence, Unpause, GoTo
  <2> QED BY <2>2, <2>3 DEF IInv
<1>4. CASE ListRuns
  <2>1. TypeOK' BY <1>0, <1>4 DEF TypeOK, ListRuns, GoTo, airflow, Labels
  <2>2. Evidence' BY <1>0, <1>4 DEF Evidence, ListRuns, GoTo, airflow
  <2> QED BY <2>1, <2>2 DEF IInv
<1>5. ASSUME NEW r \in Runs, DeleteStray(r) PROVE IInv'
  <2>1. TypeOK' BY <1>0, <1>5 DEF TypeOK, DeleteStray, RunStates
  <2>2. run'[Own] = run[Own] /\ Own \notin strays'
    BY <1>0, <1>5 DEF Evidence, TypeOK, DeleteStray
  <2>3. Evidence' BY <1>0, <1>5, <2>2 DEF Evidence, DeleteStray
  <2> QED BY <2>1, <2>3 DEF IInv
<1>6. CASE StraysCleared
  <2>1. TypeOK'
    BY <1>0, <1>6 DEF TypeOK, StraysCleared, GoTo, airflow, Labels
  <2>2. Evidence' BY <1>0, <1>6 DEF Evidence, StraysCleared, GoTo, airflow
  <2> QED BY <2>1, <2>2 DEF IInv
<1>7. CASE TriggerRun
  <2>1. TypeOK'
    BY <1>0, <1>7 DEF TypeOK, TriggerRun, GoTo, Labels, RunStates
  <2>2. Evidence' BY <1>0, <1>7 DEF Evidence, TriggerRun, GoTo
  <2> QED BY <2>1, <2>2 DEF IInv
<1>8. CASE WaitForDagRun
  <2>1. TypeOK'
    BY <1>0, <1>8 DEF TypeOK, WaitForDagRun, GoTo, Again, Quit, airflow,
                      Labels, Failures
  <2>2. Evidence'
    BY <1>0, <1>8 DEF Evidence, WaitForDagRun, GoTo, Again, Quit, airflow
  <2> QED BY <2>1, <2>2 DEF IInv
<1>9. CASE FetchLogViaApi
  <2>1. apiLog' \in Texts /\ (obj # NoObject => apiLog'.from = "remote")
    BY <1>0, <1>9, ServedText DEF FetchLogViaApi
  <2>2. TypeOK' BY <1>0, <1>9, <2>1 DEF TypeOK, FetchLogViaApi, airflow, Labels
  <2>3. Evidence' BY <1>0, <1>9, <2>1 DEF Evidence, FetchLogViaApi, airflow
  <2> QED BY <2>2, <2>3 DEF IInv
<1>10. CASE FetchLogViaAzurite
  <2>1. CASE obj # NoObject /\ azLog' \in Carried(obj) /\ pc' = "cmp"
             /\ UNCHANGED << polls, verdict >>
    <3>1. azLog' \in 0..Lines /\ azLog' # NoObject
      BY <1>0, <2>1, CarriedLines DEF TypeOK
    <3>2. TypeOK'
      BY <1>0, <1>10, <2>1, <3>1 DEF TypeOK, FetchLogViaAzurite, airflow,
                                     Labels
    <3>3. Evidence'
      BY <1>0, <1>10, <2>1, <3>1 DEF Evidence, FetchLogViaAzurite, airflow
    <3> QED BY <3>2, <3>3 DEF IInv
  <2>2. CASE obj = NoObject /\ Quit("raise_no_such_key") /\ UNCHANGED azLog
    <3>1. TypeOK'
      BY <1>0, <1>10, <2>2 DEF TypeOK, FetchLogViaAzurite, Quit, airflow,
                               Labels, Failures
    <3>2. Evidence'
      BY <1>0, <1>10, <2>2 DEF Evidence, FetchLogViaAzurite, Quit, airflow
    <3> QED BY <3>1, <3>2 DEF IInv
  <2> QED BY <1>10, <2>1, <2>2 DEF FetchLogViaAzurite
<1>11. CASE CompareLogs
  <2>1. TypeOK'
    BY <1>0, <1>11 DEF TypeOK, CompareLogs, GoTo, Again, Quit, airflow,
                       Labels, Failures
  <2>2. Evidence'
    BY <1>0, <1>11 DEF Evidence, TypeOK, CompareLogs, GoTo, Again, Quit,
                       airflow
  <2> QED BY <2>1, <2>2 DEF IInv
<1>12. CASE DeleteLocalLogCopy
  <2>1. local' \in BOOLEAN BY <1>12, Zenon DEF DeleteLocalLogCopy
  <2>2. TypeOK'
    BY <1>0, <1>12, <2>1 DEF TypeOK, DeleteLocalLogCopy, GoTo, Labels
  <2>3. Evidence' BY <1>0, <1>12 DEF Evidence, DeleteLocalLogCopy, GoTo
  <2> QED BY <2>2, <2>3 DEF IInv
<1> QED BY <1>1, <1>2, <1>3, <1>4, <1>5, <1>6, <1>7, <1>8, <1>9, <1>10,
           <1>11, <1>12 DEF Script

\* Airflow never takes an object away, nor brings a local copy back.
LEMMA AirflowStep ==
  ASSUME TypeOK, Airflow
  PROVE  /\ TypeOK'
         /\ UNCHANGED << script, local >>
         /\ obj # NoObject => obj' # NoObject
<1> USE Bounds
<1>1. CASE WebserverStarts
  BY <1>1 DEF TypeOK, WebserverStarts, script
<1>2. ASSUME NEW r \in Runs,
             SchedulerBackfills(r) \/ StartRun(r) \/ OtherRunEnds(r)
      PROVE  /\ TypeOK'
             /\ UNCHANGED << script, local, obj >>
  BY <1>2 DEF TypeOK, SchedulerBackfills, StartRun, OtherRunEnds, script,
              RunStates
<1>3. CASE WriteLine
  BY <1>3 DEF TypeOK, WriteLine, script
<1>4. CASE TaskEnds
  BY <1>4 DEF TypeOK, TaskEnds, script
<1>5. CASE UploadLog
  <2>1. obj' = obj \/ obj' \in Carried(log) BY <1>5 DEF UploadLog
  <2>2. obj' = obj \/ (obj' \in 0..Lines /\ obj' # NoObject)
    BY <2>1, CarriedLines DEF TypeOK
  <2>3. UNCHANGED << script, local >> BY <1>5 DEF UploadLog, script
  <2>4. TypeOK' BY <1>5, <2>2 DEF TypeOK, UploadLog, script
  <2> QED BY <2>2, <2>3, <2>4
<1>6. CASE RunEnds
  BY <1>6 DEF TypeOK, RunEnds, script, RunStates
<1> QED BY <1>1, <1>2, <1>3, <1>4, <1>5, <1>6 DEF Airflow

\* Airflow moves the own run only once it has been triggered, and never
\* deletes it.
LEMMA OwnRunMoves ==
  ASSUME TypeOK, Airflow, run'[Own] # run[Own]
  PROVE  run[Own] \in {"queued", "running"} /\ run'[Own] # "deleted"
<1> USE Bounds DEF TypeOK
<1>1. ASSUME NEW r \in Runs, SchedulerBackfills(r) \/ OtherRunEnds(r)
      PROVE  FALSE
  <2>1. r # Own
    BY <1>1, RunsAssumption DEF SchedulerBackfills, OtherRunEnds
  <2> QED BY <1>1, <2>1 DEF SchedulerBackfills, OtherRunEnds
<1>2. ASSUME NEW r \in Runs, StartRun(r)
      PROVE  run[Own] = "queued" /\ run'[Own] = "running"
  BY <1>2 DEF StartRun
<1>3. CASE RunEnds
  BY <1>3 DEF RunEnds
<1>4. CASE WebserverStarts \/ WriteLine \/ TaskEnds \/ UploadLog
  BY <1>4 DEF WebserverStarts, WriteLine, TaskEnds, UploadLog
<1> QED BY <1>1, <1>2, <1>3, <1>4 DEF Airflow

LEMMA NextIInv == IInv /\ [Next]_vars => IInv'
<1> SUFFICES ASSUME IInv, [Next]_vars PROVE IInv' OBVIOUS
<1>1. CASE Script BY <1>1, ScriptStep
<1>2. CASE Airflow
  <2>1. TypeOK' /\ UNCHANGED << script, local >>
        /\ (obj # NoObject => obj' # NoObject)
    BY <1>2, AirflowStep DEF IInv
  <2>2. run'[Own] = run[Own] \/ run[Own] # "absent"
    BY <1>2, OwnRunMoves DEF IInv
  <2> QED BY <2>1, <2>2 DEF IInv, Evidence, script
<1>3. CASE UNCHANGED vars
  BY <1>3 DEF IInv, TypeOK, Evidence, vars, script, airflow
<1> QED BY <1>1, <1>2, <1>3 DEF Next, Finished

\* The invariant the results below rest on.
THEOREM Invariance == Spec => []IInv
BY InitIInv, NextIInv, PTL DEF Spec

\* Every variable keeps its type: no wait probes beyond its budget.
THEOREM TypeCorrect == Spec => []TypeOK
<1>1. IInv => TypeOK BY DEF IInv
<1> QED BY Invariance, <1>1, PTL

\* PASS is printed only for a log read back from Azurite, whatever the order
\* of the upload, the end of the run, the faults and the script's probes.
THEOREM PassIsRemoteAlways == Spec => []PassIsRemote
<1>1. IInv => PassIsRemote BY DEF IInv, Evidence, PassIsRemote
<1> QED BY Invariance, <1>1, PTL

-----------------------------------------------------------------------------
\* The only copy of the log is never deleted, and neither is the own run.
THEOREM NothingNeededDeleted == Spec => DeletesNothingNeeded
<1>1. IInv /\ [Next]_vars =>
        [/\ local /\ ~local' => obj # NoObject
         /\ run[Own] # "deleted" => run'[Own] # "deleted"]_vars
  <2> SUFFICES ASSUME IInv, [Next]_vars
               PROVE  /\ local /\ ~local' => obj # NoObject
                      /\ run[Own] # "deleted" => run'[Own] # "deleted"
    OBVIOUS
  <2>1. CASE DeleteLocalLogCopy
    BY <2>1 DEF DeleteLocalLogCopy, IInv, Evidence
  <2>2. CASE Airflow
    BY <2>2, AirflowStep, OwnRunMoves DEF IInv, script
  <2>3. ASSUME NEW r \in Runs, DeleteStray(r)
        PROVE  run'[Own] = run[Own] /\ local' = local
    BY <2>3, Bounds DEF DeleteStray, IInv, TypeOK, Evidence
  <2>4. CASE TriggerRun
    BY <2>4, Bounds DEF TriggerRun, IInv, TypeOK
  <2>5. CASE Script /\ ~DeleteLocalLogCopy /\ ~TriggerRun
             /\ ~(\E r \in Runs : DeleteStray(r))
    <3>1. UNCHANGED << local, run >>
      BY <2>5 DEF Script, WaitForWebserver, RequestRaises, Unpause, ListRuns,
                  StraysCleared, WaitForDagRun, FetchLogViaApi,
                  FetchLogViaAzurite, CompareLogs, airflow
    <3> QED BY <3>1
  <2>6. CASE UNCHANGED vars BY <2>6 DEF vars, airflow
  <2> QED BY <2>1, <2>2, <2>3, <2>4, <2>5, <2>6 DEF Next, Finished
<1> QED BY Invariance, <1>1, PTL DEF Spec, DeletesNothingNeeded

-----------------------------------------------------------------------------
(* The script implements the promise of every verification script.        *)

\* What a step of the script can do to the three things the promise is about.
LEMMA ScriptEffects ==
  ASSUME IInv, Script
  PROVE  /\ obj' = obj
         /\ \/ UNCHANGED << azLog, verdict >>
            \/ verdict = "none" /\ verdict' = "none"
               /\ obj # NoObject /\ azLog' # NoObject
            \/ verdict = "none" /\ UNCHANGED azLog
               /\ (verdict' = "pass" => azLog # NoObject)
<1>1. Evidence /\ TypeOK BY DEF IInv
<1>2. CASE FetchLogViaAzurite
  <2>1. obj \in 0..Lines \/ obj = NoObject BY <1>1 DEF TypeOK
  <2> QED BY <1>1, <1>2, <2>1, CarriedLines
          DEF FetchLogViaAzurite, Quit, Evidence, airflow
<1>3. CASE CompareLogs
  BY <1>1, <1>3 DEF CompareLogs, Quit, GoTo, Again, Evidence, airflow
<1>4. CASE WaitForWebserver \/ RequestRaises \/ WaitForDagRun
  BY <1>1, <1>4 DEF WaitForWebserver, RequestRaises, WaitForDagRun, Quit,
                    GoTo, Again, Evidence, BareCalls, airflow
<1>5. CASE \/ Unpause \/ ListRuns \/ (\E r \in Runs : DeleteStray(r))
           \/ StraysCleared \/ TriggerRun \/ FetchLogViaApi
           \/ DeleteLocalLogCopy
  BY <1>5 DEF Unpause, ListRuns, DeleteStray, StraysCleared, TriggerRun,
              FetchLogViaApi, DeleteLocalLogCopy, GoTo, airflow
<1> QED BY <1>2, <1>3, <1>4, <1>5 DEF Script

\* The script implements Showcase, with the object as the effect, the fetch
\* from Azurite as the observation and the verdict as the outcome.
THEOREM PromiseKept == Spec => KeepsPromise
<1> USE DEF Promise!vars
<1>1. Init => Promise!Init
  BY DEF Init, Promise!Init
<1>2. IInv /\ [Next]_vars => [Promise!Next]_(Promise!vars)
  <2> SUFFICES ASSUME IInv, [Next]_vars
               PROVE  [Promise!Next]_(Promise!vars)
    OBVIOUS
  <2> USE DEF Promise!Next, Promise!TakeEffect, Promise!Observe,
              Promise!Pass, Promise!Fail
  <2>1. CASE Script
    BY <2>1, ScriptEffects
  <2>2. CASE Airflow
    BY <2>2, AirflowStep DEF IInv, script
  <2>3. CASE UNCHANGED vars
    BY <2>3 DEF vars, script, airflow
  <2> QED BY <2>1, <2>2, <2>3 DEF Next, Finished
<1> QED BY Invariance, <1>1, <1>2, PTL DEF Spec, KeepsPromise, Promise!Spec

-----------------------------------------------------------------------------
(* Over a proxy that keeps bodies whole, a late upload is reported as a     *)
(* mismatch at a first comparison only.                                    *)

\* The own run executes once; the object is never empty and changes once; a
\* log that was served from it equals it, and from the second comparison on
\* the log is served from it.  Where the upload comes before the end of the
\* run there is no upload left to race by the time the logs are read.
Agreement ==
  /\ task = "teardown" => log > 0
  /\ obj # NoObject => task = "done" /\ obj > 0
  /\ apiLog.from = "remote" => obj # NoObject /\ apiLog.lines = obj
  /\ azLog # NoObject => azLog = obj
  /\ pc = "api" /\ polls > 0 => obj # NoObject
  /\ pc \in {"az", "cmp"} /\ polls > 0 => apiLog.from = "remote"
  /\ run[Own] \in {"absent", "queued"} => task = "idle"
  /\ pc \in {"api", "az", "cmp", "rm"} => run[Own] = "success"
  /\ env.uploadFirst /\ run[Own] = "success" => task = "done"
  /\ env.uploadFirst /\ pc = "az" /\ apiLog.from # "remote" => obj = NoObject
  /\ env.uploadFirst /\ pc = "cmp" => apiLog.from = "remote"
  /\ round = 1 => local
  /\ round = 1 /\ pc \in {"az", "cmp"} => apiLog.from # "nowhere"
  /\ verdict # "assert_empty"
  /\ verdict = "assert_mismatch" => /\ ~env.uploadFirst
                                    /\ round = 1
                                    /\ polls = 0
                                    /\ apiLog.from = "local"

Whole == ~env.lossy => Agreement

LEMMA WholeBodies ==
  ASSUME ~env.lossy, NEW n
  PROVE  Carried(n) = {n}
BY DEF Carried

LEMMA WholeServed ==
  ASSUME ~env.lossy, NEW t \in Served, t.from = "remote"
  PROVE  obj # NoObject /\ t.lines = obj
<1>1. CASE obj # NoObject
  <2>1. Served = [from : {"remote"}, lines : {obj}]
    BY <1>1, WholeBodies DEF Served
  <2> QED BY <1>1, <2>1
<1>2. CASE obj = NoObject /\ local
  <2>1. Served = {[from |-> "local", lines |-> log]} BY <1>2 DEF Served
  <2> QED BY <2>1
<1>3. CASE obj = NoObject /\ ~local
  <2>1. Served = {[from |-> "nowhere", lines |-> 0]} BY <1>3 DEF Served
  <2> QED BY <2>1
<1> QED BY <1>1, <1>2, <1>3

\* While the local copy is there the webserver has a log to serve.
LEMMA LocalServed ==
  ASSUME local, NEW t \in Served
  PROVE  t.from # "nowhere"
<1>1. CASE obj # NoObject
  BY <1>1 DEF Served
<1>2. CASE obj = NoObject
  <2>1. Served = {[from |-> "local", lines |-> log]} BY <1>2 DEF Served
  <2> QED BY <2>1
<1> QED BY <1>1, <1>2

LEMMA ScriptAgreement ==
  ASSUME ~env.lossy, IInv, Agreement, Script
  PROVE  Agreement'
<1>0. /\ TypeOK /\ Evidence
      /\ pc # "end" => verdict = "none"
  BY DEF IInv, Evidence
<1>1. CASE FetchLogViaApi
  <2>1. apiLog'.from = "remote" => obj # NoObject /\ apiLog'.lines = obj
    BY <1>1, WholeServed DEF FetchLogViaApi
  <2>2. obj # NoObject => apiLog'.from = "remote"
    BY <1>0, <1>1, ServedText DEF FetchLogViaApi
  <2>3. local => apiLog'.from # "nowhere"
    BY <1>1, LocalServed DEF FetchLogViaApi
  <2> QED BY <1>0, <1>1, <2>1, <2>2, <2>3
          DEF Agreement, FetchLogViaApi, airflow
<1>2. CASE FetchLogViaAzurite
  <2>1. (azLog' = obj /\ obj # NoObject /\ pc' = "cmp")
        \/ (UNCHANGED azLog /\ pc' = "end" /\ verdict' = "raise_no_such_key")
    BY <1>2, WholeBodies DEF FetchLogViaAzurite, Quit
  <2>2. UNCHANGED << obj, apiLog, polls, round, local, run, task, log, env >>
    BY <1>2 DEF FetchLogViaAzurite, Quit, airflow
  <2>3. verdict' \in {verdict, "raise_no_such_key"}
    BY <1>2 DEF FetchLogViaAzurite, Quit
  <2>4. pc = "az" BY <1>2 DEF FetchLogViaAzurite
  <2> QED BY <2>1, <2>2, <2>3, <2>4 DEF Agreement
<1>3. CASE CompareLogs
  <2>1. azLog = obj /\ obj # NoObject /\ obj > 0
    BY <1>0, <1>3 DEF CompareLogs, Evidence, Agreement
  <2>2. obj \in Nat /\ polls \in Nat /\ apiLog.lines \in Nat
    BY <1>0, <2>1, Bounds DEF TypeOK, Texts
  <2>3. apiLog.from = "remote" => Contained
    BY <2>1, <2>2 DEF Contained, Agreement
  <2>4. Contained => apiLog.lines > 0
    BY <2>1, <2>2 DEF Contained
  <2>5. CASE Contained
    <3>1. \/ GoTo("rm") /\ round = 1
          \/ Quit("pass")
      BY <1>3, <2>2, <2>4, <2>5 DEF CompareLogs
    <3>2. UNCHANGED << round, strays, apiLog, azLog, airflow, faults, env >>
      BY <1>3 DEF CompareLogs
    <3>3. pc = "cmp" BY <1>3 DEF CompareLogs
    <3> QED BY <2>1, <3>1, <3>2, <3>3 DEF Agreement, GoTo, Quit, airflow
  <2>6. CASE ~Contained
    <3>1. apiLog.from # "remote" BY <2>3, <2>6
    <3>2. polls = 0 /\ ~env.uploadFirst
      BY <1>3, <2>2, <3>1 DEF CompareLogs, Agreement
    <3>3. round = 1
      BY <1>0, <1>3, <3>1 DEF CompareLogs, Evidence, TypeOK
    <3>4. apiLog.from = "local"
      BY <1>0, <1>3, <3>1, <3>3 DEF CompareLogs, Agreement, TypeOK, Texts
    <3>5. Again("api") \/ Quit("assert_mismatch")
      BY <1>3, <2>6 DEF CompareLogs
    <3>6. UNCHANGED << round, strays, apiLog, azLog, airflow, faults, env >>
      BY <1>3 DEF CompareLogs
    <3>7. pc = "cmp" /\ verdict = "none" BY <1>0, <1>3 DEF CompareLogs
    <3> QED BY <2>1, <2>2, <3>2, <3>3, <3>4, <3>5, <3>6, <3>7
            DEF Agreement, Again, Quit, airflow
  <2> QED BY <2>5, <2>6
<1>4. CASE WaitForWebserver \/ RequestRaises \/ WaitForDagRun
  BY <1>0, <1>4 DEF Agreement, WaitForWebserver, RequestRaises,
                    WaitForDagRun, BareCalls, Quit, GoTo, Again, airflow
<1>5. CASE Unpause \/ ListRuns \/ StraysCleared \/ DeleteLocalLogCopy
  BY <1>0, <1>5 DEF Agreement, Unpause, ListRuns, StraysCleared,
                    DeleteLocalLogCopy, GoTo, airflow
<1>6. ASSUME NEW r \in Runs, DeleteStray(r) PROVE Agreement'
  <2>1. run'[Own] = run[Own]
    BY <1>0, <1>6, Bounds DEF DeleteStray, Evidence, TypeOK
  <2> QED BY <1>6, <2>1 DEF Agreement, DeleteStray
<1>7. CASE TriggerRun
  <2>1. run'[Own] = "queued" /\ task = "idle"
    BY <1>0, <1>7, Bounds DEF TriggerRun, Agreement, Evidence, TypeOK
  <2> QED BY <1>7, <2>1 DEF Agreement, TriggerRun, GoTo
<1> QED BY <1>1, <1>2, <1>3, <1>4, <1>5, <1>6, <1>7 DEF Script

LEMMA AirflowAgreement ==
  ASSUME ~env.lossy, IInv, Agreement, Airflow
  PROVE  Agreement'
<1>0. TypeOK /\ log \in Nat BY Bounds DEF IInv, TypeOK
<1>1. CASE UploadLog
  <2>1. azLog = NoObject /\ obj = NoObject /\ apiLog.from # "remote"
    BY <1>1 DEF UploadLog, Agreement, IInv, Evidence
  <2>2. obj' = NoObject \/ obj' = log
    BY <1>1, <2>1, WholeBodies DEF UploadLog
  <2> QED BY <1>0, <1>1, <2>1, <2>2 DEF Agreement, UploadLog, script
<1>2. CASE WriteLine
  BY <1>0, <1>2 DEF Agreement, WriteLine, script
<1>3. CASE TaskEnds
  BY <1>3 DEF Agreement, TaskEnds, script
<1>4. ASSUME NEW r \in Runs, StartRun(r) PROVE Agreement'
  <2>1. CASE r = Own
    <3>1. run'[Own] = "running" /\ task = "idle" /\ task' = "exec"
      BY <1>0, <1>4, <2>1 DEF StartRun, Agreement, TypeOK
    <3> QED BY <1>4, <3>1 DEF Agreement, StartRun, script
  <2>2. CASE r # Own
    BY <1>4, <2>2 DEF Agreement, StartRun, script
  <2> QED BY <2>1, <2>2
<1>5. CASE WebserverStarts
  BY <1>5 DEF Agreement, WebserverStarts, script
<1>6. CASE RunEnds
  <2>1. /\ run[Own] = "running"
        /\ run'[Own] \in {"success", "failed"}
        /\ env.uploadFirst /\ run'[Own] = "success" => task = "done"
    BY <1>0, <1>6, Bounds DEF RunEnds, TypeOK
  <2> QED BY <1>6, <2>1 DEF Agreement, RunEnds, script
<1>7. ASSUME NEW r \in Runs, SchedulerBackfills(r) \/ OtherRunEnds(r)
      PROVE  Agreement'
  <2>1. r # Own
    BY <1>7, RunsAssumption DEF SchedulerBackfills, OtherRunEnds
  <2>2. run'[Own] = run[Own]
    BY <1>0, <1>7, <2>1, Bounds DEF SchedulerBackfills, OtherRunEnds, TypeOK
  <2> QED BY <1>7, <2>2 DEF Agreement, SchedulerBackfills, OtherRunEnds,
                            script
<1> QED BY <1>1, <1>2, <1>3, <1>4, <1>5, <1>6, <1>7 DEF Airflow

LEMMA WholeStep ==
  ASSUME IInv, Whole, [Next]_vars
  PROVE  Whole'
<1> SUFFICES ASSUME ~env'.lossy
             PROVE  Agreement'
  BY DEF Whole
<1>1. CASE UNCHANGED vars
  BY <1>1 DEF Whole, Agreement, vars, script, airflow
<1>2. CASE Script
  <2>1. env' = env
    BY <1>2 DEF Script, WaitForWebserver, RequestRaises, Unpause, ListRuns,
                DeleteStray, StraysCleared, TriggerRun, WaitForDagRun,
                FetchLogViaApi, FetchLogViaAzurite, CompareLogs,
                DeleteLocalLogCopy
  <2> QED BY <1>2, <2>1, ScriptAgreement DEF Whole
<1>3. CASE Airflow
  <2>1. env' = env
    BY <1>3 DEF Airflow, WebserverStarts, SchedulerBackfills, StartRun,
                WriteLine, TaskEnds, UploadLog, RunEnds, OtherRunEnds
  <2> QED BY <1>3, <2>1, AirflowAgreement DEF Whole
<1> QED BY <1>1, <1>2, <1>3 DEF Next, Finished

\* A late upload is reported as a mismatch only by a first comparison that it
\* has torn and whose reads have used up the timeout, and never as an empty
\* log.
THEOREM NeverSpurious == Spec => []NoSpuriousMismatch
<1>1. Init => Whole
  BY Bounds, RunsAssumption DEF Init, Whole, Agreement
<1>2. IInv /\ Whole /\ [Next]_vars => Whole'
  BY WholeStep
<1>3. Whole => NoSpuriousMismatch
  BY DEF Whole, Agreement, NoSpuriousMismatch
<1> QED BY Invariance, <1>1, <1>2, <1>3, PTL DEF Spec

-----------------------------------------------------------------------------
(* The script raises no false alarm of its own.                            *)

Undisturbed ==
  env.bucket /\ env.uploadFirst /\ ~env.lossy /\ faults = MaxFaults

\* Without a fault the end of the upload is the object, and a run that has
\* succeeded stays so and has uploaded before.
Calm ==
  /\ task = "done" => obj # NoObject
  /\ run[Own] = "success" => task = "done"
  /\ pc \in {"api", "az", "cmp", "rm"} => run[Own] = "success"
  /\ verdict \in {"none", "pass", "exit_webserver", "exit_run_failed",
                  "exit_run_timeout"}
  /\ verdict = "exit_run_failed" => run[Own] = "failed"

Steady == Undisturbed => Calm

\* What is true of the setup and of the faults that are left was true before.
LEMMA UndisturbedBefore ==
  ASSUME TypeOK, [Next]_vars, Undisturbed'
  PROVE  Undisturbed
<1>1. env' = env /\ (faults' = faults \/ faults' = faults - 1)
  <2>1. CASE Script
    BY <2>1 DEF Script, WaitForWebserver, RequestRaises, Unpause, ListRuns,
                DeleteStray, StraysCleared, TriggerRun, WaitForDagRun,
                FetchLogViaApi, FetchLogViaAzurite, CompareLogs,
                DeleteLocalLogCopy
  <2>2. CASE Airflow
    BY <2>2 DEF Airflow, WebserverStarts, SchedulerBackfills, StartRun,
                WriteLine, TaskEnds, UploadLog, RunEnds, OtherRunEnds
  <2>3. CASE UNCHANGED vars
    BY <2>3 DEF vars
  <2> QED BY <2>1, <2>2, <2>3 DEF Next, Finished
<1> QED BY <1>1, Bounds DEF Undisturbed, TypeOK

LEMMA ScriptCalm ==
  ASSUME IInv, Agreement, Agreement', Script, Undisturbed, faults' = faults,
         Calm
  PROVE  Calm'
<1>0. TypeOK /\ Evidence BY DEF IInv
<1>1. CASE WaitForWebserver \/ WaitForDagRun
  BY <1>1 DEF Calm, WaitForWebserver, WaitForDagRun, GoTo, Again, Quit,
              airflow
<1>2. CASE RequestRaises
  BY <1>0, <1>2, Bounds DEF RequestRaises, TypeOK
<1>3. CASE \/ Unpause \/ ListRuns \/ StraysCleared
           \/ FetchLogViaApi \/ DeleteLocalLogCopy
  BY <1>3 DEF Calm, Unpause, ListRuns, StraysCleared, FetchLogViaApi,
              DeleteLocalLogCopy, GoTo, airflow
<1>4. ASSUME NEW r \in Runs, DeleteStray(r) PROVE Calm'
  <2>1. run'[Own] = run[Own]
    BY <1>0, <1>4, Bounds DEF DeleteStray, Evidence, TypeOK
  <2> QED BY <1>4, <2>1 DEF Calm, DeleteStray
<1>5. CASE TriggerRun
  <2>1. run'[Own] = "queued" /\ verdict = "none"
    BY <1>0, <1>5, Bounds DEF TriggerRun, TypeOK, Evidence
  <2> QED BY <1>5, <2>1 DEF Calm, TriggerRun, GoTo
<1>6. CASE FetchLogViaAzurite
  <2>1. obj # NoObject
    BY <1>6 DEF FetchLogViaAzurite, Calm
  <2> QED BY <1>6, <2>1 DEF Calm, FetchLogViaAzurite, airflow
<1>7. CASE CompareLogs
  <2>1. env' = env /\ UNCHANGED airflow
    BY <1>7 DEF CompareLogs
  <2>2. verdict' \notin {"assert_mismatch", "assert_empty"}
    BY <2>1 DEF Agreement, Undisturbed
  <2>3. verdict' \in {"none", "pass"} /\ run[Own] = "success"
    BY <1>0, <1>7, <2>2 DEF CompareLogs, GoTo, Again, Quit, Evidence, Calm
  <2> QED BY <2>1, <2>3 DEF Calm, airflow
<1> QED BY <1>1, <1>2, <1>3, <1>4, <1>5, <1>6, <1>7 DEF Script

LEMMA AirflowCalm ==
  ASSUME IInv, Agreement, Airflow, Undisturbed, faults' = faults, Calm
  PROVE  Calm'
<1>0. TypeOK BY DEF IInv
<1>1. UNCHANGED << pc, verdict >> BY <1>0, AirflowStep DEF script
<1>2. CASE WebserverStarts \/ WriteLine \/ TaskEnds
  BY <1>1, <1>2 DEF Calm, WebserverStarts, WriteLine, TaskEnds
<1>3. ASSUME NEW r \in Runs,
             SchedulerBackfills(r) \/ StartRun(r) \/ OtherRunEnds(r)
      PROVE  Calm'
  <2>1. CASE r = Own
    <3>1. StartRun(Own)
      BY <1>3, <2>1, RunsAssumption DEF SchedulerBackfills, OtherRunEnds
    <3>2. run[Own] = "queued" /\ run'[Own] = "running" /\ task' = "exec"
      BY <1>0, <3>1, Bounds DEF StartRun, TypeOK
    <3> QED BY <1>1, <3>2 DEF Calm
  <2>2. CASE r # Own
    <3>1. run'[Own] = run[Own] /\ UNCHANGED << task, obj >>
      BY <1>0, <1>3, <2>2, Bounds
         DEF SchedulerBackfills, StartRun, OtherRunEnds, TypeOK
    <3> QED BY <1>1, <3>1 DEF Calm
  <2> QED BY <2>1, <2>2
<1>4. CASE UploadLog
  <2>1. obj' \in Carried(log)
    BY <1>0, <1>4, Bounds DEF UploadLog, Undisturbed, TypeOK
  <2>2. obj' # NoObject
    BY <1>0, <2>1, CarriedLines DEF TypeOK
  <2> QED BY <1>1, <1>4, <2>2 DEF Calm, UploadLog
<1>5. CASE RunEnds
  <2>1. /\ run[Own] = "running"
        /\ run'[Own] \in {"success", "failed"}
        /\ run'[Own] = "success" => task = "done"
    BY <1>0, <1>5, Bounds DEF RunEnds, Undisturbed, TypeOK
  <2> QED BY <1>1, <1>5, <2>1 DEF Calm, RunEnds
<1> QED BY <1>2, <1>3, <1>4, <1>5 DEF Airflow

\* On a stack that works, the script fails only with the webserver or the run.
THEOREM NoFalseAlarm == Spec => []OnlyRealFailures
<1>1. Init => Whole /\ Steady
  BY Bounds, RunsAssumption DEF Init, Whole, Agreement, Steady, Calm
<1>2. IInv /\ Whole /\ Steady /\ [Next]_vars => Whole' /\ Steady'
  <2> SUFFICES ASSUME IInv, Whole, Steady, [Next]_vars
               PROVE  Whole' /\ Steady'
    OBVIOUS
  <2>1. Whole' BY WholeStep
  <2>2. ASSUME Undisturbed' PROVE Calm'
    <3>1. Undisturbed /\ faults' = faults
      BY <2>2, UndisturbedBefore DEF IInv, Undisturbed
    <3>2. Calm /\ Agreement
      BY <3>1 DEF Steady, Whole, Undisturbed
    <3>3. Agreement'
      BY <2>1, <2>2 DEF Whole, Undisturbed
    <3>4. CASE UNCHANGED vars
      BY <3>2, <3>4 DEF Calm, vars, script, airflow
    <3> QED BY <3>1, <3>2, <3>3, <3>4, ScriptCalm, AirflowCalm
            DEF Next, Finished
  <2> QED BY <2>1, <2>2 DEF Steady
<1>3. Steady => OnlyRealFailures
  BY DEF Steady, Undisturbed, Calm, OnlyRealFailures
<1> QED BY Invariance, <1>1, <1>2, <1>3, PTL DEF Spec

-----------------------------------------------------------------------------
(* The script ends after a bounded number of steps.                        *)

\* The stages that lie ahead; the two calls of the comparison are two stages.
Stage ==
  CASE pc = "web" -> 9
    [] pc = "unpause" -> 8
    [] pc = "list" -> 7
    [] pc = "clear" -> 6
    [] pc = "post" -> 5
    [] pc = "dag" -> 4
    [] pc \in {"api", "az", "cmp"} -> 5 - 2 * round
    [] pc = "rm" -> 2
    [] OTHER -> 0

\* The most steps the present stage can still take: the probes before the
\* deadline, the runs to be deleted, or three steps for each comparison.
Within ==
  CASE pc \in {"web", "dag"} -> Budget - polls
    [] pc = "clear" -> Cardinality(strays)
    [] pc = "api" -> 3 * (Budget - polls) + 2
    [] pc = "az" -> 3 * (Budget - polls) + 1
    [] pc = "cmp" -> 3 * (Budget - polls)
    [] OTHER -> 0

Width == 3 * Budget + Cardinality(Runs) + 3

Remaining == Left(Stage, Width, Within)
MostSteps == Left(9, Width, Width)

Placed ==
  /\ Stage \in 0..9
  /\ Width \in Nat \ {0}
  /\ Within \in 0..(Width - 1)
  /\ Stage = 0 <=> pc = "end"
  /\ Stage = 0 => Within = 0

\* Runs are finite, so is what has been listed of them.
LEMMA Listed ==
  ASSUME TypeOK
  PROVE  /\ IsFiniteSet(strays)
         /\ Cardinality(strays) \in 0..Cardinality(Runs)
         /\ Cardinality(Runs) \in Nat
<1>1. strays \subseteq Runs /\ IsFiniteSet(Runs)
  BY RunsAssumption DEF TypeOK
<1> QED BY <1>1, FS_Subset, FS_CardinalityType

\* The variant is a number below its bounds.
LEMMA Places ==
  ASSUME TypeOK
  PROVE  Placed
<1>1. round \in {1, 2} /\ Budget - polls \in 0..Budget
  BY Bounds DEF TypeOK
<1>2. Cardinality(strays) \in 0..Cardinality(Runs)
      /\ Cardinality(Runs) \in Nat
  BY Listed
<1>3. Stage \in 0..9
  BY <1>1 DEF Stage
<1>4. Within \in 0..(Width - 1)
  BY <1>1, <1>2, Bounds DEF Within, Width
<1>5. (Stage = 0 <=> pc = "end") /\ (Stage = 0 => Within = 0)
  BY <1>1 DEF Stage, Within, TypeOK, Labels
<1> QED BY <1>2, <1>3, <1>4, <1>5, Bounds DEF Width, Placed

\* Every step of the script takes it to a later stage or nearer to the end of
\* the present one.
LEMMA ScriptAdvances ==
  ASSUME IInv, Script
  PROVE  \/ Stage' < Stage
         \/ Stage' = Stage /\ Within' < Within
<1> USE Bounds
<1>0. /\ TypeOK /\ Evidence /\ polls \in 0..Budget /\ round \in {1, 2}
      /\ strays \subseteq Runs
  BY DEF IInv, TypeOK
<1>1. CASE WaitForWebserver
  BY <1>0, <1>1 DEF WaitForWebserver, GoTo, Again, Quit, Stage, Within
<1>2. CASE RequestRaises
  BY <1>0, <1>2 DEF RequestRaises, BareCalls, Quit, Stage
<1>3. CASE Unpause \/ ListRuns \/ StraysCleared \/ TriggerRun
  BY <1>3 DEF Unpause, ListRuns, StraysCleared, TriggerRun, GoTo, Stage
<1>4. ASSUME NEW r \in Runs, DeleteStray(r)
      PROVE  Stage' = Stage /\ Within' < Within
  <2>1. pc = "clear" /\ pc' = pc /\ r \in strays /\ strays' = strays \ {r}
    BY <1>4 DEF DeleteStray
  <2>2. Cardinality(strays') = Cardinality(strays) - 1
        /\ Cardinality(strays) \in Nat
    BY <1>0, <2>1, Listed, FS_RemoveElement
  <2> QED BY <2>1, <2>2 DEF Stage, Within
<1>5. CASE WaitForDagRun
  BY <1>0, <1>5 DEF WaitForDagRun, GoTo, Again, Quit, Stage, Within, Evidence
<1>6. CASE FetchLogViaApi
  BY <1>0, <1>6 DEF FetchLogViaApi, Stage, Within
<1>7. CASE FetchLogViaAzurite
  BY <1>0, <1>7 DEF FetchLogViaAzurite, Quit, Stage, Within
<1>8. CASE CompareLogs
  BY <1>0, <1>8 DEF CompareLogs, GoTo, Again, Quit, Stage, Within, Evidence
<1>9. CASE DeleteLocalLogCopy
  BY <1>0, <1>9 DEF DeleteLocalLogCopy, GoTo, Stage
<1> QED BY <1>1, <1>2, <1>3, <1>4, <1>5, <1>6, <1>7, <1>8, <1>9 DEF Script

\* The script ends after at most MostSteps steps of its own, whatever Airflow,
\* the proxy and the faults do: every step of it takes at least one from what
\* remains, nothing adds to it, and the verdict is reached exactly when
\* nothing remains.
THEOREM ScriptIsBounded ==
  Spec => /\ [](/\ Remaining \in 0..MostSteps
                /\ Remaining = 0 <=> verdict # "none")
          /\ [][/\ Remaining' <= Remaining
                /\ Script => Remaining' < Remaining]_vars
<1>1. IInv => Placed
  BY Places DEF IInv
<1>2. IInv /\ Placed =>
        Remaining \in 0..MostSteps /\ (Remaining = 0 <=> verdict # "none")
  <2> SUFFICES ASSUME IInv, Placed
               PROVE  /\ Remaining \in 0..MostSteps
                      /\ Remaining = 0 <=> verdict # "none"
    OBVIOUS
  <2>1. Width \in Nat /\ 9 \in Nat /\ Stage \in 0..9 /\ Within \in 0..Width
    BY DEF Placed
  <2>2. Remaining \in 0..MostSteps
    BY <2>1, LeftBounds DEF Remaining, MostSteps
  <2>3. Remaining = 0 <=> Stage = 0 /\ Within = 0
    BY LeftIsNone DEF Placed, Remaining
  <2> QED BY <2>2, <2>3 DEF Placed, IInv, Evidence
<1>3. IInv /\ Placed /\ Placed' /\ [Next]_vars =>
        [/\ Remaining' <= Remaining
         /\ Script => Remaining' < Remaining]_vars
  <2> SUFFICES ASSUME IInv, Placed, Placed', Next
               PROVE  /\ Remaining' <= Remaining
                      /\ Script => Remaining' < Remaining
    BY DEF Remaining
  <2>0. Remaining \in Nat /\ Remaining' \in Nat /\ Width' = Width
    <3>1. Width' = Width
      BY DEF Width
    <3>2. /\ Stage \in Nat /\ Within \in Nat
          /\ Stage' \in Nat /\ Within' \in Nat /\ Width \in Nat
      BY <3>1 DEF Placed
    <3> QED BY <3>1, <3>2, LeftType DEF Remaining
  <2>1. CASE Script
    <3>1. Remaining' < Remaining
      BY <2>0, <2>1, ScriptAdvances, LeftFalls DEF Placed, Remaining
    <3> QED BY <2>0, <3>1
  <2>2. CASE ~Script
    <3>1. UNCHANGED script
      BY <2>2, AirflowStep DEF Next, Finished, vars, IInv
    <3>2. Remaining' = Remaining
      BY <2>0, <3>1 DEF script, Remaining, Stage, Within
    <3> QED BY <2>0, <2>2, <3>2
  <2> QED BY <2>1, <2>2
<1> QED BY Invariance, <1>1, <1>2, <1>3, PTL DEF Spec
=============================================================================
