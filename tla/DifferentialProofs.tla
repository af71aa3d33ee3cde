------------------------- MODULE DifferentialProofs -------------------------
(***************************************************************************)
(* What Differential promises for every number of executions, probes and   *)
(* faults, whether or not the two stores agree, and how long an execution  *)
(* can take.                                                               *)
(***************************************************************************)
EXTENDS Differential, Counting

\* Without a connection there is no run; a summary is that of the connection.
OwnSummary ==
  /\ conn = "none" => run = "absent" /\ summary = "none"
  /\ summary \in {"none", conn}
  /\ run = "success" => task = TaskCount

\* From airflow-init on, the database is that of the backend at hand.
OwnConnection ==
  /\ pc \in {"airflow", "web", "unpause", "post", "dag", "xcom", "down"} =>
       conn = name
  /\ pc = "xcom" => run = "success"

\* What the script holds when it gets to the comparison.
OwnResults ==
  /\ \A b \in Backends : results[b] \in {"none", b}
  /\ pc \notin {"down", "end"} => pending = "none" /\ results[name] = "none"
  /\ pc # "end" /\ name = First => results[Second] = "none"
  /\ pc # "end" /\ name = Second => results[First] = First
  /\ pc = "down" /\ pending = "none" => results[name] = name
  /\ pc = "down" => pending \notin {"exit_divergence"} \union Abrupt

\* What is on the host when every execution so far has ended in good order.
Tidy ==
  (\A k \in Turns : verdict[k] \notin Abrupt) =>
    /\ pc \in {"up", "end"} => running = {}
    /\ pc = "init" => running \subseteq {name}
    /\ pc \in {"up", "init", "end"} => conn = "none"
    /\ pc # "end" => running \subseteq {name, "airflow"}

Past ==
  /\ \A k \in Turns : k > turn => verdict[k] = "none"
  /\ pc # "end" <=> verdict[turn] = "none"

IInv ==
  /\ TypeOK /\ OwnSummary /\ OwnConnection /\ OwnResults /\ Tidy /\ Past
  /\ SummaryOfWholeRun /\ VerdictIsHonest /\ LeftoverHasCause

-----------------------------------------------------------------------------
LEMMA Bounds ==
  /\ Last \in Nat /\ Last > 0
  /\ Budget \in Nat /\ Budget > 0
  /\ MaxFaults \in Nat
BY DifferentialAssumption

LEMMA InitIInv == Init => IInv
<1> SUFFICES ASSUME Init PROVE IInv OBVIOUS
<1> USE Bounds DEF Init, NoResults, Turns, Backends, First, Second
<1>1. TypeOK
  <2>1. 1 \in 1..Last /\ MaxFaults \in 0..MaxFaults OBVIOUS
  <2>2. results \in [Backends -> Stores] BY DEF Stores
  <2>3. verdict \in [Turns -> {"none", "pass"} \union Failures] OBVIOUS
  <2>4. 0 \in 0..Budget /\ task \in 0..TaskCount BY DEF TaskCount
  <2> QED BY <2>1, <2>2, <2>3, <2>4 DEF TypeOK, Labels, Stores
<1>2. OwnSummary /\ OwnConnection /\ SummaryOfWholeRun
  BY DEF OwnSummary, OwnConnection, SummaryOfWholeRun
<1>3. OwnResults BY DEF OwnResults
<1>4. Tidy /\ Past BY DEF Tidy, Past
<1>5. VerdictIsHonest /\ LeftoverHasCause
  BY DEF VerdictIsHonest, LeftoverHasCause
<1> QED BY <1>1, <1>2, <1>3, <1>4, <1>5 DEF IInv

\* What an ending does, however the execution ends.
LEMMA QuitStep ==
  ASSUME IInv, pc # "end", NEW how \in {"pass"} \union Failures, Quit(how),
         UNCHANGED << turn, results, env >>,
         how = "pass" => ~env.diverges,
         how = "exit_divergence" => env.diverges,
         how = "raise_leftover" =>
           \E j \in 1..(turn - 1) : verdict[j] \in Abrupt
  PROVE  /\ pc' = "end" /\ polls' \in 0..Budget
         /\ pending' \in {"none"} \union Failures
         /\ verdict' \in [Turns -> {"none", "pass"} \union Failures]
         /\ OwnConnection' /\ OwnResults' /\ SummaryOfWholeRun' /\ Past'
         /\ VerdictIsHonest' /\ LeftoverHasCause'
         /\ how \in Abrupt => Tidy'
         /\ how \notin Abrupt =>
              ((\A k \in Turns : verdict'[k] \notin Abrupt) =>
                 \A k \in Turns : verdict[k] \notin Abrupt)
<1> USE Bounds
<1>0. TypeOK /\ OwnResults /\ Past /\ VerdictIsHonest /\ LeftoverHasCause
  BY DEF IInv
<1>1. /\ turn \in Turns /\ turn' = turn /\ env' = env
      /\ verdict \in [Turns -> {"none", "pass"} \union Failures]
  BY <1>0 DEF TypeOK
<1>2. /\ pc' = "end" /\ polls' = 0 /\ pending' = pending
      /\ verdict' = [verdict EXCEPT ![turn] = how]
  BY DEF Quit
<1>3. /\ verdict'[turn] = how
      /\ \A k \in Turns : k # turn => verdict'[k] = verdict[k]
  BY <1>1, <1>2
<1>4. /\ polls' \in 0..Budget /\ pending' \in {"none"} \union Failures
      /\ verdict' \in [Turns -> {"none", "pass"} \union Failures]
  BY <1>0, <1>1, <1>2 DEF TypeOK
<1>5. OwnConnection' /\ SummaryOfWholeRun'
  BY <1>2 DEF OwnConnection, SummaryOfWholeRun
<1>6. OwnResults' BY <1>0, <1>2 DEF OwnResults
<1>7. Past'
  <2>1. \A k \in Turns : k > turn => verdict'[k] = "none"
    <3> SUFFICES ASSUME NEW k \in Turns, k > turn PROVE verdict'[k] = "none"
      OBVIOUS
    <3>1. k # turn BY <1>1 DEF Turns
    <3> QED BY <3>1, <1>0, <1>3 DEF Past
  <2>2. how # "none" BY DEF Failures
  <2> QED BY <2>1, <2>2, <1>1, <1>2, <1>3 DEF Past
<1>8. VerdictIsHonest' BY <1>0, <1>1, <1>3 DEF VerdictIsHonest
<1>9. LeftoverHasCause'
  <2> SUFFICES ASSUME NEW k \in Turns, verdict'[k] = "raise_leftover"
               PROVE  \E j \in 1..(k - 1) : verdict'[j] \in Abrupt
    BY DEF LeftoverHasCause, Abrupt
  <2>1. k <= turn
    <3> SUFFICES ASSUME k > turn PROVE FALSE BY <1>1 DEF Turns
    <3> QED BY <1>7, <1>1 DEF Past
  <2>2. PICK j \in 1..(k - 1) : verdict[j] \in Abrupt
    <3>1. CASE k = turn BY <3>1, <1>3
    <3>2. CASE k # turn
      BY <3>2, <1>0, <1>3 DEF LeftoverHasCause, Abrupt
    <3> QED BY <3>1, <3>2
  <2>3. j \in Turns /\ j # turn BY <2>1, <2>2, <1>1 DEF Turns
  <2>4. verdict'[j] = verdict[j] BY <2>3, <1>3
  <2> QED BY <2>2, <2>4
<1>10. how \in Abrupt => Tidy' BY <1>1, <1>3 DEF Tidy
<1>11. how \notin Abrupt =>
         ((\A k \in Turns : verdict'[k] \notin Abrupt) =>
            \A k \in Turns : verdict[k] \notin Abrupt)
  <2>1. verdict[turn] \notin Abrupt BY <1>0 DEF Past, Abrupt
  <2> QED BY <2>1, <1>3
<1> QED BY <1>2, <1>4, <1>5, <1>6, <1>7, <1>8, <1>9, <1>10, <1>11

\* An execution that goes on says nothing.
LEMMA Silent ==
  ASSUME IInv, UNCHANGED << turn, verdict, env >>, pc # "end", pc' # "end"
  PROVE  Past' /\ VerdictIsHonest' /\ LeftoverHasCause'
BY DEF IInv, Past, VerdictIsHonest, LeftoverHasCause

-----------------------------------------------------------------------------
(* docker compose.                                                         *)

LEMMA ComposeFailsStep == IInv /\ ComposeFails => IInv'
<1> SUFFICES ASSUME IInv, ComposeFails PROVE IInv' OBVIOUS
<1> USE Bounds
<1>1. /\ pc # "end" /\ Quit("raise_compose") /\ faults' \in 0..MaxFaults
      /\ UNCHANGED << turn, name, results, env >>
      /\ UNCHANGED project \/ Remove({name})
  BY DEF ComposeFails, UseFault, IInv, TypeOK
<1>2. /\ pc' = "end" /\ polls' \in 0..Budget
      /\ pending' \in {"none"} \union Failures
      /\ verdict' \in [Turns -> {"none", "pass"} \union Failures]
      /\ OwnConnection' /\ OwnResults' /\ SummaryOfWholeRun' /\ Past'
      /\ VerdictIsHonest' /\ LeftoverHasCause' /\ Tidy'
  BY <1>1, QuitStep DEF Failures, Abrupt
<1>3. CASE UNCHANGED project
  <2>1. TypeOK' /\ OwnSummary'
    BY <1>1, <1>2, <1>3 DEF IInv, TypeOK, OwnSummary, project, dag, Labels
  <2> QED BY <1>2, <2>1 DEF IInv
<1>4. CASE Remove({name})
  <2>1. TypeOK' BY <1>1, <1>2, <1>4 DEF IInv, TypeOK, Remove, Stores, Labels,
                                    TaskCount
  <2>2. OwnSummary' BY <1>4 DEF OwnSummary, Remove
  <2> QED BY <1>2, <2>1, <2>2 DEF IInv
<1> QED BY <1>1, <1>3, <1>4

LEMMA StartStoreStep == IInv /\ StartStore => IInv'
<1> SUFFICES ASSUME IInv, StartStore PROVE IInv' OBVIOUS
<1> USE Bounds DEF StartStore, GoTo, dag
<1>1. Past' /\ VerdictIsHonest' /\ LeftoverHasCause' BY Silent
<1>2. TypeOK' BY DEF IInv, TypeOK, Labels
<1>3. OwnSummary' /\ OwnConnection' /\ OwnResults' /\ SummaryOfWholeRun'
  BY DEF IInv, OwnSummary, OwnConnection, OwnResults, SummaryOfWholeRun
<1>4. Tidy' BY DEF IInv, Tidy
<1> QED BY <1>1, <1>2, <1>3, <1>4 DEF IInv

LEMMA AddConnectionStep == IInv /\ AddConnection => IInv'
<1> SUFFICES ASSUME IInv, AddConnection PROVE IInv' OBVIOUS
<1> USE Bounds DEF AddConnection, GoTo, dag
<1>1. CASE conn = "none" /\ conn' = name /\ GoTo("airflow")
  <2>1. Past' /\ VerdictIsHonest' /\ LeftoverHasCause' BY <1>1, Silent
  <2>2. TypeOK' BY <1>1 DEF IInv, TypeOK, Labels, Stores
  <2>3. OwnSummary' BY <1>1 DEF IInv, TypeOK, OwnSummary, Backends
  <2>4. OwnConnection' /\ OwnResults' /\ SummaryOfWholeRun'
    BY <1>1 DEF IInv, OwnConnection, OwnResults, SummaryOfWholeRun
  <2>5. Tidy' BY <1>1 DEF IInv, Tidy
  <2> QED BY <2>1, <2>2, <2>3, <2>4, <2>5 DEF IInv
<1>2. CASE conn # "none" /\ Quit("raise_leftover") /\ UNCHANGED conn
  <2>1. PICK j \in Turns : verdict[j] \in Abrupt BY <1>2 DEF IInv, Tidy
  <2>2. j \in 1..(turn - 1)
    <3>1. j # turn /\ ~(j > turn) BY <2>1 DEF IInv, Past, Abrupt
    <3> QED BY <3>1 DEF IInv, TypeOK, Turns
  <2>3. /\ pc' = "end" /\ polls' \in 0..Budget
        /\ pending' \in {"none"} \union Failures
        /\ verdict' \in [Turns -> {"none", "pass"} \union Failures]
        /\ OwnConnection' /\ OwnResults' /\ SummaryOfWholeRun' /\ Past'
        /\ VerdictIsHonest' /\ LeftoverHasCause' /\ Tidy'
    BY <1>2, <2>1, <2>2, QuitStep DEF Failures, Abrupt
  <2>4. TypeOK' /\ OwnSummary'
    BY <1>2, <2>3 DEF IInv, TypeOK, OwnSummary, Labels
  <2> QED BY <2>3, <2>4 DEF IInv
<1> QED BY <1>1, <1>2

LEMMA StartAirflowStep == IInv /\ StartAirflow => IInv'
<1> SUFFICES ASSUME IInv, StartAirflow PROVE IInv' OBVIOUS
<1> USE Bounds DEF StartAirflow, GoTo, dag
<1>1. Past' /\ VerdictIsHonest' /\ LeftoverHasCause' BY Silent
<1>2. TypeOK' BY DEF IInv, TypeOK, Labels
<1>3. OwnSummary' /\ OwnConnection' /\ OwnResults' /\ SummaryOfWholeRun'
  BY DEF IInv, OwnSummary, OwnConnection, OwnResults, SummaryOfWholeRun
<1>4. Tidy' BY DEF IInv, Tidy
<1> QED BY <1>1, <1>2, <1>3, <1>4 DEF IInv

\* `finally`
LEMMA TearDownStep == IInv /\ TearDown => IInv'
<1> SUFFICES ASSUME IInv, TearDown PROVE IInv' OBVIOUS
<1> USE Bounds
<1>0. /\ TypeOK /\ OwnSummary /\ OwnConnection /\ OwnResults /\ Tidy
      /\ pc = "down" /\ Remove({name}) /\ NextOrOutcome
      /\ UNCHANGED << turn, results, faults, env >>
  BY DEF IInv, TearDown
<1>1. /\ conn' = "none" /\ run' = "absent" /\ task' = 0 /\ summary' = "none"
      /\ running' \subseteq Backends \union {"airflow"}
      /\ running \subseteq {name, "airflow"} => running' = {}
  BY <1>0 DEF Remove, TypeOK
<1>2. OwnSummary' BY <1>1 DEF OwnSummary
<1>3. CASE pending = "none" /\ name = First /\ name' = Second /\ GoTo("up")
  <2>1. Past' /\ VerdictIsHonest' /\ LeftoverHasCause'
    BY <1>0, <1>3, Silent DEF GoTo
  <2>2. TypeOK'
    BY <1>0, <1>1, <1>3
    DEF TypeOK, GoTo, Labels, Stores, Backends, Second, TaskCount
  <2>3. OwnConnection' /\ SummaryOfWholeRun'
    BY <1>3 DEF GoTo, OwnConnection, SummaryOfWholeRun
  <2>4. OwnResults'
    BY <1>0, <1>3 DEF GoTo, OwnResults, First, Second
  <2>5. Tidy' BY <1>0, <1>1, <1>3 DEF GoTo, Tidy
  <2> QED BY <1>2, <2>1, <2>2, <2>3, <2>4, <2>5 DEF IInv
<1>4. CASE /\ pending # "none" \/ name = Second
           /\ Quit(Outcome) /\ UNCHANGED name
  <2>1. /\ Outcome \in ({"pass"} \union Failures) \ Abrupt
        /\ Outcome = "pass" => ~env.diverges
        /\ Outcome = "exit_divergence" => env.diverges
    <3>1. CASE pending # "none"
      <4>1. Outcome = pending BY <3>1 DEF Outcome
      <4>2. /\ pending \in Failures
            /\ pending \notin {"exit_divergence"} \union Abrupt
        BY <1>0, <3>1 DEF TypeOK, OwnResults
      <4> QED BY <4>1, <4>2 DEF Failures
    <3>2. CASE pending = "none" /\ name = Second
      <4>1. results[First] = First /\ results[Second] = Second
        BY <1>0, <3>2 DEF OwnResults
      <4>2. Identical <=> ~env.diverges
        BY <4>1 DEF Identical, First, Second
      <4>3. Outcome = IF Identical THEN "pass" ELSE "exit_divergence"
        BY <3>2 DEF Outcome
      <4> QED BY <4>2, <4>3 DEF Failures, Abrupt
    <3> QED BY <1>4, <3>1, <3>2
  <2>2. /\ pc' = "end" /\ polls' \in 0..Budget
        /\ pending' \in {"none"} \union Failures
        /\ verdict' \in [Turns -> {"none", "pass"} \union Failures]
        /\ OwnConnection' /\ OwnResults' /\ SummaryOfWholeRun' /\ Past'
        /\ VerdictIsHonest' /\ LeftoverHasCause'
        /\ (\A k \in Turns : verdict'[k] \notin Abrupt) =>
             \A k \in Turns : verdict[k] \notin Abrupt
    BY <1>0, <1>4, <2>1, QuitStep DEF Abrupt
  <2>3. TypeOK'
    BY <1>0, <1>1, <1>4, <2>2 DEF TypeOK, Labels, Stores, TaskCount
  <2>4. Tidy' BY <1>0, <1>1, <2>2 DEF Tidy
  <2> QED BY <1>2, <2>2, <2>3, <2>4 DEF IInv
<1> QED BY <1>0, <1>3, <1>4 DEF NextOrOutcome

-----------------------------------------------------------------------------
(* The body of the `try`.                                                  *)

Trying ==
  \/ WaitForWebserver \/ RequestRaises \/ Unpause \/ TriggerRun
  \/ WaitForDagRun \/ FetchSummary

\* It leaves the stack alone and says nothing.
LEMMA TryingEffects ==
  ASSUME IInv, Trying
  PROVE  /\ pc \in {"web", "unpause", "post", "dag", "xcom"}
         /\ pc' \in {"web", "unpause", "post", "dag", "xcom", "down"}
         /\ polls' \in 0..Budget /\ faults' \in 0..MaxFaults
         /\ UNCHANGED << turn, verdict, name, running, conn, task, summary,
                         env >>
<1> USE Bounds DEF IInv, TypeOK
<1>1. CASE WaitForWebserver
  BY <1>1 DEF WaitForWebserver, GoTo, Again, Leave, project, dag
<1>2. CASE RequestRaises
  BY <1>2 DEF RequestRaises, UseFault, Leave, project, dag
<1>3. CASE Unpause BY <1>3 DEF Unpause, GoTo, project, dag
<1>4. CASE TriggerRun BY <1>4 DEF TriggerRun, GoTo
<1>5. CASE WaitForDagRun
  BY <1>5 DEF WaitForDagRun, GoTo, Again, Leave, project, dag
<1>6. CASE FetchSummary BY <1>6 DEF FetchSummary, GoTo, Leave, project, dag
<1> QED BY <1>1, <1>2, <1>3, <1>4, <1>5, <1>6 DEF Trying

LEMMA TryingStep == IInv /\ Trying => IInv'
<1> SUFFICES ASSUME IInv, Trying PROVE IInv' OBVIOUS
<1> USE Bounds
<1>0. TypeOK /\ OwnSummary /\ OwnConnection /\ OwnResults /\ Tidy BY DEF IInv
<1>1. /\ pc \in {"web", "unpause", "post", "dag", "xcom"}
      /\ pc' \in {"web", "unpause", "post", "dag", "xcom", "down"}
      /\ polls' \in 0..Budget /\ faults' \in 0..MaxFaults
      /\ UNCHANGED << turn, verdict, name, running, conn, task, summary, env >>
  BY TryingEffects
<1>2. pending = "none" /\ results[name] = "none" /\ conn = name
  BY <1>0, <1>1 DEF OwnResults, OwnConnection
<1>3. /\ pc' = "xcom" => run' = "success"
      /\ run' = run \/ run' = "queued"
      /\ \/ /\ UNCHANGED << results, pending >> /\ pc' # "down"
         \/ /\ UNCHANGED results /\ pc' = "down"
            /\ pending' \in Failures \ ({"exit_divergence"} \union Abrupt)
         \/ /\ pc = "xcom" /\ pc' = "down" /\ UNCHANGED << pending, run >>
            /\ summary # "none"
            /\ results' = [results EXCEPT ![name] = summary]
  <2> USE DEF project, dag, GoTo, Again, Leave, Failures, Abrupt
  <2>1. CASE WaitForWebserver BY <2>1 DEF WaitForWebserver
  <2>2. CASE RequestRaises BY <2>2 DEF RequestRaises
  <2>3. CASE Unpause BY <2>3 DEF Unpause
  <2>4. CASE TriggerRun BY <2>4 DEF TriggerRun
  <2>5. CASE WaitForDagRun BY <2>5 DEF WaitForDagRun
  <2>6. CASE FetchSummary BY <2>6 DEF FetchSummary
  <2> QED BY <2>1, <2>2, <2>3, <2>4, <2>5, <2>6 DEF Trying
<1>4. Past' /\ VerdictIsHonest' /\ LeftoverHasCause' BY <1>1, Silent
<1>5. OwnSummary' BY <1>0, <1>1, <1>2, <1>3 DEF OwnSummary, TypeOK, Backends
<1>6. OwnConnection' BY <1>1, <1>2, <1>3 DEF OwnConnection
<1>7. Tidy' BY <1>0, <1>1 DEF Tidy
<1>8. summary # "none" => summary = name BY <1>0, <1>2 DEF OwnSummary
<1>9. /\ results' \in [Backends -> Stores]
      /\ pending' \in {"none"} \union Failures
      /\ OwnResults'
  <2>1. CASE UNCHANGED << results, pending >> /\ pc' # "down"
    BY <2>1, <1>0, <1>1, <1>2 DEF TypeOK, OwnResults
  <2>2. CASE /\ UNCHANGED results /\ pc' = "down"
             /\ pending' \in Failures \ ({"exit_divergence"} \union Abrupt)
    <3>1. pending' # "none" BY <2>2 DEF Failures
    <3> QED BY <2>2, <3>1, <1>0, <1>1 DEF TypeOK, OwnResults
  <2>3. CASE /\ pc = "xcom" /\ pc' = "down" /\ UNCHANGED << pending, run >>
             /\ summary # "none"
             /\ results' = [results EXCEPT ![name] = summary]
    <3>1. /\ name \in Backends /\ results \in [Backends -> Stores]
          /\ summary \in Stores
      BY <1>0 DEF TypeOK
    <3>2. /\ results' \in [Backends -> Stores]
          /\ results'[name] = name
          /\ \A b \in Backends : b # name => results'[b] = results[b]
      BY <2>3, <3>1, <1>8
    <3>3. \A b \in Backends : results'[b] \in {"none", b}
      BY <3>2, <1>0 DEF OwnResults
    <3>4. /\ name = First => results'[Second] = "none"
          /\ name = Second => results'[First] = First
      BY <3>1, <3>2, <1>0, <1>1 DEF OwnResults, First, Second, Backends
    <3>5. pending' = "none" BY <2>3, <1>2
    <3> QED BY <2>3, <3>2, <3>3, <3>4, <3>5, <1>1 DEF OwnResults, Abrupt
  <2> QED BY <1>3, <2>1, <2>2, <2>3
<1>10. SummaryOfWholeRun'
  <2> SUFFICES ASSUME pc' = "down", results'[name] # "none"
               PROVE  task' = TaskCount /\ run' = "success"
    BY <1>1 DEF SummaryOfWholeRun
  <2>1. pc = "xcom" /\ run' = run BY <1>2, <1>3
  <2> QED BY <2>1, <1>0, <1>1 DEF OwnConnection, OwnSummary
<1>11. TypeOK'
  BY <1>0, <1>1, <1>3, <1>9 DEF TypeOK, Labels
<1> QED BY <1>4, <1>5, <1>6, <1>7, <1>9, <1>10, <1>11 DEF IInv

-----------------------------------------------------------------------------
(* Whoever runs the script, and Airflow.                                   *)

LEMMA KilledStep == IInv /\ Killed => IInv'
<1> SUFFICES ASSUME IInv, Killed PROVE IInv' OBVIOUS
<1> USE Bounds
<1>1. /\ pc # "end" /\ Quit("killed") /\ faults' \in 0..MaxFaults
      /\ UNCHANGED << turn, name, results, running, conn, run, task, summary,
                      env >>
  BY DEF Killed, UseFault, IInv, TypeOK, project, dag
<1>2. /\ pc' = "end" /\ polls' \in 0..Budget
      /\ pending' \in {"none"} \union Failures
      /\ verdict' \in [Turns -> {"none", "pass"} \union Failures]
      /\ OwnConnection' /\ OwnResults' /\ SummaryOfWholeRun' /\ Past'
      /\ VerdictIsHonest' /\ LeftoverHasCause' /\ Tidy'
  BY <1>1, QuitStep DEF Failures, Abrupt
<1>3. TypeOK' /\ OwnSummary'
  BY <1>1, <1>2 DEF IInv, TypeOK, OwnSummary, Labels
<1> QED BY <1>2, <1>3 DEF IInv

LEMMA BetweenStep == IInv /\ (SafetyNet \/ RunAgain) => IInv'
<1> SUFFICES ASSUME IInv, SafetyNet \/ RunAgain PROVE IInv' OBVIOUS
<1> USE Bounds
<1>1. CASE SafetyNet
  <2> USE <1>1 DEF SafetyNet, Remove, script
  <2>1. TypeOK' BY DEF IInv, TypeOK, Stores, TaskCount
  <2>2. OwnSummary' /\ OwnConnection' /\ OwnResults' /\ SummaryOfWholeRun'
    BY DEF IInv, OwnSummary, OwnConnection, OwnResults, SummaryOfWholeRun
  <2>3. Tidy' BY DEF IInv, Tidy, TypeOK
  <2>4. Past' /\ VerdictIsHonest' /\ LeftoverHasCause'
    BY DEF IInv, Past, VerdictIsHonest, LeftoverHasCause
  <2> QED BY <2>1, <2>2, <2>3, <2>4 DEF IInv
<1>2. CASE RunAgain
  <2> USE <1>2 DEF RunAgain, project, dag
  <2>1. turn' \in Turns /\ turn' = turn + 1 BY DEF IInv, TypeOK, Turns
  <2>2. TypeOK'
    BY <2>1 DEF IInv, TypeOK, Labels, NoResults, Stores, Backends, First
  <2>3. OwnSummary' /\ OwnConnection' /\ SummaryOfWholeRun'
    BY DEF IInv, OwnSummary, OwnConnection, SummaryOfWholeRun
  <2>4. OwnResults'
    BY DEF OwnResults, NoResults, Backends, First, Second
  <2>5. Tidy' BY DEF IInv, Tidy
  <2>6. Past'
    <3>1. \A k \in Turns : k > turn' => k > turn
      BY <2>1 DEF IInv, TypeOK, Turns
    <3>2. turn' > turn BY <2>1 DEF IInv, TypeOK, Turns
    <3> QED BY <3>1, <3>2, <2>1 DEF IInv, Past
  <2>7. VerdictIsHonest' /\ LeftoverHasCause'
    BY DEF IInv, VerdictIsHonest, LeftoverHasCause
  <2> QED BY <2>2, <2>3, <2>4, <2>5, <2>6, <2>7 DEF IInv
<1> QED BY <1>1, <1>2

LEMMA AirflowStep == IInv /\ Airflow => IInv'
<1> SUFFICES ASSUME IInv, Airflow PROVE IInv' OBVIOUS
<1> USE Bounds
<1>1. /\ run \in {"queued", "running"} /\ conn # "none"
      /\ UNCHANGED << script, running, conn, faults, env >>
  BY DEF IInv, OwnSummary, Airflow, StartRun, TaskSucceeds, RunEnds
<1>2. /\ run' \in {"running", "success", "failed"} /\ task' \in 0..TaskCount
      /\ summary' \in {summary, conn, "none"}
      /\ run' = "success" => task' = TaskCount
  BY DEF IInv, TypeOK, TaskCount, Airflow, StartRun, TaskSucceeds, RunEnds
<1>3. TypeOK' BY <1>1, <1>2 DEF IInv, TypeOK, script, Stores
<1>4. OwnSummary' BY <1>1, <1>2 DEF IInv, OwnSummary
<1>5. OwnConnection' /\ OwnResults' /\ Tidy'
  BY <1>1 DEF IInv, OwnConnection, OwnResults, Tidy, script
<1>6. SummaryOfWholeRun'
  BY <1>1 DEF IInv, SummaryOfWholeRun, script
<1>7. Past' /\ VerdictIsHonest' /\ LeftoverHasCause'
  BY <1>1 DEF IInv, Past, VerdictIsHonest, LeftoverHasCause, script
<1> QED BY <1>3, <1>4, <1>5, <1>6, <1>7 DEF IInv

-----------------------------------------------------------------------------
\* The invariant is inductive.
THEOREM Invariance == Spec => []IInv
<1>1. IInv /\ [Next]_vars => IInv'
  <2> SUFFICES ASSUME IInv, [Next]_vars PROVE IInv' OBVIOUS
  <2>1. CASE UNCHANGED vars
    BY <2>1 DEF IInv, TypeOK, OwnSummary, OwnConnection, OwnResults, Tidy,
                Past, SummaryOfWholeRun, VerdictIsHonest, LeftoverHasCause,
                vars, script, project, dag
  <2>2. CASE Script
    BY <2>2, ComposeFailsStep, StartStoreStep, AddConnectionStep,
       StartAirflowStep, TryingStep, TearDownStep DEF Script, Trying
  <2>3. CASE Killed \/ SafetyNet \/ RunAgain \/ Airflow
    BY <2>3, KilledStep, BetweenStep, AirflowStep
  <2> QED BY <2>1, <2>2, <2>3 DEF Next, Finished
<1> QED BY InitIInv, <1>1, PTL DEF Spec

\* Every variable keeps its type; no wait exceeds its budget.
THEOREM TypeCorrect == Spec => []TypeOK
<1>1. IInv => TypeOK BY DEF IInv
<1> QED BY Invariance, <1>1, PTL

\* PASS is said of stores that agree, divergence of stores that do not,
\* whatever earlier executions have left on the host.
THEOREM HonestAlways == Spec => []VerdictIsHonest
<1>1. IInv => VerdictIsHonest BY DEF IInv
<1> QED BY Invariance, <1>1, PTL

\* What is compared comes from runs that have finished all their tasks.
THEOREM WholeRunsOnly == Spec => []SummaryOfWholeRun
<1>1. IInv => SummaryOfWholeRun BY DEF IInv
<1> QED BY Invariance, <1>1, PTL

\* No execution that could tear its stack down leaves anything, and none meets
\* a leftover without a kill or a failure of docker compose before it.
THEOREM TornDownAlways == Spec => []TornDown
<1>1. IInv => TornDown
  BY DEF IInv, Tidy, TornDown, NothingOutlives, Abrupt
<1> QED BY Invariance, <1>1, PTL

-----------------------------------------------------------------------------
(* Every execution ends after a bounded number of steps.                   *)

\* The stages that lie ahead of it with the backend it is at ...
StageHere ==
  CASE pc = "up" -> 9
    [] pc = "init" -> 8
    [] pc = "airflow" -> 7
    [] pc = "web" -> 6
    [] pc = "unpause" -> 5
    [] pc = "post" -> 4
    [] pc = "dag" -> 3
    [] pc = "xcom" -> 2
    [] OTHER -> 1

\* ... and with the one that follows.
Stage ==
  IF pc = "end" THEN 0
  ELSE StageHere + (IF name = First THEN 9 ELSE 0)

\* The probes before the present stage has to end.
Within == IF pc \in {"web", "dag"} THEN Budget - polls ELSE 0

Width == Budget + 1

Remaining == Left(Stage, Width, Within)
MostSteps == Left(18, Width, Width)

Placed ==
  /\ Stage \in 0..18
  /\ Within \in 0..(Width - 1)
  /\ Stage = 0 <=> pc = "end"
  /\ Stage = 0 => Within = 0

LEMMA Places ==
  ASSUME TypeOK
  PROVE  Placed
<1>1. Budget - polls \in 0..Budget
  BY Bounds DEF TypeOK
<1>2. StageHere \in 1..9
  BY DEF StageHere
<1>3. Stage \in 0..18 /\ (Stage = 0 <=> pc = "end")
  BY <1>2 DEF Stage
<1>4. Within \in 0..(Width - 1) /\ (Stage = 0 => Within = 0)
  BY <1>1, <1>3, Bounds DEF Within, Width
<1> QED BY <1>3, <1>4 DEF Placed

\* Every step of the script, and a kill, takes it to a later stage or nearer
\* to the end of the present one.
LEMMA ScriptAdvances ==
  ASSUME TypeOK, Script \/ Killed
  PROVE  \/ Stage' < Stage
         \/ Stage' = Stage /\ Within' < Within
<1> USE Bounds
<1>0. polls \in 0..Budget /\ StageHere \in 1..9 /\ StageHere' \in 1..9
  BY DEF TypeOK, StageHere
<1>1. CASE ComposeFails \/ Killed
  <2>1. pc # "end" /\ pc' = "end"
    BY <1>1 DEF ComposeFails, Killed, Quit
  <2> QED BY <1>0, <2>1 DEF Stage
<1>2. CASE StartStore \/ AddConnection \/ StartAirflow
  BY <1>2 DEF StartStore, AddConnection, StartAirflow, GoTo, Quit, Stage,
              StageHere
<1>3. CASE WaitForWebserver
  BY <1>0, <1>3 DEF WaitForWebserver, GoTo, Again, Leave, Stage, StageHere,
                    Within
<1>4. CASE RequestRaises \/ Unpause \/ TriggerRun \/ FetchSummary
  BY <1>4 DEF RequestRaises, Unpause, TriggerRun, FetchSummary, GoTo, Leave,
              Stage, StageHere
<1>5. CASE WaitForDagRun
  BY <1>0, <1>5 DEF WaitForDagRun, GoTo, Again, Leave, Stage, StageHere,
                    Within
<1>6. CASE TearDown
  <2>1. CASE pending = "none" /\ name = First /\ name' = Second /\ GoTo("up")
    BY <1>6, <2>1 DEF TearDown, GoTo, Stage, StageHere, First, Second
  <2>2. CASE Quit(Outcome)
    BY <1>0, <1>6, <2>2 DEF TearDown, Quit, Stage
  <2> QED BY <1>6, <2>1, <2>2 DEF TearDown, NextOrOutcome
<1> QED BY <1>1, <1>2, <1>3, <1>4, <1>5, <1>6 DEF Script

\* Airflow, and whoever tidies up, do not move the script.
LEMMA OthersKeepScript == SafetyNet \/ Airflow => UNCHANGED script
BY DEF SafetyNet, Airflow, StartRun, TaskSucceeds, RunEnds

\* An execution ends after at most MostSteps steps of the script, for both
\* backends together, whatever it finds on the host and whatever Airflow does:
\* every step takes at least one from what remains, only the next execution
\* adds to it, and the execution has its verdict exactly when nothing remains.
THEOREM ExecutionsAreBounded ==
  Spec => /\ [](/\ Remaining \in 0..MostSteps
                /\ Remaining = 0 <=> verdict[turn] # "none")
          /\ [][/\ ~RunAgain => Remaining' <= Remaining
                /\ Script => Remaining' < Remaining]_vars
<1>0. Width \in Nat \ {0} /\ 18 \in Nat
  BY Bounds DEF Width
<1>1. IInv => Placed
  BY Places DEF IInv
<1>2. IInv /\ Placed =>
        Remaining \in 0..MostSteps /\ (Remaining = 0 <=> verdict[turn] # "none")
  <2> SUFFICES ASSUME IInv, Placed
               PROVE  /\ Remaining \in 0..MostSteps
                      /\ Remaining = 0 <=> verdict[turn] # "none"
    OBVIOUS
  <2>1. Stage \in 0..18 /\ Within \in 0..Width
    BY <1>0 DEF Placed
  <2>2. Remaining \in 0..MostSteps
    BY <1>0, <2>1, LeftBounds DEF Remaining, MostSteps
  <2>3. Remaining = 0 <=> Stage = 0 /\ Within = 0
    BY <1>0, <2>1, LeftIsNone DEF Remaining
  <2>4. pc = "end" <=> verdict[turn] # "none"
    BY Bounds DEF IInv, Past
  <2> QED BY <2>2, <2>3, <2>4 DEF Placed
<1>3. IInv /\ Placed /\ Placed' /\ [Next]_vars =>
        [/\ ~RunAgain => Remaining' <= Remaining
         /\ Script => Remaining' < Remaining]_vars
  <2> SUFFICES ASSUME IInv, Placed, Placed', Next
               PROVE  /\ ~RunAgain => Remaining' <= Remaining
                      /\ Script => Remaining' < Remaining
    OBVIOUS
  <2>1. /\ Stage \in Nat /\ Within \in Nat /\ Within \in 0..Width
        /\ Stage' \in Nat /\ Within' \in Nat /\ Within' \in 0..(Width - 1)
        /\ Width' = Width
    BY <1>0 DEF Placed, Width
  <2>2. Remaining \in Nat /\ Remaining' \in Nat
    BY <1>0, <2>1, LeftType DEF Remaining
  <2>3. CASE Script \/ Killed
    <3>1. Remaining' < Remaining
      BY <1>0, <2>1, <2>3, ScriptAdvances, LeftFalls DEF Remaining, IInv
    <3> QED BY <2>2, <3>1
  <2>4. CASE ~Script /\ ~Killed /\ ~RunAgain
    <3>1. UNCHANGED script
      BY <2>4, OthersKeepScript DEF Next, Finished, vars
    <3> QED BY <2>2, <2>4, <3>1
            DEF script, Remaining, Stage, StageHere, Within, Width
  <2> QED BY <2>3, <2>4
<1> QED BY Invariance, <1>1, <1>2, <1>3, PTL DEF Spec
=============================================================================
