--------------------------- MODULE SnsFanoutProofs ---------------------------
(***************************************************************************)
(* Theorems about SnsFanout, for every number of executions, probes and    *)
(* faults: its type invariant, its three safety properties, and a bound on *)
(* the steps of an execution.                                              *)
(*                                                                         *)
(* The messages are indistinguishable, so the argument counts them, run by *)
(* run (Account): a message that is stored and not ready was received by   *)
(* some execution, and each execution that has completed one took it away  *)
(* for good.  That a subscription is empty then says that every run that   *)
(* has stored a message gave one to an execution, which leaves one run too *)
(* many for the executions before.                                         *)
(***************************************************************************)
EXTENDS SnsFanout, Counting, FiniteSetTheorems

\* The executions that have received a message of run k, and those that have
\* completed it.
Took(k) == {j \in Turns : got[j] = k}
Done(k) ==
  {j \in Took(k) : verdict[j] = "pass" \/ (j = turn /\ pc = "check")}

\* Where the executions are.
Place ==
  /\ \A k \in Turns :
       verdict[k] = "none" <=> (k > turn \/ (k = turn /\ pc # "end"))
  /\ \A k \in Turns :
       k > turn \/ (k = turn /\ pc \in {"web", "amqp", "unpause", "post"}) =>
         got[k] = Nothing /\ run[k] = "absent"
  /\ pc \in {"dag", "logs", "receive"} => got[turn] = Nothing
  /\ pc \in {"complete", "check"} => got[turn] # Nothing
  /\ pc = "receive" => run[turn] = "success"
  /\ \A k \in Turns : verdict[k] = "pass" => got[k] # Nothing
  /\ \A k \in Turns :
       got[k] # Nothing => run[k] = "success" /\ stored[got[k]] > 0

\* What the tasks of a run have done.
Sent ==
  \A k \in Turns :
    /\ run[k] \in {"absent", "queued"} => boot[k] = "none"
    /\ boot[k] # "success" => pub[k] = "none"
    /\ boot[k] = "success" => subscribed
    /\ run[k] = "success" => pub[k] = "success"
    /\ pub[k] = "none" => stored[k] = 0
    /\ pub[k] = "success" /\ ~env.drops => stored[k] > 0
    /\ faults = MaxFaults => stored[k] <= 1

\* Where the messages of a run are.
Account ==
  \A k \in Turns :
    /\ ready[k] + locked[k] <= stored[k]
    /\ stored[k] - ready[k] <= Cardinality(Took(k))
    /\ Cardinality(Done(k)) <= stored[k] - ready[k] - locked[k]

\* While all has gone well an execution has received its own message.
Own ==
  faults = MaxFaults =>
    \A k \in Turns :
      got[k] # Nothing /\ (\A j \in 1..(k - 1) : verdict[j] = "pass")
        => got[k] = k

IInv == TypeOK /\ Place /\ Sent /\ Account /\ NeverFalselyMissing /\ Own

-----------------------------------------------------------------------------
(* Counting.                                                               *)

LEMMA Bounds ==
  /\ Last \in Nat /\ Last > 0
  /\ Budget \in Nat /\ Budget > 0
  /\ MaxFaults \in Nat
BY SnsAssumption

\* Executions are numbers, and finitely many.
LEMMA TurnsFinite == IsFiniteSet(Turns) /\ Turns \subseteq Nat /\ 1 \in Turns
BY Bounds, FS_Interval DEF Turns

\* So are the counts of messages ...
LEMMA Numbers ==
  ASSUME TypeOK
  PROVE  \A k \in Turns :
           ready[k] \in 0..2 /\ locked[k] \in 0..2 /\ stored[k] \in 0..2
BY DEF TypeOK

\* ... and those of executions.
LEMMA Counts ==
  ASSUME NEW k
  PROVE  /\ IsFiniteSet(Took(k)) /\ Cardinality(Took(k)) \in Nat
         /\ IsFiniteSet(Done(k)) /\ Cardinality(Done(k)) \in Nat
<1>1. Took(k) \in SUBSET Turns /\ Done(k) \in SUBSET Turns
  BY DEF Took, Done
<1> QED
  BY <1>1, TurnsFinite, FS_Subset, FS_CardinalityType

\* An empty subscription: as many executions have received a message as there
\* are runs that have stored one, at least.
LEMMA EmptyMeansTaken ==
  ASSUME TypeOK, Account, \A k \in Turns : ready[k] = 0,
         \A k \in Turns : got[k] # Nothing => stored[got[k]] > 0
  PROVE  /\ IsFiniteSet({k \in Turns : stored[k] > 0})
         /\ IsFiniteSet({k \in Turns : got[k] # Nothing})
         /\ Cardinality({k \in Turns : stored[k] > 0})
              <= Cardinality({k \in Turns : got[k] # Nothing})
<1> DEFINE Senders == {k \in Turns : stored[k] > 0}
           Takers == {k \in Turns : got[k] # Nothing}
           f == [j \in Takers |-> got[j]]
<1>1. IsFiniteSet(Senders) /\ IsFiniteSet(Takers)
  <2>1. Senders \in SUBSET Turns /\ Takers \in SUBSET Turns
    OBVIOUS
  <2> QED
    BY <2>1, TurnsFinite, FS_Subset
<1>2. f \in [Takers -> Senders]
  BY DEF TypeOK
<1>3. ASSUME NEW k \in Senders
      PROVE  \E j \in Takers : f[j] = k
  <2>1. Cardinality(Took(k)) >= 1
    BY Counts DEF Account, TypeOK
  <2>2. Took(k) # {}
    BY <2>1, FS_EmptySet
  <2>3. k # Nothing
    BY TurnsFinite, Bounds DEF Nothing, Turns
  <2> QED
    BY <2>2, <2>3 DEF Took
<1>4. f \in Surjection(Takers, Senders)
  BY <1>2, <1>3 DEF Surjection
<1> QED
  BY <1>1, <1>4, FS_Surjection

\* So a run more than those executions leaves a message to receive.
LEMMA SomethingReady ==
  ASSUME TypeOK, Place, Sent, Account, ~env.drops, pc = "receive"
  PROVE  \E k \in Turns : ready[k] > 0
<1> SUFFICES ASSUME \A k \in Turns : ~(ready[k] > 0)
             PROVE  FALSE
  OBVIOUS
<1> DEFINE Senders == {k \in Turns : stored[k] > 0}
           Takers == {k \in Turns : got[k] # Nothing}
<1>1. \A k \in Turns : ready[k] = 0
  BY DEF TypeOK
<1>2. /\ IsFiniteSet(Senders) /\ IsFiniteSet(Takers)
      /\ Cardinality(Senders) <= Cardinality(Takers)
  BY <1>1, EmptyMeansTaken DEF Place
<1>3. Takers \union {turn} \in SUBSET Senders
  BY DEF TypeOK, Place, Sent
<1>4. turn \notin Takers
  BY DEF Place
<1>5. Cardinality(Takers \union {turn}) = Cardinality(Takers) + 1
  BY <1>2, <1>4, FS_AddElement
<1>6. Cardinality(Takers \union {turn}) <= Cardinality(Senders)
  BY <1>2, <1>3, FS_Subset
<1>7. Cardinality(Takers) \in Nat /\ Cardinality(Senders) \in Nat
  BY <1>2, FS_CardinalityType
<1> QED
  BY <1>2, <1>5, <1>6, <1>7

\* A step that receives and completes nothing keeps the account when it moves
\* messages only towards the subscription.
LEMMA AccountKept ==
  ASSUME TypeOK, TypeOK', Account, got' = got,
         \A k \in Turns : Done(k)' \subseteq Done(k),
         \A k \in Turns :
           /\ ready'[k] + locked'[k] <= stored'[k]
           /\ stored'[k] - ready'[k] <= stored[k] - ready[k]
           /\ stored[k] - ready[k] - locked[k]
                <= stored'[k] - ready'[k] - locked'[k]
  PROVE  Account'
<1> SUFFICES ASSUME NEW k \in Turns
             PROVE  /\ stored'[k] - ready'[k] <= Cardinality(Took(k)')
                    /\ Cardinality(Done(k)')
                         <= stored'[k] - ready'[k] - locked'[k]
  BY DEF Account
<1>1. Took(k)' = Took(k)
  BY DEF Took
<1>2. Cardinality(Done(k)') <= Cardinality(Done(k))
  BY Counts, FS_Subset
<1>3. /\ stored[k] \in Nat /\ ready[k] \in Nat /\ locked[k] \in Nat
      /\ stored'[k] \in Nat /\ ready'[k] \in Nat /\ locked'[k] \in Nat
  <2>1. /\ {stored, ready, locked} \subseteq [Turns -> 0..2]
        /\ {stored', ready', locked'} \subseteq [Turns -> 0..2]
    BY DEF TypeOK
  <2>2. 0..2 \subseteq Nat
    OBVIOUS
  <2> QED
    BY <2>1, <2>2
<1>4. Cardinality(Done(k)') \in Nat
  <2>1. Done(k)' \in SUBSET Done(k) /\ IsFiniteSet(Done(k))
    BY Counts
  <2> QED
    BY <2>1, FS_Subset, FS_CardinalityType
<1> QED
  BY <1>1, <1>2, <1>3, <1>4, Counts DEF Account

LEMMA InvInit == Init => IInv
<1> SUFFICES ASSUME Init
             PROVE  IInv
  OBVIOUS
<1> USE Bounds, TurnsFinite
<1>1. TypeOK
  <2>1. 1 \in Turns /\ 0 \in 0..Budget /\ MaxFaults \in 0..MaxFaults
    OBVIOUS
  <2>2. got \in [Turns -> Turns \union {Nothing}]
    BY DEF Init
  <2>3. /\ verdict \in [Turns -> {"none", "pass"} \union Failures]
        /\ run \in
             [Turns -> {"absent", "queued", "running", "success", "failed"}]
        /\ boot \in [Turns -> {"none", "success", "failed"}]
        /\ pub \in [Turns -> {"none", "success", "failed"}]
        /\ {ready, locked, stored} \subseteq [Turns -> 0..2]
    BY DEF Init
  <2> QED
    BY <2>1, <2>2, <2>3 DEF Init, TypeOK, Labels
<1>2. Place
  BY DEF Init, Place, Turns, Nothing
<1>3. Sent
  BY DEF Init, Sent
<1>4. Account
  <2> SUFFICES ASSUME NEW k \in Turns
               PROVE  /\ stored[k] - ready[k] <= Cardinality(Took(k))
                      /\ Cardinality(Done(k)) <= 0
                      /\ stored[k] = 0 /\ ready[k] = 0 /\ locked[k] = 0
    BY Counts DEF Account
  <2>1. Done(k) = {}
    BY DEF Init, Done, Took, Nothing
  <2>2. stored[k] = 0 /\ ready[k] = 0 /\ locked[k] = 0
    BY DEF Init
  <2> QED
    BY <2>1, <2>2, FS_EmptySet, Counts
<1>5. NeverFalselyMissing /\ Own
  BY DEF Init, NeverFalselyMissing, Own
<1> QED
  BY <1>1, <1>2, <1>3, <1>4, <1>5 DEF IInv

-----------------------------------------------------------------------------
(* Where the executions are.                                               *)

Early == {"web", "amqp", "unpause", "post"}

\* An execution that ends.
LEMMA QuitPlace ==
  ASSUME IInv, pc # "end", NEW how \in Failures \union {"pass"}, Quit(how),
         UNCHANGED << got, run, stored >>,
         how = "pass" => got[turn] # Nothing
  PROVE  Place' /\ verdict' \in [Turns -> {"none", "pass"} \union Failures]
<1> USE DEF IInv
<1>1. /\ turn \in Turns /\ turn' = turn /\ pc' = "end"
      /\ verdict \in [Turns -> {"none", "pass"} \union Failures]
      /\ verdict' = [verdict EXCEPT ![turn] = how]
      /\ how # "none"
  BY DEF TypeOK, Quit, Failures
<1>2. /\ verdict' \in [Turns -> {"none", "pass"} \union Failures]
      /\ verdict'[turn] = how
      /\ \A k \in Turns : k # turn => verdict'[k] = verdict[k]
  BY <1>1
<1>3. \A k \in Turns :
        verdict'[k] = "none" <=> (k > turn' \/ (k = turn' /\ pc' # "end"))
  BY <1>1, <1>2 DEF Place, Turns
<1> QED
  BY <1>1, <1>2, <1>3 DEF Place

\* An execution that goes on.
LEMMA GoingPlace ==
  ASSUME IInv, pc # "end", pc' # "end",
         UNCHANGED << turn, verdict, got, run, stored >>,
         pc' \in Early => pc \in Early,
         pc' \in {"dag", "logs", "receive"} => got[turn] = Nothing,
         pc' \in {"complete", "check"} => got[turn] # Nothing,
         pc' = "receive" => run[turn] = "success"
  PROVE  Place'
BY DEF IInv, Place, Early

-----------------------------------------------------------------------------
(* The steps that receive and complete nothing.                            *)

\* The script moves, and at most a run is triggered or the dag unpaused.
Moves ==
  \/ WaitForWebserver \/ WaitForEmulator \/ RequestRaises \/ Unpause
  \/ TriggerRun \/ WaitForDagRun \/ DumpTaskLogs \/ CheckMessage \/ RunAgain

LEMMA MovesEffects ==
  ASSUME IInv, Moves
  PROVE  /\ UNCHANGED << got, boot, pub, webUp, bus, env >>
         /\ faults' \in {faults, faults - 1} /\ faults' \in 0..MaxFaults
         /\ paused' \in BOOLEAN
         /\ polls' \in 0..Budget
<1> USE Bounds DEF IInv, TypeOK
<1>1. CASE WaitForWebserver \/ WaitForEmulator
  BY <1>1 DEF WaitForWebserver, WaitForEmulator, WaitFor, GoTo, Again, Quit,
              UseFault, airflow
<1>2. CASE RequestRaises
  BY <1>2 DEF RequestRaises, Quit, UseFault, airflow
<1>5. CASE Unpause
  <2>1. paused' \in BOOLEAN
    BY <1>5 DEF Unpause
  <2>2. polls' = 0 /\ UNCHANGED << got, webUp, boot, pub, bus, faults, env >>
    BY <1>5 DEF Unpause, GoTo
  <2> QED
    BY <2>1, <2>2
<1>6. CASE TriggerRun
  BY <1>6 DEF TriggerRun, GoTo
<1>3. CASE WaitForDagRun
  BY <1>3 DEF WaitForDagRun, GoTo, Again, Quit, airflow
<1>4. CASE DumpTaskLogs \/ CheckMessage \/ RunAgain
  BY <1>4 DEF DumpTaskLogs, CheckMessage, RunAgain, Quit, UseFault, airflow
<1> QED
  BY <1>1, <1>2, <1>3, <1>4, <1>5, <1>6 DEF Moves

\* Where it moves to.
LEMMA MovesPlace ==
  ASSUME IInv, Moves
  PROVE  Place'
<1> USE DEF IInv, TypeOK
<1>0. UNCHANGED << got, stored >>
  BY MovesEffects DEF bus
<1>1. CASE WaitForWebserver \/ WaitForEmulator
  <2>1. PICK how \in {"exit_webserver", "exit_emulator"} :
          Quit(how) \/ (pc' \in Early /\ UNCHANGED << turn, verdict >>)
    BY <1>1 DEF WaitForWebserver, WaitForEmulator, WaitFor, GoTo, Again, Early
  <2>2. pc \in Early /\ UNCHANGED run
    BY <1>1 DEF WaitForWebserver, WaitForEmulator, WaitFor, airflow, Early
  <2> QED
    BY <1>0, <2>1, <2>2, QuitPlace, GoingPlace DEF Early, Failures
<1>2. CASE RequestRaises
  BY <1>0, <1>2, QuitPlace DEF RequestRaises, airflow, Failures
<1>3. CASE Unpause
  BY <1>0, <1>3, GoingPlace DEF Unpause, GoTo, Early
<1>4. CASE TriggerRun
  <2>1. /\ turn \in Turns /\ run' = [run EXCEPT ![turn] = "queued"]
        /\ pc = "post" /\ pc' = "dag" /\ UNCHANGED << turn, verdict >>
    BY <1>4 DEF TriggerRun, GoTo
  <2>2. \A k \in Turns : k # turn => run'[k] = run[k]
    BY <2>1
  <2>3. got[turn] = Nothing /\ \A k \in Turns : k \in Nat
    BY <2>1, TurnsFinite DEF Place
  <2> QED
    BY <1>0, <2>1, <2>2, <2>3 DEF Place
<1>5. CASE WaitForDagRun
  <2>1. PICK how \in {"exit_run_timeout"} :
          \/ Quit(how)
          \/ pc' \in {"dag", "logs"} /\ UNCHANGED << turn, verdict >>
          \/ /\ pc' = "receive" /\ run[turn] = "success"
             /\ UNCHANGED << turn, verdict >>
    BY <1>5 DEF WaitForDagRun, GoTo, Again
  <2>2. pc = "dag" /\ UNCHANGED run /\ got[turn] = Nothing
    BY <1>5 DEF WaitForDagRun, airflow, Place
  <2> QED
    BY <1>0, <2>1, <2>2, QuitPlace, GoingPlace DEF Early, Failures
<1>6. CASE DumpTaskLogs
  BY <1>0, <1>6, QuitPlace DEF DumpTaskLogs, airflow, Failures
<1>7. CASE CheckMessage
  <2>1. got[turn] # Nothing
    BY <1>7 DEF CheckMessage, Place
  <2> QED
    BY <1>0, <1>7, <2>1, QuitPlace DEF CheckMessage, airflow, Failures
<1>8. CASE RunAgain
  <2>1. /\ turn' = turn + 1 /\ turn \in Turns /\ pc = "end" /\ pc' = "web"
        /\ UNCHANGED << verdict, got, run, stored >>
    BY <1>8, <1>0 DEF RunAgain, airflow
  <2>2. \A k \in Turns : k \in Nat
    BY TurnsFinite
  <2> QED
    BY <2>1, <2>2 DEF Place
<1> QED
  BY <1>1, <1>2, <1>3, <1>4, <1>5, <1>6, <1>7, <1>8 DEF Moves

\* What it says.
LEMMA MovesVerdict ==
  ASSUME IInv, Moves
  PROVE  /\ pc' \in Labels \ {"complete", "check"} /\ turn' \in Turns
         /\ verdict' \in [Turns -> {"none", "pass"} \union Failures]
         /\ \A j \in Turns : j # turn => verdict'[j] = verdict[j]
         /\ verdict'[turn] = "pass" => verdict[turn] = "pass" \/ pc = "check"
         /\ verdict'[turn] = "exit_no_message" =>
              verdict[turn] = "exit_no_message"
         /\ \/ run' = run
            \/ pc = "post" /\ run' = [run EXCEPT ![turn] = "queued"]
<1> USE DEF IInv
<1>0. /\ verdict \in [Turns -> {"none", "pass"} \union Failures]
      /\ turn \in Turns /\ pc \in Labels
  BY DEF TypeOK
<1>1. CASE WaitForWebserver \/ WaitForEmulator
  BY <1>0, <1>1 DEF WaitForWebserver, WaitForEmulator, WaitFor, GoTo, Again,
                    Quit, airflow, Labels, Failures
<1>2. CASE RequestRaises
  BY <1>0, <1>2 DEF RequestRaises, Quit, airflow, Labels, Failures
<1>3. CASE Unpause
  BY <1>0, <1>3 DEF Unpause, GoTo, Labels
<1>4. CASE TriggerRun
  BY <1>0, <1>4 DEF TriggerRun, GoTo, Labels
<1>5. CASE WaitForDagRun
  BY <1>0, <1>5 DEF WaitForDagRun, GoTo, Again, Quit, airflow, Labels, Failures
<1>6. CASE DumpTaskLogs \/ CheckMessage
  BY <1>0, <1>6 DEF DumpTaskLogs, CheckMessage, Quit, airflow, Labels, Failures
<1>7. CASE RunAgain
  <2>1. turn + 1 \in Turns
    BY <1>0, <1>7, Bounds DEF RunAgain, Turns
  <2> QED
    BY <1>0, <1>7, <2>1 DEF RunAgain, airflow, Labels
<1> QED
  BY <1>1, <1>2, <1>3, <1>4, <1>5, <1>6, <1>7 DEF Moves

LEMMA MovesStep ==
  ASSUME IInv, Moves
  PROVE  IInv'
<1> USE MovesEffects, MovesVerdict DEF IInv
<1>0. /\ got' = got /\ stored' = stored /\ ready' = ready /\ locked' = locked
      /\ boot' = boot /\ pub' = pub /\ subscribed' = subscribed
      /\ env' = env
      /\ faults' = MaxFaults => faults = MaxFaults
  BY Bounds DEF bus, TypeOK
<1>1. TypeOK'
  <2>1. run' \in
          [Turns -> {"absent", "queued", "running", "success", "failed"}]
    BY DEF TypeOK
  <2> QED
    BY <1>0, <2>1 DEF TypeOK, bus
<1>2. Place'
  BY MovesPlace
<1>3. Sent'
  <2>1. run' = run \/ (pc = "post" /\ run[turn] = "absent"
                        /\ run' = [run EXCEPT ![turn] = "queued"])
    BY DEF Place, TypeOK
  <2> QED
    BY <1>0, <2>1 DEF Sent, TypeOK
<1>4. Account'
  <2>1. ASSUME NEW k \in Turns, NEW j \in Done(k)'
        PROVE  j \in Done(k)
    <3>1. /\ j \in Turns /\ got[j] = k
          /\ verdict'[j] = "pass" \/ (j = turn' /\ pc' = "check")
      BY <1>0, <2>1 DEF Done, Took
    <3> QED
      BY <3>1 DEF Done, Took
  <2>2. \A k \in Turns :
          /\ ready[k] \in Nat /\ locked[k] \in Nat /\ stored[k] \in Nat
          /\ ready[k] + locked[k] <= stored[k]
    BY Numbers DEF Account
  <2> QED
    BY <1>0, <1>1, <2>1, <2>2, AccountKept
<1>5. NeverFalselyMissing'
  BY <1>0 DEF NeverFalselyMissing, TypeOK
<1>6. Own'
  <2> SUFFICES ASSUME faults' = MaxFaults, NEW k \in Turns, got[k] # Nothing,
                      \A j \in 1..(k - 1) : verdict'[j] = "pass"
               PROVE  got[k] = k
    BY <1>0 DEF Own
  <2>1. k <= turn /\ k \in Nat /\ turn \in Nat
    BY TurnsFinite DEF Place, TypeOK
  <2>2. \A j \in 1..(k - 1) : j \in Turns /\ j # turn
    BY <2>1, Bounds DEF Turns
  <2>3. \A j \in 1..(k - 1) : verdict[j] = "pass"
    BY <2>2
  <2> QED
    BY <1>0, <2>3 DEF Own
<1> QED
  BY <1>1, <1>2, <1>3, <1>4, <1>5, <1>6

-----------------------------------------------------------------------------
(* Airflow and Service Bus.                                                *)

\* What is left to show of a step of theirs.
LEMMA StackKept ==
  ASSUME IInv, TypeOK', Sent', UNCHANGED << script, env >>,
         faults' = MaxFaults => faults = MaxFaults,
         \A k \in Turns :
           /\ run'[k] = "absent" <=> run[k] = "absent"
           /\ run[k] = "success" => run'[k] = "success"
           /\ stored[k] <= stored'[k]
           /\ ready'[k] + locked'[k] <= stored'[k]
           /\ stored'[k] - ready'[k] <= stored[k] - ready[k]
           /\ stored[k] - ready[k] - locked[k]
                <= stored'[k] - ready'[k] - locked'[k]
  PROVE  IInv'
<1> USE DEF IInv
<1>0. UNCHANGED << turn, pc, got, verdict, env >>
  BY DEF script
<1>1. Place'
  <2>1. \A k \in Turns : got[k] # Nothing => got[k] \in Turns
    BY DEF TypeOK
  <2>2. \A k \in Turns : stored[k] > 0 => stored'[k] > 0
    BY Numbers DEF TypeOK
  <2>3. turn \in Turns
    BY DEF TypeOK
  <2> QED
    BY <1>0, <2>1, <2>2, <2>3 DEF Place
<1>2. Account'
  <2>1. \A k \in Turns : Done(k)' \subseteq Done(k)
    BY <1>0 DEF Done, Took
  <2> QED
    BY <1>0, <2>1, AccountKept
<1>3. NeverFalselyMissing' /\ Own'
  BY <1>0 DEF NeverFalselyMissing, Own
<1> QED
  BY <1>1, <1>2, <1>3

LEMMA StackStep ==
  ASSUME IInv, Stack
  PROVE  IInv'
<1> USE Bounds DEF IInv
<1>0. /\ \A k \in Turns :
           /\ ready[k] \in 0..2 /\ locked[k] \in 0..2 /\ stored[k] \in 0..2
           /\ ready[k] + locked[k] <= stored[k]
      /\ faults \in 0..MaxFaults
  BY Numbers DEF Account, TypeOK
<1>1. CASE StackStarts
  <2>1. webUp' \in BOOLEAN /\ portOpen' \in BOOLEAN
    BY <1>1 DEF StackStarts, TypeOK
  <2>2. UNCHANGED << script, paused, run, boot, pub, subscribed, ready, locked,
                     stored, faults, env >>
    BY <1>1 DEF StackStarts
  <2>3. TypeOK'
    BY <2>1, <2>2 DEF TypeOK, script
  <2>4. Sent'
    BY <2>2 DEF Sent
  <2> QED
    BY <1>0, <2>2, <2>3, <2>4, StackKept
<1>2. ASSUME NEW k \in Turns, StartRun(k) \/ RunEnds(k)
      PROVE  IInv'
  <2>1. UNCHANGED << script, webUp, paused, boot, pub, bus, faults, env >>
    BY <1>2 DEF StartRun, RunEnds
  <2>2. PICK state \in {"running", "success", "failed"} :
          /\ run' = [run EXCEPT ![k] = state]
          /\ run[k] \in {"queued", "running"}
          /\ state = "success" => pub[k] = "success"
    BY <1>2 DEF StartRun, RunEnds
  <2>3. TypeOK'
    BY <2>1, <2>2 DEF TypeOK, script, bus
  <2>4. Sent'
    BY <2>1, <2>2 DEF Sent, TypeOK, bus
  <2>5. \A j \in Turns :
          /\ run'[j] = "absent" <=> run[j] = "absent"
          /\ run[j] = "success" => run'[j] = "success"
    BY <2>2 DEF TypeOK
  <2> QED
    BY <1>0, <2>1, <2>3, <2>4, <2>5, StackKept DEF bus
<1>3. ASSUME NEW k \in Turns, Bootstrap(k)
      PROVE  IInv'
  <2>1. UNCHANGED << script, webUp, paused, run, pub, portOpen, ready, locked,
                     stored, env >>
    BY <1>3 DEF Bootstrap
  <2>2. PICK state \in {"success", "failed"} :
          /\ boot' = [boot EXCEPT ![k] = state]
          /\ run[k] = "running" /\ boot[k] = "none"
          /\ state = "success" => subscribed'
    BY <1>3 DEF Bootstrap
  <2>3. subscribed' \in BOOLEAN /\ (subscribed => subscribed')
    BY <1>3 DEF Bootstrap, TypeOK
  <2>4. faults' \in 0..MaxFaults /\ (faults' = MaxFaults => faults = MaxFaults)
    BY <1>0, <1>3 DEF Bootstrap, UseFault
  <2>5. TypeOK'
    BY <2>1, <2>2, <2>3, <2>4 DEF TypeOK, script
  <2>6. Sent'
    BY <2>1, <2>2, <2>3, <2>4 DEF Sent, TypeOK
  <2> QED
    BY <1>0, <2>1, <2>4, <2>5, <2>6, StackKept
<1>4. ASSUME NEW k \in Turns, Publish(k)
      PROVE  IInv'
  <2>1. /\ UNCHANGED << script, webUp, paused, run, boot, portOpen, subscribed,
                        locked, env >>
        /\ run[k] = "running" /\ boot[k] = "success" /\ pub[k] = "none"
    BY <1>4 DEF Publish
  <2>2. subscribed /\ stored[k] = 0 /\ ready[k] = 0 /\ locked[k] = 0
    BY <1>0, <2>1 DEF Sent
  <2>3. PICK n \in 0..2, state \in {"success", "failed"} :
          /\ Store(k, n)
          /\ pub' = [pub EXCEPT ![k] = state]
          /\ state = "success" /\ ~env.drops => n > 0
          /\ n = 2 => faults' # MaxFaults
          /\ faults' \in 0..MaxFaults
          /\ faults' = MaxFaults => faults = MaxFaults
    <3>1. CASE /\ portOpen
               /\ pub' = [pub EXCEPT ![k] = "success"]
               /\ Store(k, IF env.drops THEN 0 ELSE 1)
               /\ UNCHANGED faults
      BY <1>0, <3>1
    <3>2. CASE /\ portOpen
               /\ UseFault
               /\ pub' = [pub EXCEPT ![k] = "success"]
               /\ Store(k, IF env.drops THEN 0 ELSE 2)
      BY <1>0, <3>2 DEF UseFault
    <3>3. CASE /\ UseFault \/ (~portOpen /\ UNCHANGED faults)
               /\ pub' = [pub EXCEPT ![k] = "failed"]
               /\ \E n \in 0..(IF portOpen /\ ~env.drops THEN 1 ELSE 0) :
                    Store(k, n)
      <4>1. \E n \in 0..1 : Store(k, n)
        BY <3>3
      <4> QED
        BY <1>0, <3>3, <4>1 DEF UseFault
    <3> QED
      BY <1>4, <3>1, <3>2, <3>3 DEF Publish
  <2>4. /\ ready' = [ready EXCEPT ![k] = n]
        /\ stored' = [stored EXCEPT ![k] = n]
    BY <2>2, <2>3 DEF Store
  <2>5. TypeOK'
    BY <2>1, <2>3, <2>4 DEF TypeOK, script
  <2>6. Sent'
    BY <2>1, <2>3, <2>4 DEF Sent, TypeOK
  <2>7. \A j \in Turns :
          /\ stored'[j] = IF j = k THEN n ELSE stored[j]
          /\ ready'[j] = IF j = k THEN n ELSE ready[j]
          /\ locked'[j] = locked[j]
    BY <2>1, <2>4 DEF TypeOK
  <2> QED
    BY <1>0, <2>1, <2>2, <2>3, <2>5, <2>6, <2>7, StackKept
<1>5. ASSUME NEW k \in Turns, LockExpires(k)
      PROVE  IInv'
  <2>1. /\ UNCHANGED << script, airflow, portOpen, subscribed, stored, faults,
                        env >>
        /\ locked[k] > 0
        /\ locked' = [locked EXCEPT ![k] = locked[k] - 1]
        /\ ready' = [ready EXCEPT ![k] = ready[k] + 1]
    BY <1>5 DEF LockExpires
  <2>2. /\ locked[k] - 1 \in 0..2 /\ ready[k] + 1 \in 0..2
        /\ \A j \in Turns :
             /\ ready'[j] = IF j = k THEN ready[k] + 1 ELSE ready[j]
             /\ locked'[j] = IF j = k THEN locked[k] - 1 ELSE locked[j]
    BY <1>0, <2>1 DEF TypeOK
  <2>3. TypeOK'
    BY <2>1, <2>2 DEF TypeOK, script, airflow
  <2>4. Sent'
    BY <2>1 DEF Sent, airflow
  <2> QED
    BY <1>0, <2>1, <2>2, <2>3, <2>4, StackKept DEF airflow
<1> QED
  BY <1>1, <1>2, <1>3, <1>4, <1>5 DEF Stack

-----------------------------------------------------------------------------
(* The messages.                                                           *)

\* The executions before this one have not changed what they said.
LEMMA OwnKept ==
  ASSUME IInv, faults' = faults, got' = got,
         \A j \in Turns : verdict'[j] = "pass" => verdict[j] = "pass"
  PROVE  Own'
<1> SUFFICES ASSUME faults = MaxFaults, NEW k \in Turns, got[k] # Nothing,
                    \A j \in 1..(k - 1) : verdict'[j] = "pass"
             PROVE  got[k] = k
  BY DEF Own
<1>1. \A j \in 1..(k - 1) : j \in Turns
  BY Bounds DEF Turns
<1> QED
  BY <1>1 DEF IInv, Own

\* An execution that finds no message, or cannot complete the one it has.
LEMMA QuitStep ==
  ASSUME IInv, pc \notin {"end", "check"}, NEW how \in Failures, Quit(how),
         how = "exit_no_message" => env.drops,
         UNCHANGED << got, airflow, bus, faults, env >>
  PROVE  IInv'
<1> USE DEF IInv
<1>0. /\ got' = got /\ stored' = stored /\ ready' = ready /\ locked' = locked
      /\ turn' = turn /\ pc' = "end" /\ polls' = polls /\ faults' = faults
      /\ env' = env /\ turn \in Turns
      /\ verdict' = [verdict EXCEPT ![turn] = how]
  BY DEF Quit, bus, TypeOK
<1>1. Place' /\ verdict' \in [Turns -> {"none", "pass"} \union Failures]
  BY QuitPlace DEF airflow, bus, Failures
<1>2. TypeOK'
  BY <1>0, <1>1 DEF TypeOK, airflow, bus, Labels
<1>3. Sent'
  BY DEF Sent, airflow, bus
<1>4. \A j \in Turns :
        /\ verdict'[j] = "pass" => verdict[j] = "pass"
        /\ verdict'[j] = "exit_no_message" =>
             verdict[j] = "exit_no_message" \/ env.drops
  BY <1>0 DEF TypeOK, Failures
<1>5. Account'
  <2>1. \A k \in Turns : Done(k)' \subseteq Done(k)
    BY <1>0, <1>4 DEF Done, Took
  <2>2. \A k \in Turns :
          /\ ready[k] \in 0..2 /\ locked[k] \in 0..2 /\ stored[k] \in 0..2
          /\ ready[k] + locked[k] <= stored[k]
    BY Numbers DEF Account
  <2> QED
    BY <1>0, <1>2, <2>1, <2>2, AccountKept
<1>6. NeverFalselyMissing'
  BY <1>0, <1>4 DEF NeverFalselyMissing
<1> QED
  BY <1>0, <1>1, <1>2, <1>3, <1>4, <1>5, <1>6, OwnKept

LEMMA ReceiveStep ==
  ASSUME IInv, Receive
  PROVE  IInv'
<1> USE DEF IInv
<1>0. /\ pc = "receive" /\ turn \in Turns /\ got[turn] = Nothing
      /\ run[turn] = "success"
      /\ UNCHANGED << airflow, portOpen, subscribed, stored, faults, env >>
  BY DEF Receive, Place, TypeOK
<1>1. CASE /\ \A k \in Turns : ready[k] = 0
           /\ Quit("exit_no_message")
           /\ UNCHANGED << got, ready, locked >>
  <2>1. env.drops
    BY <1>0, <1>1, SomethingReady DEF TypeOK
  <2>2. "exit_no_message" \in Failures
    BY DEF Failures
  <2> QED
    BY <1>0, <1>1, <2>1, <2>2, QuitStep DEF bus
<1>2. ASSUME NEW k \in Turns,
             ready[k] > 0,
             ready' = [ready EXCEPT ![k] = ready[k] - 1],
             locked' = [locked EXCEPT ![k] = locked[k] + 1],
             got' = [got EXCEPT ![turn] = k],
             GoTo("complete")
      PROVE  IInv'
  <2>0. /\ \A j \in Turns :
             /\ ready[j] \in 0..2 /\ locked[j] \in 0..2 /\ stored[j] \in 0..2
             /\ ready[j] + locked[j] <= stored[j]
             /\ ready'[j] = IF j = k THEN ready[k] - 1 ELSE ready[j]
             /\ locked'[j] = IF j = k THEN locked[k] + 1 ELSE locked[j]
             /\ got'[j] = IF j = turn THEN k ELSE got[j]
        /\ turn' = turn /\ pc' = "complete" /\ polls' = 0
        /\ verdict' = verdict /\ stored' = stored /\ run' = run
        /\ faults' = faults /\ env' = env
    BY <1>0, <1>2, Numbers DEF GoTo, Account, TypeOK, airflow
  <2>1. stored[k] > 0 /\ k # Nothing /\ k \in Nat
    BY <1>2, <2>0 DEF Nothing, Turns
  <2>2. TypeOK'
    <3>1. ready[k] - 1 \in 0..2 /\ locked[k] + 1 \in 0..2 /\ 0 \in 0..Budget
      BY <1>2, <2>0, Bounds
    <3>2. ready' \in [Turns -> 0..2] /\ locked' \in [Turns -> 0..2]
      BY <1>2, <3>1 DEF TypeOK
    <3>3. got' \in [Turns -> Turns \union {Nothing}]
      BY <1>2 DEF TypeOK
    <3> QED
      BY <1>0, <2>0, <3>1, <3>2, <3>3 DEF TypeOK, airflow, Labels
  <2>3. Place'
    BY <1>0, <2>0, <2>1 DEF Place
  <2>4. Sent'
    BY <1>0, <2>0 DEF Sent, airflow
  <2>5. Account'
    <3> SUFFICES ASSUME NEW j \in Turns
                 PROVE  /\ ready'[j] + locked'[j] <= stored'[j]
                        /\ stored'[j] - ready'[j] <= Cardinality(Took(j)')
                        /\ Cardinality(Done(j)')
                             <= stored'[j] - ready'[j] - locked'[j]
      BY DEF Account
    <3>1. Done(j)' = Done(j)
      BY <1>0, <2>0 DEF Done, Took, Place
    <3>2. CASE j = k
      <4>1. Took(k)' = Took(k) \union {turn} /\ turn \notin Took(k)
        BY <1>0, <2>0, <2>1 DEF Took
      <4>2. Cardinality(Took(k)') = Cardinality(Took(k)) + 1
        BY <4>1, Counts, FS_AddElement
      <4> QED
        BY <2>0, <3>1, <3>2, <4>2, Counts DEF Account
    <3>3. CASE j # k
      <4>1. Took(j)' = Took(j)
        <5>1. j # Nothing
          BY Bounds DEF Turns, Nothing
        <5> QED
          BY <1>0, <2>0, <3>3, <5>1 DEF Took
      <4> QED
        BY <2>0, <3>1, <3>3, <4>1 DEF Account
    <3> QED
      BY <3>2, <3>3
  <2>6. NeverFalselyMissing'
    BY <2>0 DEF NeverFalselyMissing
  <2>7. Own'
    <3> SUFFICES ASSUME faults = MaxFaults, NEW t \in Turns, got'[t] # Nothing,
                        \A j \in 1..(t - 1) : verdict[j] = "pass"
                 PROVE  got'[t] = t
      BY <2>0 DEF Own
    <3>1. CASE t # turn
      BY <2>0, <3>1 DEF Own
    <3>2. CASE t = turn
      \* A run that has not been triggered has stored nothing ...
      <4>1. ~(k > turn)
        BY <2>1 DEF Place, Sent
      \* ... and of the earlier ones each has lost its one message.
      <4>2. ASSUME k < turn
            PROVE  FALSE
        <5>1. k \in 1..(t - 1) /\ \A j \in 1..(k - 1) : j \in 1..(t - 1)
          BY <1>0, <3>2, <4>2, Bounds DEF Turns
        <5>2. verdict[k] = "pass" /\ got[k] = k
          BY <2>1, <5>1 DEF Own, Place
        <5>3. k \in Done(k)
          BY <5>2 DEF Done, Took
        <5>4. Cardinality(Done(k)) >= 1
          BY <5>3, Counts, FS_EmptySet
        <5>5. stored[k] <= 1
          BY DEF Sent
        <5> QED
          BY <1>2, <2>0, <5>4, <5>5, Counts DEF Account
      <4>3. turn \in Nat
        BY <1>0, TurnsFinite
      <4> QED
        BY <2>0, <2>1, <3>2, <4>1, <4>2, <4>3
    <3> QED
      BY <3>1, <3>2
  <2> QED
    BY <2>2, <2>3, <2>4, <2>5, <2>6, <2>7
<1> QED
  BY <1>1, <1>2 DEF Receive

LEMMA CompleteStep ==
  ASSUME IInv, CompleteMessage
  PROVE  IInv'
<1> USE DEF IInv
<1>0. /\ pc = "complete" /\ turn \in Turns
      /\ got[turn] \in Turns
      /\ UNCHANGED << got, airflow, portOpen, subscribed, ready, stored, faults,
                      env >>
  BY DEF CompleteMessage, Place, TypeOK
<1>1. CASE Quit("raise_request") /\ UNCHANGED locked
  <2>1. "raise_request" \in Failures
    BY DEF Failures
  <2> QED
    BY <1>0, <1>1, <2>1, QuitStep DEF bus
<1>2. ASSUME locked[got[turn]] > 0,
             locked' = [locked EXCEPT ![got[turn]] = locked[got[turn]] - 1],
             GoTo("check")
      PROVE  IInv'
  <2> DEFINE g == got[turn]
  <2>0. /\ \A j \in Turns :
             /\ ready[j] \in 0..2 /\ locked[j] \in 0..2 /\ stored[j] \in 0..2
             /\ ready[j] + locked[j] <= stored[j]
             /\ locked'[j] = IF j = g THEN locked[g] - 1 ELSE locked[j]
        /\ turn' = turn /\ pc' = "check" /\ polls' = 0
        /\ verdict' = verdict /\ got' = got /\ stored' = stored
        /\ ready' = ready /\ run' = run /\ faults' = faults /\ env' = env
    BY <1>0, <1>2, Numbers DEF GoTo, Account, TypeOK, airflow
  <2>1. TypeOK'
    <3>1. locked[g] - 1 \in 0..2 /\ 0 \in 0..Budget
      BY <1>0, <1>2, <2>0, Bounds
    <3>2. locked' \in [Turns -> 0..2]
      BY <1>2, <3>1 DEF TypeOK
    <3> QED
      BY <1>0, <2>0, <3>1, <3>2 DEF TypeOK, airflow, Labels
  <2>2. Place'
    BY <1>0, <2>0 DEF Place
  <2>3. Sent'
    BY <1>0, <2>0 DEF Sent, airflow
  <2>4. Account'
    <3> SUFFICES ASSUME NEW j \in Turns
                 PROVE  /\ ready[j] + locked'[j] <= stored[j]
                        /\ Cardinality(Done(j)')
                             <= stored[j] - ready[j] - locked'[j]
      <4>1. \A j \in Turns : Took(j)' = Took(j)
        BY <2>0 DEF Took
      <4> QED
        BY <2>0, <4>1 DEF Account
    <3>1. CASE j = g
      <4>1. Done(g)' = Done(g) \union {turn} /\ turn \notin Done(g)
        BY <1>0, <2>0 DEF Done, Took, Place
      <4>2. Cardinality(Done(g)') = Cardinality(Done(g)) + 1
        BY <4>1, Counts, FS_AddElement
      <4> QED
        BY <1>0, <2>0, <3>1, <4>2, Counts DEF Account
    <3>2. CASE j # g
      <4>1. Done(j)' = Done(j)
        BY <1>0, <2>0, <3>2 DEF Done, Took
      <4> QED
        BY <2>0, <3>2, <4>1 DEF Account
    <3> QED
      BY <3>1, <3>2
  <2>5. NeverFalselyMissing'
    BY <2>0 DEF NeverFalselyMissing
  <2>6. Own'
    BY <2>0, OwnKept
  <2> QED
    BY <2>1, <2>2, <2>3, <2>4, <2>5, <2>6
<1> QED
  BY <1>1, <1>2 DEF CompleteMessage

-----------------------------------------------------------------------------
(* The theorems.                                                           *)

LEMMA StutterStep ==
  ASSUME IInv, UNCHANGED vars
  PROVE  IInv'
<1>0. UNCHANGED << turn, pc, polls, got, verdict, webUp, paused, run, boot, pub,
                   portOpen, subscribed, ready, locked, stored, faults, env >>
  BY DEF vars, script, airflow, bus
<1>1. \A k \in Turns : Took(k)' = Took(k) /\ Done(k)' = Done(k)
  BY <1>0 DEF Took, Done
<1>2. TypeOK' /\ Place' /\ Sent' /\ NeverFalselyMissing' /\ Own'
  BY <1>0 DEF IInv, TypeOK, Place, Sent, NeverFalselyMissing, Own
<1>3. Account'
  BY <1>0, <1>1 DEF IInv, Account
<1> QED
  BY <1>2, <1>3 DEF IInv

\* The six parts hold together in every behaviour.
THEOREM Invariance == Spec => []IInv
<1>1. IInv /\ [Next]_vars => IInv'
  BY MovesStep, ReceiveStep, CompleteStep, StackStep, StutterStep
  DEF Next, Script, Moves, Finished
<1> QED
  BY InvInit, <1>1, PTL DEF Spec

\* Every variable of SnsFanout keeps its type; no run ever has more than two
\* messages anywhere.
THEOREM TypeCorrect == Spec => []TypeOK
<1>1. IInv => TypeOK
  BY DEF IInv
<1> QED
  BY <1>1, Invariance, PTL

\* However many executions have failed half-way on the same subscription, a
\* successful run leaves a message for the execution that waits for it.
THEOREM NeverMissing == Spec => []NeverFalselyMissing
<1>1. IInv => NeverFalselyMissing
  BY DEF IInv
<1> QED
  BY <1>1, Invariance, PTL

\* PASSes from one run's messages have as many messages behind them.
THEOREM NeverTwice == Spec => []NoEvidenceTwice
<1>1. IInv => NoEvidenceTwice
  <2> SUFFICES ASSUME IInv, NEW g \in Turns
               PROVE  Cardinality({k \in Turns : verdict[k] = "pass"
                                                 /\ got[k] = g})
                        <= stored[g]
    BY DEF NoEvidenceTwice, IInv, Place
  <2> DEFINE passed == {k \in Turns : verdict[k] = "pass" /\ got[k] = g}
  <2>1. passed \in SUBSET Done(g)
    BY DEF Done, Took
  <2>2. /\ Cardinality(passed) <= Cardinality(Done(g))
        /\ Cardinality(passed) \in Nat
    BY <2>1, Counts, FS_Subset, FS_CardinalityType
  <2> QED
    BY <2>2, Numbers, Counts DEF IInv, Account
<1> QED
  BY <1>1, Invariance, PTL

\* After executions that have all passed without a failing request the message
\* is the own one.
THEOREM OwnAlways == Spec => []OwnAfterCleanTurns
<1>1. IInv => OwnAfterCleanTurns
  BY DEF IInv, Own, Place, OwnAfterCleanTurns
<1> QED
  BY <1>1, Invariance, PTL

-----------------------------------------------------------------------------
(* Every execution ends after a bounded number of steps.                   *)

\* The stages that lie ahead, and the probes before the present one has to
\* end.
Stage ==
  CASE pc = "web" -> 9
    [] pc = "amqp" -> 8
    [] pc = "unpause" -> 7
    [] pc = "post" -> 6
    [] pc = "dag" -> 5
    [] pc = "logs" -> 4
    [] pc = "receive" -> 3
    [] pc = "complete" -> 2
    [] pc = "check" -> 1
    [] OTHER -> 0

Within == IF pc \in {"web", "amqp", "dag"} THEN Budget - polls ELSE 0

Width == Budget + 1

Remaining == Left(Stage, Width, Within)
MostSteps == Left(9, Width, Width)

Placed ==
  /\ Stage \in 0..9
  /\ Within \in 0..(Width - 1)
  /\ Stage = 0 <=> pc = "end"
  /\ Stage = 0 => Within = 0

LEMMA Places ==
  ASSUME TypeOK
  PROVE  Placed
<1>1. Budget - polls \in 0..Budget
  BY Bounds DEF TypeOK
<1>2. Stage \in 0..9 /\ (Stage = 0 <=> pc = "end")
  BY DEF Stage, TypeOK, Labels
<1>3. Within \in 0..(Width - 1) /\ (Stage = 0 => Within = 0)
  BY <1>1, <1>2, Bounds DEF Within, Width
<1> QED BY <1>2, <1>3 DEF Placed

\* Every step of the script takes it to a later stage or nearer to the end of
\* the present one.
LEMMA ScriptAdvances ==
  ASSUME TypeOK, Script
  PROVE  \/ Stage' < Stage
         \/ Stage' = Stage /\ Within' < Within
<1> USE Bounds
<1>0. polls \in 0..Budget
  BY DEF TypeOK
<1>1. CASE WaitForWebserver \/ WaitForEmulator
  BY <1>0, <1>1 DEF WaitForWebserver, WaitForEmulator, WaitFor, GoTo, Again,
                    Quit, Stage, Within
<1>2. CASE RequestRaises \/ DumpTaskLogs \/ CheckMessage
  BY <1>2 DEF RequestRaises, DumpTaskLogs, CheckMessage, Quit, Stage
<1>3. CASE Unpause \/ TriggerRun
  BY <1>3 DEF Unpause, TriggerRun, GoTo, Stage
<1>4. CASE WaitForDagRun
  BY <1>0, <1>4 DEF WaitForDagRun, GoTo, Again, Quit, Stage, Within
<1>5. CASE Receive \/ CompleteMessage
  BY <1>5 DEF Receive, CompleteMessage, GoTo, Quit, Stage
<1> QED BY <1>1, <1>2, <1>3, <1>4, <1>5 DEF Script

\* Airflow and the bus do not move the script.
LEMMA StackKeepsScript == Stack => UNCHANGED script
BY DEF Stack, StackStarts, StartRun, Bootstrap, Publish, RunEnds, LockExpires

\* An execution ends after at most MostSteps steps of the script, whatever the
\* runs of all the executions and the bus do: every step takes at least one
\* from what remains, only the next execution adds to it, and the execution
\* has its verdict exactly when nothing remains.
THEOREM TurnsAreBounded ==
  Spec => /\ [](/\ Remaining \in 0..MostSteps
                /\ Remaining = 0 <=> verdict[turn] # "none")
          /\ [][/\ ~RunAgain => Remaining' <= Remaining
                /\ Script => Remaining' < Remaining]_vars
<1>0. Width \in Nat \ {0} /\ 9 \in Nat
  BY Bounds DEF Width
<1>1. IInv => Placed
  BY Places DEF IInv
<1>2. IInv /\ Placed =>
        Remaining \in 0..MostSteps /\ (Remaining = 0 <=> verdict[turn] # "none")
  <2> SUFFICES ASSUME IInv, Placed
               PROVE  /\ Remaining \in 0..MostSteps
                      /\ Remaining = 0 <=> verdict[turn] # "none"
    OBVIOUS
  <2>1. Stage \in 0..9 /\ Within \in 0..Width
    BY <1>0 DEF Placed
  <2>2. Remaining \in 0..MostSteps
    BY <1>0, <2>1, LeftBounds DEF Remaining, MostSteps
  <2>3. Remaining = 0 <=> Stage = 0 /\ Within = 0
    BY <1>0, <2>1, LeftIsNone DEF Remaining
  <2>4. pc = "end" <=> verdict[turn] # "none"
    BY Bounds DEF IInv, Place, TypeOK, Turns
  <2> QED BY <2>2, <2>3, <2>4 DEF Placed
<1>3. IInv /\ Placed /\ Placed' /\ [Next]_vars =>
        [/\ ~RunAgain => Remaining' <= Remaining
         /\ Script => Remaining' < Remaining]_vars
  <2> SUFFICES ASSUME IInv, Placed, Placed', Next
               PROVE  /\ ~RunAgain => Remaining' <= Remaining
                      /\ Script => Remaining' < Remaining
    OBVIOUS
  <2>1. /\ Stage \in Nat /\ Within \in Nat /\ Within \in 0..Width
        /\ Stage' \in Nat /\ Within' \in Nat /\ Within' \in 0..(Width - 1)
        /\ Width' = Width
    BY <1>0 DEF Placed, Width
  <2>2. Remaining \in Nat /\ Remaining' \in Nat
    BY <1>0, <2>1, LeftType DEF Remaining
  <2>3. CASE Script
    <3>1. Remaining' < Remaining
      BY <1>0, <2>1, <2>3, ScriptAdvances, LeftFalls DEF Remaining, IInv
    <3> QED BY <2>2, <3>1
  <2>4. CASE ~Script /\ ~RunAgain
    <3>1. UNCHANGED script
      BY <2>4, StackKeepsScript DEF Next, Finished, vars
    <3> QED BY <2>2, <2>4, <3>1 DEF script, Remaining, Stage, Within, Width
  <2> QED BY <2>3, <2>4
<1> QED BY Invariance, <1>1, <1>2, <1>3, PTL DEF Spec

-----------------------------------------------------------------------------
(* Every execution keeps the promise of a verification script.             *)

\* Showcase as execution k sees it: the effect is a message in the
\* subscription, and the script has observed it when it has received one.
Promise(k) == INSTANCE Showcase WITH
  effect <- \E g \in Turns : stored[g] > 0,
  seen <- got[k] # Nothing,
  outcome <- IF verdict[k] \in {"none", "pass"} THEN verdict[k] ELSE "fail"

\* What a step of the script can do to what the executions know and say.
LEMMA ScriptEffects ==
  ASSUME IInv, Script
  PROVE  /\ stored' = stored
         /\ turn \in Turns /\ verdict[turn] = "none"
         /\ \A k \in Turns :
              k # turn => got'[k] = got[k] /\ verdict'[k] = verdict[k]
         /\ \/ /\ got'[turn] = got[turn]
               /\ verdict'[turn] = "pass" => got[turn] # Nothing
            \/ /\ verdict'[turn] = "none" /\ got'[turn] # Nothing
               /\ \E g \in Turns : stored[g] > 0
<1> USE DEF IInv
<1>0. /\ turn \in Turns
      /\ verdict \in [Turns -> {"none", "pass"} \union Failures]
  BY DEF TypeOK
<1>1. pc # "end"
  BY DEF Script, WaitForWebserver, WaitForEmulator, RequestRaises, Unpause,
         TriggerRun, WaitForDagRun, DumpTaskLogs, Receive, CompleteMessage,
         CheckMessage
<1>2. verdict[turn] = "none"
  BY <1>0, <1>1 DEF Place
<1>3. CASE Moves
  <2>1. got' = got /\ stored' = stored
    BY <1>3, MovesEffects DEF bus
  <2>2. verdict'[turn] = "pass" => got[turn] # Nothing
    BY <1>2, <1>3, MovesVerdict DEF Place
  <2> QED
    BY <1>0, <1>2, <1>3, <2>1, <2>2, MovesVerdict
<1>4. CASE Receive
  <2>1. stored' = stored /\ got \in [Turns -> Turns \union {Nothing}]
    BY <1>4 DEF Receive, TypeOK
  <2>2. CASE Quit("exit_no_message") /\ UNCHANGED got
    BY <1>0, <1>2, <2>1, <2>2 DEF Quit
  <2>3. ASSUME NEW k \in Turns, ready[k] > 0,
               got' = [got EXCEPT ![turn] = k], GoTo("complete")
        PROVE  /\ verdict' = verdict
               /\ \A j \in Turns : j # turn => got'[j] = got[j]
               /\ got'[turn] # Nothing
               /\ stored[k] > 0
    <3>1. k # Nothing
      BY Bounds DEF Turns, Nothing
    <3>2. stored[k] > 0
      BY <2>3, Numbers DEF Account
    <3> QED
      BY <1>0, <2>1, <2>3, <3>1, <3>2 DEF GoTo
  <2> QED
    BY <1>0, <1>2, <1>4, <2>1, <2>2, <2>3 DEF Receive
<1>5. CASE CompleteMessage
  BY <1>0, <1>2, <1>5 DEF CompleteMessage, GoTo, Quit
<1> QED
  BY <1>0, <1>2, <1>3, <1>4, <1>5 DEF Script, Moves

\* A message that was stored stays stored, whatever becomes of it.
LEMMA StoredStays ==
  ASSUME IInv, Stack
  PROVE  \A k \in Turns : stored[k] > 0 => stored'[k] > 0
<1>1. ASSUME NEW k \in Turns, Publish(k)
      PROVE  \A j \in Turns : stored[j] > 0 => stored'[j] > 0
  <2>1. stored[k] = 0
    BY <1>1 DEF IInv, Sent, Publish
  <2>2. \A j \in Turns : j # k => stored'[j] = stored[j]
    BY <1>1 DEF Publish, Store, IInv, TypeOK
  <2> QED
    BY <2>1, <2>2
<1>2. CASE \/ StackStarts
           \/ \E k \in Turns : StartRun(k) \/ Bootstrap(k) \/ RunEnds(k)
                              \/ LockExpires(k)
  BY <1>2 DEF StackStarts, StartRun, Bootstrap, RunEnds, LockExpires, bus
<1> QED
  BY <1>1, <1>2 DEF Stack

\* Each execution implements Showcase: its PASS is said once, never taken
\* back, also not when the script is started again, and only after it has
\* received a message that some run had really published.
THEOREM PromisesKept ==
  ASSUME NEW k \in Turns
  PROVE  Spec => Promise(k)!Spec
<1> USE DEF Promise!vars
<1>1. Init => Promise(k)!Init
  BY DEF Init, Promise!Init
<1>2. IInv /\ [Next]_vars => [Promise(k)!Next]_(Promise(k)!vars)
  <2> SUFFICES ASSUME IInv, [Next]_vars
               PROVE  [Promise(k)!Next]_(Promise(k)!vars)
    OBVIOUS
  <2> DEFINE there == \E g \in Turns : stored[g] > 0
  <2> USE DEF Promise!Next, Promise!TakeEffect, Promise!Observe,
              Promise!Pass, Promise!Fail
  <2>1. CASE Script
    <3>1. there' <=> there
      BY <2>1, ScriptEffects
    <3>2. CASE k # turn
      BY <2>1, <3>1, <3>2, ScriptEffects
    <3>3. CASE k = turn
      BY <2>1, <3>1, <3>3, ScriptEffects
    <3> QED
      BY <3>2, <3>3
  <2>2. CASE Stack
    <3>1. there => there'
      BY <2>2, StoredStays
    <3>2. UNCHANGED << got, verdict >>
      BY <2>2, StackKeepsScript DEF script
    <3> QED
      BY <3>1, <3>2
  <2>3. CASE RunAgain \/ UNCHANGED vars
    BY <2>3 DEF RunAgain, vars, script, bus
  <2> QED
    BY <2>1, <2>2, <2>3 DEF Next, Finished
<1> QED
  BY Invariance, <1>1, <1>2, PTL DEF Spec, Promise!Spec
=============================================================================
