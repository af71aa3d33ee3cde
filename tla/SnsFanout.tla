----------------------------- MODULE SnsFanout ------------------------------
(***************************************************************************)
(* case-studies/airflow-sns-fanout: the dag sns_publish_showcase and the   *)
(* end-to-end verification script, run several times on one stack.         *)
(*                                                                         *)
(* Each execution of the script triggers a dag run of its own and, when    *)
(* the run has succeeded, takes one message from the subscription.  All    *)
(* the runs publish the same message to the same topic: a run whose script *)
(* has given up may publish later, and a publication may be stored twice.  *)
(***************************************************************************)
EXTENDS Naturals, FiniteSets

CONSTANTS
  Last,       \* bound: executions of the script on one stack
  Budget,     \* bound: probes that fit before a wait's deadline
  MaxFaults   \* bound: requests that fail in one behaviour

ASSUME SnsAssumption ==
  /\ Last \in Nat \ {0}
  /\ Budget \in Nat \ {0}
  /\ MaxFaults \in Nat

\* The executions of the script, and the dag runs they trigger.
Turns == 1..Last

\* got[k] before a message was received.
Nothing == 0

VARIABLES
  \* the script
  turn,      \* which execution it is
  pc,        \* the call it is about to make
  polls,     \* failed probes of the wait it is in
  got,       \* the run whose message an execution has received
  verdict,   \* how each execution ended
  \* Airflow
  webUp, paused, run,
  boot,      \* the task bootstrap_topic_and_subscription of each run
  pub,       \* the task publish_message of each run
  \* Service Bus
  portOpen,
  subscribed,  \* the topic has the subscription
  ready,     \* messages of each run that can be received
  locked,    \* messages of each run a receiver holds
  stored,    \* messages of each run that ever reached the subscription
  faults,    \* requests that may still fail
  env        \* how the proxy behaves, fixed for a behaviour

script == << turn, pc, polls, got, verdict >>
airflow == << webUp, paused, run, boot, pub >>
bus == << portOpen, subscribed, ready, locked, stored >>
vars == << script, airflow, bus, faults, env >>

Labels ==
  {"web", "amqp", "unpause", "post", "dag", "logs", "receive", "complete",
   "check", "end"}

Failures ==
  {"exit_webserver", "exit_emulator", "exit_run_timeout", "exit_run_failed",
   "exit_no_message", "raise_request", "assert_message"}

\* The proxy answers a publication it does not carry out; it keeps body,
\* subject and attributes as they are.
Setups == [drops : BOOLEAN, intact : BOOLEAN]

TypeOK ==
  /\ turn \in Turns
  /\ pc \in Labels
  /\ polls \in 0..Budget
  /\ got \in [Turns -> Turns \union {Nothing}]
  /\ verdict \in [Turns -> {"none", "pass"} \union Failures]
  /\ webUp \in BOOLEAN
  /\ paused \in BOOLEAN
  /\ run \in [Turns -> {"absent", "queued", "running", "success", "failed"}]
  /\ boot \in [Turns -> {"none", "success", "failed"}]
  /\ pub \in [Turns -> {"none", "success", "failed"}]
  /\ portOpen \in BOOLEAN
  /\ subscribed \in BOOLEAN
  /\ ready \in [Turns -> 0..2]
  /\ locked \in [Turns -> 0..2]
  /\ stored \in [Turns -> 0..2]
  /\ faults \in 0..MaxFaults
  /\ env \in Setups

Init ==
  /\ env \in Setups
  /\ turn = 1
  /\ pc = "web"
  /\ polls = 0
  /\ got = [k \in Turns |-> Nothing]
  /\ verdict = [k \in Turns |-> "none"]
  /\ webUp \in BOOLEAN
  /\ paused = TRUE
  /\ run = [k \in Turns |-> "absent"]
  /\ boot = [k \in Turns |-> "none"]
  /\ pub = [k \in Turns |-> "none"]
  /\ portOpen \in BOOLEAN
  /\ subscribed = FALSE
  /\ ready = [k \in Turns |-> 0]
  /\ locked = [k \in Turns |-> 0]
  /\ stored = [k \in Turns |-> 0]
  /\ faults = MaxFaults

-----------------------------------------------------------------------------
(* The script.                                                             *)

GoTo(label) ==
  /\ pc' = label
  /\ polls' = 0
  /\ UNCHANGED << turn, verdict >>

Quit(how) ==
  /\ pc' = "end"
  /\ verdict' = [verdict EXCEPT ![turn] = how]
  /\ UNCHANGED << turn, polls >>

\* Mutant: a wait that looks at the clock only after it has probed again.
AgainLate ==
  /\ polls <= Budget
  /\ polls' = polls + 1
  /\ UNCHANGED << turn, pc, verdict >>

\* One more probe of the same wait, after a sleep.
Again ==
  /\ polls < Budget
  /\ polls' = polls + 1
  /\ UNCHANGED << turn, pc, verdict >>

UseFault ==
  /\ faults > 0
  /\ faults' = faults - 1

DeadlinePassed == polls > 0

\* A wait that swallows what goes wrong until its deadline.
WaitFor(up, next, tooLate) ==
  /\ \/ up /\ polls < Budget /\ GoTo(next) /\ UNCHANGED faults
     \/ ~up /\ Again /\ UNCHANGED faults
     \/ UseFault /\ Again
     \/ DeadlinePassed /\ Quit(tooLate) /\ UNCHANGED faults
  /\ UNCHANGED << got, airflow, bus, env >>

WaitForWebserver == pc = "web" /\ WaitFor(webUp, "amqp", "exit_webserver")

WaitForEmulator == pc = "amqp" /\ WaitFor(portOpen, "unpause", "exit_emulator")

\* The other requests are bare: when one fails the exception ends the script.
\* A message that is being received or completed then stays locked.
RequestRaises ==
  /\ pc \in {"unpause", "post", "dag", "receive", "complete"}
  /\ UseFault
  /\ Quit("raise_request")
  /\ UNCHANGED << got, airflow, bus, env >>

Unpause ==
  /\ pc = "unpause"
  /\ paused' = FALSE
  /\ GoTo("post")
  /\ UNCHANGED << got, webUp, run, boot, pub, bus, faults, env >>

TriggerRun ==
  /\ pc = "post"
  /\ run' = [run EXCEPT ![turn] = "queued"]
  /\ GoTo("dag")
  /\ UNCHANGED << got, webUp, paused, boot, pub, bus, faults, env >>

\* Mutant: a run in an unfinished state is polled without looking at the clock.
WaitForDagRunUncounted ==
  /\ pc = "dag"
  /\ \/ run[turn] = "success" /\ GoTo("receive")
     \/ run[turn] = "failed" /\ GoTo("logs")
     \/ /\ run[turn] \notin {"success", "failed"}
        /\ UNCHANGED << turn, pc, polls, verdict >>
  /\ UNCHANGED << got, airflow, bus, faults, env >>

WaitForDagRun ==
  /\ pc = "dag"
  /\ \/ polls < Budget /\ run[turn] = "success" /\ GoTo("receive")
     \/ polls < Budget /\ run[turn] = "failed" /\ GoTo("logs")
     \/ run[turn] \notin {"success", "failed"} /\ Again
     \/ DeadlinePassed /\ Quit("exit_run_timeout")
  /\ UNCHANGED << got, airflow, bus, faults, env >>

\* Requests for the logs that fail are swallowed.
DumpTaskLogs ==
  /\ pc = "logs"
  /\ UseFault \/ UNCHANGED faults
  /\ Quit("exit_run_failed")
  /\ UNCHANGED << got, airflow, bus, env >>

\* Any message of the subscription will do; whose it is cannot be told.
Receive ==
  /\ pc = "receive"
  /\ \/ \E k \in Turns :
          /\ ready[k] > 0
          /\ ready' = [ready EXCEPT ![k] = @ - 1]
          /\ locked' = [locked EXCEPT ![k] = @ + 1]
          /\ got' = [got EXCEPT ![turn] = k]
          /\ GoTo("complete")
     \/ /\ \A k \in Turns : ready[k] = 0
        /\ Quit("exit_no_message")
        /\ UNCHANGED << got, ready, locked >>
  /\ UNCHANGED << airflow, portOpen, subscribed, stored, faults, env >>

\* Mutant: the message is not completed.
CompleteMessageNot ==
  /\ pc = "complete"
  /\ GoTo("check")
  /\ UNCHANGED << got, airflow, bus, faults, env >>

\* A lock that ran out in the meantime makes the completion fail.
CompleteMessage ==
  /\ pc = "complete"
  /\ \/ /\ locked[got[turn]] > 0
        /\ locked' = [locked EXCEPT ![got[turn]] = @ - 1]
        /\ GoTo("check")
     \/ /\ locked[got[turn]] = 0
        /\ Quit("raise_request")
        /\ UNCHANGED locked
  /\ UNCHANGED << got, airflow, portOpen, subscribed, ready, stored, faults,
                  env >>

CheckMessage ==
  /\ pc = "check"
  /\ \/ env.intact /\ Quit("pass")
     \/ ~env.intact /\ Quit("assert_message")
  /\ UNCHANGED << got, airflow, bus, faults, env >>

Script ==
  \/ WaitForWebserver \/ WaitForEmulator
  \/ RequestRaises
  \/ Unpause \/ TriggerRun
  \/ WaitForDagRun \/ DumpTaskLogs
  \/ Receive \/ CompleteMessage
  \/ CheckMessage

\* The script is started again on the same stack.
RunAgain ==
  /\ pc = "end"
  /\ turn < Last
  /\ turn' = turn + 1
  /\ pc' = "web"
  /\ polls' = 0
  /\ UNCHANGED << got, verdict, airflow, bus, faults, env >>

-----------------------------------------------------------------------------
(* Airflow and Service Bus.                                                *)

StackStarts ==
  /\ \/ ~webUp /\ webUp' = TRUE /\ UNCHANGED portOpen
     \/ ~portOpen /\ portOpen' = TRUE /\ UNCHANGED webUp
  /\ UNCHANGED << script, paused, run, boot, pub, subscribed, ready, locked,
                  stored, faults, env >>

StartRun(k) ==
  /\ ~paused
  /\ run[k] = "queued"
  /\ run' = [run EXCEPT ![k] = "running"]
  /\ UNCHANGED << script, webUp, paused, boot, pub, bus, faults, env >>

\* CreateTopic and Subscribe find what an earlier run has created; a request
\* that fails may have been the one after Subscribe was carried out.
Bootstrap(k) ==
  /\ run[k] = "running"
  /\ boot[k] = "none"
  /\ \/ /\ portOpen
        /\ boot' = [boot EXCEPT ![k] = "success"]
        /\ subscribed' = TRUE
        /\ UNCHANGED faults
     \/ /\ UseFault \/ (~portOpen /\ UNCHANGED faults)
        /\ boot' = [boot EXCEPT ![k] = "failed"]
        /\ subscribed' \in {subscribed, subscribed \/ portOpen}
  /\ UNCHANGED << script, webUp, paused, run, pub, portOpen, ready, locked,
                  stored, env >>

\* A topic without a subscription keeps nothing.
Store(k, n) ==
  LET kept == IF subscribed THEN n ELSE 0 IN
    /\ ready' = [ready EXCEPT ![k] = @ + kept]
    /\ stored' = [stored EXCEPT ![k] = @ + kept]

\* Mutant: the two tasks of the dag are not chained.
PublishUnchained(k) ==
  /\ run[k] = "running"
  /\ pub[k] = "none"
  /\ portOpen
  /\ pub' = [pub EXCEPT ![k] = "success"]
  /\ Store(k, IF env.drops THEN 0 ELSE 1)
  /\ UNCHANGED << script, webUp, paused, run, boot, portOpen, subscribed,
                  locked, faults, env >>

\* After the bootstrap.  An answer that is lost makes the client publish
\* again, or the task fail with the message stored.
Publish(k) ==
  /\ run[k] = "running"
  /\ boot[k] = "success"
  /\ pub[k] = "none"
  /\ \/ /\ portOpen
        /\ pub' = [pub EXCEPT ![k] = "success"]
        /\ Store(k, IF env.drops THEN 0 ELSE 1)
        /\ UNCHANGED faults
     \/ /\ portOpen
        /\ UseFault
        /\ pub' = [pub EXCEPT ![k] = "success"]
        /\ Store(k, IF env.drops THEN 0 ELSE 2)
     \/ /\ UseFault \/ (~portOpen /\ UNCHANGED faults)
        /\ pub' = [pub EXCEPT ![k] = "failed"]
        /\ \E n \in 0..(IF portOpen /\ ~env.drops THEN 1 ELSE 0) : Store(k, n)
  /\ UNCHANGED << script, webUp, paused, run, boot, portOpen, subscribed,
                  locked, env >>

RunEnds(k) ==
  /\ run[k] = "running"
  /\ \/ pub[k] = "success" /\ run' = [run EXCEPT ![k] = "success"]
     \/ /\ "failed" \in {boot[k], pub[k]}
        /\ run' = [run EXCEPT ![k] = "failed"]
  /\ UNCHANGED << script, webUp, paused, boot, pub, bus, faults, env >>

\* A lock nobody has released makes the message available again.
LockExpires(k) ==
  /\ locked[k] > 0
  /\ locked' = [locked EXCEPT ![k] = @ - 1]
  /\ ready' = [ready EXCEPT ![k] = @ + 1]
  /\ UNCHANGED << script, airflow, portOpen, subscribed, stored, faults, env >>

Stack ==
  \/ StackStarts
  \/ \E k \in Turns : \/ StartRun(k) \/ Bootstrap(k) \/ Publish(k)
                      \/ RunEnds(k) \/ LockExpires(k)

Finished ==
  /\ pc = "end" /\ turn = Last
  /\ UNCHANGED vars

Next == Script \/ RunAgain \/ Stack \/ Finished

Spec == Init /\ [][Next]_vars

\* The script is a running process.
FairSpec == Spec /\ WF_vars(Script)

-----------------------------------------------------------------------------
(* Safety.                                                                 *)

\* "publish may not have reached the backing Service Bus topic subscription"
\* (receive_published_message): when the proxy carries out what it answers,
\* the script never reports a missing message after a successful run, also
\* when earlier executions, on the same subscription, have failed half-way.
NeverFalselyMissing ==
  ~env.drops => \A k \in Turns : verdict[k] # "exit_no_message"

\* PASS means that the own run has succeeded, and that a message was received
\* which some run had published and which is not evidence for any other
\* execution: no run has given rise to more PASSes than messages.
NoEvidenceTwice ==
  /\ \A k \in Turns :
       verdict[k] = "pass" => run[k] = "success" /\ got[k] # Nothing
  /\ \A g \in Turns :
       Cardinality({k \in Turns : verdict[k] = "pass" /\ got[k] = g})
         <= stored[g]

\* On a stack on which no request has failed and every earlier execution has
\* passed, the message is the own one.
OwnAfterCleanTurns ==
  \A k \in Turns :
    /\ faults = MaxFaults
    /\ verdict[k] = "pass"
    /\ \A j \in 1..(k - 1) : verdict[j] = "pass"
    => got[k] = k

-----------------------------------------------------------------------------
(* Liveness.                                                               *)

\* Every execution that is started ends, whatever Airflow and the bus do.
EveryTurnEnds == \A k \in Turns : turn = k ~> verdict[k] # "none"
=============================================================================
