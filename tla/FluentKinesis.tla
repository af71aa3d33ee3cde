--------------------------- MODULE FluentKinesis ----------------------------
(***************************************************************************)
(* case-studies/fluentbit-kinesis: wait_for_stack.sh, which starts the     *)
(* stack in two stages, followed by verify_e2e_run.py, which reads back    *)
(* from the stream what Fluent Bit has shipped.                            *)
(*                                                                         *)
(* The Event Hubs emulator may hang on its way up and is restarted once.   *)
(* Fluent Bit ships each of its samples until it is acknowledged or its    *)
(* attempts are used up, so a record may be in the stream twice, or never. *)
(* The records look alike: the script can only count them.                 *)
(***************************************************************************)
EXTENDS Naturals, Sequences

CONSTANTS
  Samples,      \* EXPECTED_SAMPLE_COUNT, and Samples of the dummy input
  MaxAttempts,  \* of Fluent Bit, for one record
  Budget,       \* bound: probes that fit before a wait's deadline
  MaxFaults     \* bound: requests and commands that fail in one behaviour

ASSUME FluentAssumption ==
  /\ Samples \in Nat \ {0}
  /\ MaxAttempts \in Nat \ {0}
  /\ Budget \in Nat \ {0}
  /\ MaxFaults \in Nat

Records == 1..Samples

VARIABLES
  \* the scripts, one after the other
  pc,        \* the command or call about to be made
  polls,     \* probes of the wait it is in
  iterator,  \* place in the stream the shard iterator stands for
  records,   \* what read_all_records has collected
  verdict,   \* how the scripts ended
  \* the stack
  emulator, proxyUp,
  fluent,    \* Fluent Bit is running
  buffer,    \* what Fluent Bit knows of each record
  attempts,  \* how often it has failed to ship it
  stream,    \* the event hub
  faults,    \* requests that may still fail
  env        \* how the stack was set up, fixed for a behaviour

script == << pc, polls, iterator, records, verdict >>
shipper == << buffer, attempts, stream >>
stack == << emulator, proxyUp, fluent, shipper >>
vars == << script, stack, faults, env >>

Labels ==
  {"up", "amqp", "restart", "amqp_again", "health", "warm", "fluent",
   "describe", "iterator", "read", "check", "end"}

Failures ==
  {"exit_compose", "exit_amqp", "exit_health", "exit_not_ready",
   "raise_request", "exit_count", "exit_json", "assert_payload"}

\* An answer of PutRecords may get lost after the record was stored; the
\* emulator serves within the warm-up delay; payloads come back intact; the
\* stream is described with the one shard expected.
Setups ==
  [losesAnswers : BOOLEAN, prompt : BOOLEAN, intact : BOOLEAN,
   oneShard : BOOLEAN]

TypeOK ==
  /\ pc \in Labels
  /\ polls \in 0..Budget
  /\ iterator \in Nat
  /\ records \in Seq(Records)
  /\ verdict \in {"none", "pass"} \union Failures
  /\ emulator \in {"off", "starting", "stuck", "listening", "serving"}
  /\ proxyUp \in BOOLEAN
  /\ fluent \in BOOLEAN
  /\ buffer \in [Records -> {"buffered", "acked", "dropped"}]
  /\ attempts \in [Records -> 0..MaxAttempts]
  /\ stream \in Seq(Records)
  /\ faults \in 0..MaxFaults
  /\ env \in Setups

Init ==
  /\ env \in Setups
  /\ pc = "up"
  /\ polls = 0
  /\ iterator = 0
  /\ records = << >>
  /\ verdict = "none"
  /\ emulator = "off"
  /\ proxyUp = FALSE
  /\ fluent = FALSE
  /\ buffer = [r \in Records |-> "buffered"]
  /\ attempts = [r \in Records |-> 0]
  /\ stream = << >>
  /\ faults = MaxFaults

-----------------------------------------------------------------------------
(* wait_for_stack.sh                                                       *)

GoTo(label) ==
  /\ pc' = label
  /\ polls' = 0
  /\ UNCHANGED verdict

Quit(how) ==
  /\ pc' = "end"
  /\ verdict' = how
  /\ UNCHANGED polls

\* Mutant: a wait that looks at the clock only after it has probed again.
AgainLate ==
  /\ polls <= Budget
  /\ polls' = polls + 1
  /\ UNCHANGED << pc, verdict >>

\* One more probe of the same wait, after a sleep.
Again ==
  /\ polls < Budget
  /\ polls' = polls + 1
  /\ UNCHANGED << pc, verdict >>

UseFault ==
  /\ faults > 0
  /\ faults' = faults - 1

\* `set -e`: a docker compose command that fails ends the script.
ComposeFails ==
  /\ pc \in {"up", "restart", "fluent"}
  /\ UseFault
  /\ Quit("exit_compose")
  /\ UNCHANGED << iterator, records, stack, env >>

ComposeUp ==
  /\ pc = "up"
  /\ emulator' = "starting"
  /\ GoTo("amqp")
  /\ UNCHANGED << iterator, records, proxyUp, fluent, shipper, faults, env >>

PortOpen == emulator \in {"listening", "serving"}

\* wait_for_tcp counts its sleeps, and probes once more after the last.
WaitForTcp(next, tooLate) ==
  /\ \/ PortOpen /\ GoTo(next)
     \/ ~PortOpen /\ Again
     \/ ~PortOpen /\ polls = Budget /\ tooLate
  /\ UNCHANGED << iterator, records, stack, faults, env >>

WaitForAmqp ==
  /\ pc = "amqp"
  /\ WaitForTcp("health", GoTo("restart"))

\* Applied to whatever the emulator does by now, even to one that has opened
\* its port since the last probe.
RestartEmulator ==
  /\ pc = "restart"
  /\ emulator' = "starting"
  /\ GoTo("amqp_again")
  /\ UNCHANGED << iterator, records, proxyUp, fluent, shipper, faults, env >>

\* Mutant: the result of the second wait is ignored.
WaitForAmqpUnchecked ==
  /\ pc = "amqp_again"
  /\ WaitForTcp("health", GoTo("health"))

WaitForAmqpAgain ==
  /\ pc = "amqp_again"
  /\ WaitForTcp("health", Quit("exit_amqp"))

WaitForHealth ==
  /\ pc = "health"
  /\ \/ proxyUp /\ GoTo("warm") /\ UNCHANGED faults
     \/ ~proxyUp /\ Again /\ UNCHANGED faults
     \/ ~proxyUp /\ polls = Budget /\ Quit("exit_health") /\ UNCHANGED faults
     \/ UseFault /\ (Again \/ (polls = Budget /\ Quit("exit_health")))
  /\ UNCHANGED << iterator, records, stack, env >>

\* Mutant: the warm-up delay is left out.
WarmUpSkipped ==
  /\ pc = "warm"
  /\ GoTo("fluent")
  /\ UNCHANGED << iterator, records, stack, faults, env >>

WarmUp ==
  /\ pc = "warm"
  /\ env.prompt => emulator = "serving"
  /\ GoTo("fluent")
  /\ UNCHANGED << iterator, records, stack, faults, env >>

StartFluentBit ==
  /\ pc = "fluent"
  /\ fluent' = TRUE
  /\ GoTo("describe")
  /\ UNCHANGED << iterator, records, emulator, proxyUp, shipper, faults,
                  env >>

-----------------------------------------------------------------------------
(* verify_e2e_run.py                                                       *)

DeadlinePassed == polls > 0

\* Any exception, and any other shard topology, is retried.
WaitForProxyReady ==
  /\ pc = "describe"
  /\ \/ /\ emulator = "serving" /\ env.oneShard /\ polls < Budget
        /\ GoTo("iterator")
        /\ UNCHANGED faults
     \/ ~(emulator = "serving" /\ env.oneShard) /\ Again /\ UNCHANGED faults
     \/ UseFault /\ Again
     \/ DeadlinePassed /\ Quit("exit_not_ready") /\ UNCHANGED faults
  /\ UNCHANGED << iterator, records, stack, env >>

\* Retries are switched off in the client: what fails ends the script.
RequestRaises ==
  /\ pc \in {"iterator", "read"}
  /\ UseFault
  /\ Quit("raise_request")
  /\ UNCHANGED << iterator, records, stack, env >>

\* TRIM_HORIZON: before the first record of the stream.
GetShardIterator ==
  /\ pc = "iterator"
  /\ iterator' = 0
  /\ GoTo("read")
  /\ UNCHANGED << records, stack, faults, env >>

\* Mutant: every call starts again from the iterator of the first one.
GetRecordsSameIterator ==
  /\ pc = "read"
  /\ Len(records) < Samples
  /\ \E upto \in iterator..Len(stream) :
       records' = records \o SubSeq(stream, iterator + 1, upto)
  /\ Again \/ GoTo("check")
  /\ UNCHANGED << iterator, stack, faults, env >>

\* Mutant: a response without records is not counted against the deadline.
GetRecordsForever ==
  /\ pc = "read"
  /\ Len(records) < Samples
  /\ \E upto \in iterator..Len(stream) :
       /\ records' = records \o SubSeq(stream, iterator + 1, upto)
       /\ iterator' = upto
       /\ IF upto = iterator THEN UNCHANGED << pc, polls, verdict >> ELSE Again
  /\ UNCHANGED << stack, faults, env >>

\* A response holds some of what follows the iterator, perhaps nothing; one
\* without NextShardIterator is the last.
GetRecords ==
  /\ pc = "read"
  /\ Len(records) < Samples
  /\ \E upto \in iterator..Len(stream) :
       /\ records' = records \o SubSeq(stream, iterator + 1, upto)
       /\ iterator' = upto
  /\ Again \/ GoTo("check")
  /\ UNCHANGED << stack, faults, env >>

ReadingEnds ==
  /\ pc = "read"
  /\ Len(records) >= Samples \/ DeadlinePassed
  /\ GoTo("check")
  /\ UNCHANGED << iterator, records, stack, faults, env >>

\* Mutant: the records that were read are checked, however many they are.
CheckRecordsUncounted ==
  /\ pc = "check"
  /\ \/ env.intact /\ Quit("pass")
     \/ ~env.intact /\ (Quit("exit_json") \/ Quit("assert_payload"))
  /\ UNCHANGED << iterator, records, stack, faults, env >>

CheckRecords ==
  /\ pc = "check"
  /\ \/ Len(records) # Samples /\ Quit("exit_count")
     \/ Len(records) = Samples /\ env.intact /\ Quit("pass")
     \/ /\ Len(records) = Samples /\ ~env.intact
        /\ Quit("exit_json") \/ Quit("assert_payload")
  /\ UNCHANGED << iterator, records, stack, faults, env >>

Script ==
  \/ ComposeFails \/ ComposeUp
  \/ WaitForAmqp \/ RestartEmulator \/ WaitForAmqpAgain
  \/ WaitForHealth \/ WarmUp \/ StartFluentBit
  \/ WaitForProxyReady
  \/ RequestRaises
  \/ GetShardIterator \/ GetRecords \/ ReadingEnds
  \/ CheckRecords

-----------------------------------------------------------------------------
(* The emulator, the proxy and Fluent Bit.                                 *)

\* Its readiness probe hangs for good, or its port opens, somewhat before it
\* is ready to serve.
EmulatorMoves ==
  /\ \/ emulator = "starting" /\ emulator' \in {"stuck", "listening"}
     \/ emulator = "listening" /\ emulator' = "serving"
  /\ UNCHANGED << script, proxyUp, fluent, shipper, faults, env >>

ProxyStarts ==
  /\ emulator # "off"
  /\ ~proxyUp
  /\ proxyUp' = TRUE
  /\ UNCHANGED << script, emulator, fluent, shipper, faults, env >>

\* The record was stored and Fluent Bit knows it.
Shipped(r) ==
  /\ emulator = "serving"
  /\ stream' = Append(stream, r)
  /\ buffer' = [buffer EXCEPT ![r] = "acked"]
  /\ UNCHANGED << attempts, faults >>

\* The last attempt is followed by no other.
AttemptFailed(r) ==
  /\ attempts' = [attempts EXCEPT ![r] = @ + 1]
  /\ buffer' = [buffer EXCEPT ![r] =
                  IF attempts[r] + 1 = MaxAttempts THEN "dropped" ELSE @]

AnswerLost(r) ==
  /\ env.losesAnswers
  /\ emulator = "serving"
  /\ UseFault
  /\ stream' = Append(stream, r)
  /\ AttemptFailed(r)

Refused(r) ==
  /\ AttemptFailed(r)
  /\ \/ emulator # "serving" /\ UNCHANGED faults
     \/ UseFault
  /\ UNCHANGED stream

PutRecord(r) ==
  /\ fluent
  /\ buffer[r] = "buffered"
  /\ Shipped(r) \/ AnswerLost(r) \/ Refused(r)
  /\ UNCHANGED << script, emulator, proxyUp, fluent, env >>

Stack ==
  \/ EmulatorMoves
  \/ ProxyStarts
  \/ \E r \in Records : PutRecord(r)

Finished ==
  /\ pc = "end"
  /\ UNCHANGED vars

Next == Script \/ Stack \/ Finished

Spec == Init /\ [][Next]_vars

\* The scripts are running processes, and so is the emulator once its port is
\* open.  Whether the port opens, and what Fluent Bit does, is left open.
FairSpec ==
  /\ Spec
  /\ WF_vars(Script)
  /\ WF_vars(emulator = "listening" /\ EmulatorMoves)

-----------------------------------------------------------------------------
(* Safety.                                                                 *)

\* "Fluent Bit only starts shipping its dummy records once the Event Hubs
\* emulator is [...] ready to accept AMQP connections and aws2azure is up"
\* (head of wait_for_stack.sh), also when the emulator hung, was restarted at
\* the moment it opened its port, or hung again.
StartsBehindOpenPort == fluent => PortOpen /\ proxyUp

\* "so its startup burst isn't dropped" (README): when the warm-up delay is
\* long enough, Fluent Bit gives a record up only after as many requests have
\* failed, never because the stack was not ready.
NoStartupDrop ==
  env.prompt =>
    \A r \in Records :
      buffer[r] = "dropped" => MaxFaults - faults >= MaxAttempts

\* PASS means that every record was read back, unless an answer to Fluent Bit
\* was lost on the way.
PassIsComplete ==
  verdict = "pass" /\ ~env.losesAnswers =>
    \A r \in Records : \E i \in DOMAIN records : records[i] = r

\* The script counts more records than were generated only when some record
\* is in the stream twice: it reads none of them again.
NoOvercount ==
  Len(records) > Samples =>
    \E i, j \in DOMAIN stream : i # j /\ stream[i] = stream[j]

Promise == INSTANCE Showcase WITH
  effect  <- Len(stream) >= Samples,
  seen    <- Len(records) >= Samples,
  outcome <- IF verdict \in {"none", "pass"} THEN verdict ELSE "fail"

\* The scripts keep the promise of every verification script: PASS follows an
\* observation of as many records as the stream already held.
KeepsPromise == Promise!Spec

-----------------------------------------------------------------------------
(* Liveness.                                                               *)

\* The scripts always end, also when the emulator hangs for ever, the shards
\* never look as expected, or records never arrive.
VerdictReached == <>(verdict # "none")

-----------------------------------------------------------------------------
(* What the PASS line says and the code does not show.                     *)

\* "PASS: all N records shipped by Fluent Bit's real, unmodified
\* kinesis_streams output plugin were read back": every record of the dummy
\* input is among those read.
AllReadBack ==
  verdict = "pass" =>
    \A r \in Records : \E i \in DOMAIN records : records[i] = r
=============================================================================
