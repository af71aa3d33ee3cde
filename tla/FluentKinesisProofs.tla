------------------------ MODULE FluentKinesisProofs -------------------------
(***************************************************************************)
(* What FluentKinesis promises for every number of samples, attempts,      *)
(* probes and faults, and for every setup of the stack.                    *)
(***************************************************************************)
EXTENDS FluentKinesis, Counting, FiniteSets, FiniteSetTheorems,
        SequenceTheorems

\* What the scripts have made sure of by the time they start Fluent Bit.
Staged ==
  /\ pc \in {"up", "amqp", "restart", "amqp_again", "health", "warm",
             "fluent"} => ~fluent
  /\ pc \in {"health", "warm", "fluent"} \/ fluent => PortOpen
  /\ pc \in {"warm", "fluent"} \/ fluent => proxyUp
  /\ env.prompt /\ (pc = "fluent" \/ fluent) => emulator = "serving"

\* Every attempt that failed on a stack that was ready has used up a fault.
Charged ==
  /\ \A r \in Records : buffer[r] = "buffered" => attempts[r] < MaxAttempts
  /\ \A r \in Records : buffer[r] = "dropped" => attempts[r] = MaxAttempts
  /\ env.prompt => \A r \in Records : attempts[r] + faults <= MaxFaults

\* What was collected is what stands in the stream before the iterator.
Collected ==
  /\ iterator <= Len(stream)
  /\ Len(records) = iterator
  /\ \A i \in 1..iterator : records[i] = stream[i]
  /\ pc \notin {"read", "check", "end"} => iterator = 0
  /\ verdict = "pass" => Len(records) = Samples
  /\ verdict # "none" <=> pc = "end"

\* No record is stored twice when every answer arrives.
StoredOnce ==
  ~env.losesAnswers =>
    /\ \A i \in 1..Len(stream) : buffer[stream[i]] = "acked"
    /\ \A i, j \in 1..Len(stream) : stream[i] = stream[j] => i = j

IInv == TypeOK /\ Staged /\ Charged /\ Collected /\ StoredOnce

-----------------------------------------------------------------------------
LEMMA Bounds ==
  /\ Samples \in Nat /\ Samples > 0
  /\ MaxAttempts \in Nat /\ MaxAttempts > 0
  /\ Budget \in Nat /\ Budget > 0
  /\ MaxFaults \in Nat
BY FluentAssumption

LEMMA InitIInv == Init => IInv
<1> SUFFICES ASSUME Init PROVE IInv OBVIOUS
<1>1. TypeOK
  <2>1. records \in Seq(Records) /\ stream \in Seq(Records)
    BY EmptySeq DEF Init
  <2>2. buffer \in [Records -> {"buffered", "acked", "dropped"}]
    BY DEF Init
  <2>3. attempts \in [Records -> 0..MaxAttempts]
    <3>1. 0 \in 0..MaxAttempts BY Bounds
    <3> QED BY <3>1 DEF Init
  <2>4. polls \in 0..Budget /\ faults \in 0..MaxFaults /\ iterator \in Nat
    BY Bounds DEF Init
  <2>5. proxyUp \in BOOLEAN /\ fluent \in BOOLEAN BY DEF Init
  <2> QED BY <2>1, <2>2, <2>3, <2>4, <2>5 DEF Init, TypeOK, Labels
<1>2. Staged BY DEF Init, Staged
<1>3. Charged BY Bounds DEF Init, Charged
<1>4. Collected BY DEF Init, Collected
<1>5. StoredOnce BY DEF Init, StoredOnce
<1> QED BY <1>1, <1>2, <1>3, <1>4, <1>5 DEF IInv

-----------------------------------------------------------------------------
(* wait_for_stack.sh                                                       *)

Starting ==
  \/ ComposeFails \/ ComposeUp
  \/ WaitForAmqp \/ RestartEmulator \/ WaitForAmqpAgain
  \/ WaitForHealth \/ WarmUp \/ StartFluentBit

\* It ships and reads nothing.
LEMMA StartingEffects ==
  Starting => UNCHANGED << iterator, records, shipper, env >>
BY DEF Starting, ComposeFails, ComposeUp, WaitForAmqp, RestartEmulator,
       WaitForAmqpAgain, WaitForTcp, WaitForHealth, WarmUp, StartFluentBit,
       stack

LEMMA StartingStep == IInv /\ Starting => IInv'
<1> SUFFICES ASSUME IInv, Starting PROVE IInv' OBVIOUS
<1> USE Bounds
<1>0. TypeOK /\ Staged /\ Charged /\ Collected /\ StoredOnce BY DEF IInv
<1>1. UNCHANGED << iterator, records, buffer, attempts, stream, env >>
  BY StartingEffects DEF shipper
<1>2. /\ pc \notin {"read", "check", "end"}
      /\ pc' \in Labels \ {"read", "check"}
      /\ verdict' \in {verdict} \union Failures
      /\ verdict' # verdict <=> pc' = "end"
      /\ faults' \in 0..MaxFaults /\ faults' <= faults
      /\ polls' \in 0..Budget
  BY <1>0 DEF Starting, ComposeFails, ComposeUp, WaitForAmqp,
              RestartEmulator, WaitForAmqpAgain, WaitForTcp, WaitForHealth,
              WarmUp, StartFluentBit, GoTo, Quit, Again, UseFault, stack,
              TypeOK, Collected, Labels, Failures
<1>3. /\ emulator' \in {emulator, "starting"}
      /\ proxyUp' = proxyUp
      /\ fluent' \in BOOLEAN
  BY <1>0 DEF Starting, ComposeFails, ComposeUp, WaitForAmqp,
              RestartEmulator, WaitForAmqpAgain, WaitForTcp, WaitForHealth,
              WarmUp, StartFluentBit, stack, TypeOK
<1>4. TypeOK' BY <1>0, <1>1, <1>2, <1>3 DEF TypeOK
<1>5. Staged'
  BY <1>0 DEF Starting, ComposeFails, ComposeUp, WaitForAmqp,
              RestartEmulator, WaitForAmqpAgain, WaitForTcp, WaitForHealth,
              WarmUp, StartFluentBit, GoTo, Quit, Again, stack, TypeOK,
              Staged, PortOpen
<1>6. Charged' BY <1>0, <1>1, <1>2 DEF Charged, TypeOK
<1>7. Collected' BY <1>0, <1>1, <1>2 DEF Collected, Failures
<1>8. StoredOnce' BY <1>0, <1>1 DEF StoredOnce
<1> QED BY <1>4, <1>5, <1>6, <1>7, <1>8 DEF IInv

-----------------------------------------------------------------------------
(* verify_e2e_run.py                                                       *)

Verifying ==
  \/ WaitForProxyReady \/ RequestRaises \/ GetShardIterator \/ GetRecords
  \/ ReadingEnds \/ CheckRecords

\* It leaves the stack alone, and spends faults.
LEMMA VerifyingEffects ==
  Verifying => UNCHANGED << stack, env >>
BY DEF Verifying, WaitForProxyReady, RequestRaises, GetShardIterator,
       GetRecords, ReadingEnds, CheckRecords

\* One response of GetRecords continues what was collected.
LEMMA OneResponse ==
  ASSUME IInv, GetRecords
  PROVE  /\ iterator' \in iterator..Len(stream)
         /\ records' \in Seq(Records)
         /\ Len(records') = iterator'
         /\ \A i \in 1..iterator' : records'[i] = stream[i]
<1>0. TypeOK /\ Collected BY DEF IInv
<1>1. PICK upto \in iterator..Len(stream) :
        /\ records' = records \o SubSeq(stream, iterator + 1, upto)
        /\ iterator' = upto
  BY DEF GetRecords
<1> DEFINE more == SubSeq(stream, iterator + 1, upto)
<1>2. /\ iterator \in Nat /\ upto \in Nat /\ iterator <= upto
      /\ upto <= Len(stream) /\ Len(stream) \in Nat
      /\ stream \in Seq(Records) /\ records \in Seq(Records)
  BY <1>0, <1>1, LenProperties DEF TypeOK, Collected
<1>3. \A i \in (iterator + 1)..upto : stream[i] \in Records
  BY <1>2, ElementOfSeq
<1>4. /\ more \in Seq(Records)
      /\ Len(more) = upto - iterator
      /\ \A i \in 1..(upto - iterator) : more[i] = stream[iterator + i]
  <2>1. /\ more \in Seq(Records)
        /\ Len(more) = IF iterator + 1 <= upto THEN upto - (iterator + 1) + 1
                                                ELSE 0
        /\ \A i \in 1..(upto - (iterator + 1) + 1) :
             more[i] = stream[iterator + 1 + i - 1]
    BY <1>2, <1>3, SubSeqProperties
  <2> QED BY <1>2, <2>1
<1>5. /\ records \o more \in Seq(Records)
      /\ Len(records \o more) = Len(records) + Len(more)
      /\ \A i \in 1..(Len(records) + Len(more)) :
           (records \o more)[i] = IF i <= Len(records) THEN records[i]
                                  ELSE more[i - Len(records)]
  BY <1>2, <1>4, ConcatProperties
<1>6. Len(records) = iterator /\ \A i \in 1..iterator : records[i] = stream[i]
  BY <1>0 DEF Collected
<1> HIDE DEF more
<1>7. \A i \in 1..upto : (records \o more)[i] = stream[i]
  <2> SUFFICES ASSUME NEW i \in 1..upto
               PROVE  (records \o more)[i] = stream[i]
    OBVIOUS
  <2>1. CASE i <= iterator BY <1>2, <1>4, <1>5, <1>6, <2>1
  <2>2. CASE i > iterator
    <3>1. i - iterator \in 1..(upto - iterator) BY <1>2, <2>2
    <3>2. more[i - iterator] = stream[iterator + (i - iterator)]
      BY <1>4, <3>1
    <3>3. iterator + (i - iterator) = i BY <1>2
    <3>4. (records \o more)[i] = more[i - iterator]
      BY <1>2, <1>4, <1>5, <1>6, <2>2
    <3> QED BY <3>2, <3>3, <3>4
  <2>3. i <= iterator \/ i > iterator BY <1>2
  <2> QED BY <2>1, <2>2, <2>3
<1>8. records' = records \o more /\ iterator' = upto BY <1>1 DEF more
<1>9. Len(records \o more) = upto
  <2>1. iterator + (upto - iterator) = upto BY <1>2
  <2> QED BY <1>4, <1>5, <1>6, <2>1
<1> QED BY <1>1, <1>5, <1>7, <1>8, <1>9

LEMMA VerifyingStep == IInv /\ Verifying => IInv'
<1> SUFFICES ASSUME IInv, Verifying PROVE IInv' OBVIOUS
<1> USE Bounds
<1>0. TypeOK /\ Staged /\ Charged /\ Collected /\ StoredOnce BY DEF IInv
<1>1. UNCHANGED << emulator, proxyUp, fluent, buffer, attempts, stream, env >>
  BY VerifyingEffects DEF stack, shipper
<1>2. /\ pc \in {"describe", "iterator", "read", "check"}
      /\ pc' \in {"describe", "iterator", "read", "check", "end"}
      /\ faults' \in 0..MaxFaults /\ faults' <= faults
      /\ polls' \in 0..Budget
      /\ verdict' \in {verdict, "pass"} \union Failures
      /\ verdict' # verdict <=> pc' = "end"
  BY <1>0 DEF Verifying, WaitForProxyReady, RequestRaises, GetShardIterator,
              GetRecords, ReadingEnds, CheckRecords, GoTo, Quit, Again,
              UseFault, TypeOK, Collected, Labels, Failures
<1>3. /\ iterator' \in Nat /\ records' \in Seq(Records)
      /\ iterator' <= Len(stream) /\ Len(records') = iterator'
      /\ \A i \in 1..iterator' : records'[i] = stream[i]
      /\ pc' \notin {"read", "check", "end"} => iterator' = 0
      /\ verdict' = "pass" => Len(records') = Samples
  <2>1. CASE GetRecords
    <3>1. Len(stream) \in Nat /\ iterator \in Nat
      BY <1>0, LenProperties DEF TypeOK
    <3>2. verdict' = verdict /\ pc' \in {"read", "check"}
      BY <2>1 DEF GetRecords, Again, GoTo
    <3>3. verdict = "none" BY <1>0, <2>1 DEF Collected, GetRecords
    <3> QED BY <2>1, <3>1, <3>2, <3>3, OneResponse
  <2>2. CASE GetShardIterator
    BY <1>0, <1>1, <2>2 DEF GetShardIterator, GoTo, Collected, TypeOK
  <2>3. CASE WaitForProxyReady \/ RequestRaises \/ ReadingEnds
    BY <1>0, <2>3 DEF WaitForProxyReady, RequestRaises, ReadingEnds, GoTo,
                      Quit, Again, Collected, TypeOK, Failures
  <2>4. CASE CheckRecords
    BY <1>0, <2>4 DEF CheckRecords, Quit, Collected, TypeOK
  <2> QED BY <2>1, <2>2, <2>3, <2>4 DEF Verifying
<1>4. TypeOK' BY <1>0, <1>1, <1>2, <1>3 DEF TypeOK, Labels
<1>5. Staged' BY <1>0, <1>1, <1>2 DEF Staged, PortOpen
<1>6. Charged' BY <1>0, <1>1, <1>2 DEF Charged, TypeOK
<1>7. Collected' BY <1>0, <1>1, <1>2, <1>3 DEF Collected, Failures
<1>8. StoredOnce' BY <1>0, <1>1 DEF StoredOnce
<1> QED BY <1>4, <1>5, <1>6, <1>7, <1>8 DEF IInv

-----------------------------------------------------------------------------
(* The emulator, the proxy and Fluent Bit.                                 *)

LEMMA EmulatorStep ==
  ASSUME IInv, EmulatorMoves \/ ProxyStarts
  PROVE  IInv'
<1>0. TypeOK /\ Staged /\ Charged /\ Collected /\ StoredOnce BY DEF IInv
<1>1. /\ UNCHANGED << script, fluent, shipper, faults, env >>
      /\ emulator' \in {"off", "starting", "stuck", "listening", "serving"}
      /\ proxyUp' \in BOOLEAN
  BY <1>0 DEF EmulatorMoves, ProxyStarts, TypeOK
<1>2. TypeOK' BY <1>0, <1>1 DEF TypeOK, script, shipper
<1>3. Staged'
  BY <1>0 DEF EmulatorMoves, ProxyStarts, Staged, PortOpen, script, TypeOK
<1>4. Charged' BY <1>0, <1>1 DEF Charged, shipper
<1>5. Collected' BY <1>0, <1>1 DEF Collected, script, shipper
<1>6. StoredOnce' BY <1>0, <1>1 DEF StoredOnce, shipper
<1> QED BY <1>2, <1>3, <1>4, <1>5, <1>6 DEF IInv

\* What a failed attempt does to the books of Fluent Bit.
LEMMA FailedAttempt ==
  ASSUME TypeOK, Charged, NEW r \in Records, buffer[r] = "buffered",
         AttemptFailed(r)
  PROVE  /\ attempts' \in [Records -> 0..MaxAttempts]
         /\ buffer' \in [Records -> {"buffered", "acked", "dropped"}]
         /\ attempts'[r] = attempts[r] + 1
         /\ buffer'[r] = IF attempts[r] + 1 = MaxAttempts THEN "dropped"
                                                         ELSE "buffered"
         /\ \A q \in Records \ {r} :
              attempts'[q] = attempts[q] /\ buffer'[q] = buffer[q]
<1>1. attempts[r] \in Nat /\ attempts[r] < MaxAttempts
  BY Bounds DEF TypeOK, Charged
<1>2. attempts[r] + 1 \in 0..MaxAttempts BY <1>1, Bounds
<1> QED BY <1>1, <1>2 DEF AttemptFailed, TypeOK

LEMMA PutRecordStep ==
  ASSUME IInv, NEW r \in Records, PutRecord(r)
  PROVE  IInv'
<1> USE Bounds
<1>0. TypeOK /\ Staged /\ Charged /\ Collected /\ StoredOnce BY DEF IInv
<1>1. /\ UNCHANGED << script, emulator, proxyUp, fluent, env >>
      /\ fluent /\ buffer[r] = "buffered"
  BY DEF PutRecord
<1>2. /\ Len(stream) \in Nat /\ iterator \in Nat /\ iterator <= Len(stream)
      /\ \A i \in 1..Len(stream) : stream[i] \in Records
  BY <1>0, LenProperties, ElementOfSeq DEF TypeOK, Collected
<1>3. /\ Append(stream, r) \in Seq(Records)
      /\ Len(Append(stream, r)) = Len(stream) + 1
      /\ \A i \in 1..Len(stream) : Append(stream, r)[i] = stream[i]
      /\ Append(stream, r)[Len(stream) + 1] = r
  BY <1>0, AppendProperties DEF TypeOK
<1>4. /\ stream' \in Seq(Records)
      /\ Len(stream') \in Nat /\ Len(stream') >= Len(stream)
      /\ \A i \in 1..Len(stream) : stream'[i] = stream[i]
  <2>1. stream' \in {stream, Append(stream, r)}
    BY DEF PutRecord, Shipped, AnswerLost, Refused
  <2>2. CASE stream' = stream BY <1>0, <1>2, <2>2 DEF TypeOK
  <2>3. CASE stream' = Append(stream, r) BY <1>2, <1>3, <2>3
  <2> QED BY <2>1, <2>2, <2>3
<1>5. Staged' BY <1>0, <1>1 DEF Staged, PortOpen, script
<1>6. Collected'
  <2>1. iterator' = iterator /\ records' = records /\ pc' = pc
        /\ verdict' = verdict
    BY <1>1 DEF script
  <2>2. \A i \in 1..iterator : i \in 1..Len(stream) BY <1>2
  <2> QED BY <1>0, <1>2, <1>4, <2>1, <2>2 DEF Collected
<1>7. CASE Shipped(r)
  <2>1. /\ UNCHANGED << attempts, faults >>
        /\ buffer' \in [Records -> {"buffered", "acked", "dropped"}]
        /\ buffer'[r] = "acked"
        /\ \A q \in Records \ {r} : buffer'[q] = buffer[q]
        /\ stream' = Append(stream, r)
    BY <1>0, <1>7 DEF Shipped, TypeOK
  <2>2. TypeOK' BY <1>0, <1>1, <1>4, <2>1 DEF TypeOK, script
  <2>3. Charged' BY <1>0, <1>1, <2>1 DEF Charged
  <2>4. ASSUME ~env.losesAnswers
        PROVE  /\ \A i \in 1..Len(stream') : buffer'[stream'[i]] = "acked"
               /\ \A i, j \in 1..Len(stream') :
                    stream'[i] = stream'[j] => i = j
    <3>1. \A i \in 1..Len(stream) : buffer[stream[i]] = "acked"
      BY <1>0, <2>4 DEF StoredOnce
    <3>2. \A i \in 1..Len(stream) : stream[i] # r BY <1>1, <3>1
    <3>3. \A i \in 1..Len(stream') :
            i \in 1..Len(stream) \/ i = Len(stream) + 1
      BY <1>2, <1>3, <2>1
    <3>4. \A i \in 1..Len(stream) : buffer'[stream'[i]] = "acked"
      BY <1>2, <1>4, <2>1, <3>1, <3>2
    <3>5. buffer'[stream'[Len(stream) + 1]] = "acked" BY <1>3, <2>1
    <3>6. \A i, j \in 1..Len(stream) : stream[i] = stream[j] => i = j
      BY <1>0, <2>4 DEF StoredOnce
    <3>7. \A i \in 1..Len(stream) : stream'[i] # stream'[Len(stream) + 1]
      BY <1>3, <1>4, <2>1, <3>2
    <3>8. \A i, j \in 1..Len(stream') : stream'[i] = stream'[j] => i = j
      BY <1>4, <3>3, <3>6, <3>7
    <3> QED BY <3>3, <3>4, <3>5, <3>8
  <2>5. StoredOnce' BY <1>1, <2>4 DEF StoredOnce
  <2> QED BY <1>5, <1>6, <2>2, <2>3, <2>5 DEF IInv
<1>8. CASE AnswerLost(r) \/ Refused(r)
  <2>1. AttemptFailed(r) BY <1>8 DEF AnswerLost, Refused
  <2>2. /\ attempts' \in [Records -> 0..MaxAttempts]
        /\ buffer' \in [Records -> {"buffered", "acked", "dropped"}]
        /\ attempts'[r] = attempts[r] + 1
        /\ buffer'[r] = IF attempts[r] + 1 = MaxAttempts THEN "dropped"
                                                        ELSE "buffered"
        /\ \A q \in Records \ {r} :
             attempts'[q] = attempts[q] /\ buffer'[q] = buffer[q]
    BY <1>0, <1>1, <2>1, FailedAttempt
  <2>3. /\ faults \in Nat /\ faults <= MaxFaults
        /\ \A q \in Records : attempts[q] \in Nat
        /\ attempts[r] < MaxAttempts
    BY <1>0, <1>1 DEF TypeOK, Charged
  <2>4. /\ faults' \in {faults, faults - 1} \cap 0..MaxFaults
        /\ faults' = faults => emulator # "serving"
    BY <1>8, <2>3 DEF AnswerLost, Refused, UseFault
  <2>5. TypeOK' BY <1>0, <1>1, <1>4, <2>2, <2>4 DEF TypeOK, script
  <2>6. Charged'
    <3>1. env.prompt => emulator = "serving" BY <1>0, <1>1 DEF Staged
    <3>2. ASSUME env.prompt, NEW q \in Records
          PROVE  attempts'[q] + faults' <= MaxFaults
      <4>1. faults' = faults - 1 BY <2>4, <3>1, <3>2
      <4>2. attempts[q] + faults <= MaxFaults BY <1>0, <3>2 DEF Charged
      <4> QED BY <2>2, <2>3, <4>1, <4>2
    <3>3. \A q \in Records :
            /\ buffer'[q] = "buffered" => attempts'[q] < MaxAttempts
            /\ buffer'[q] = "dropped" => attempts'[q] = MaxAttempts
      BY <1>0, <2>2, <2>3 DEF Charged
    <3> QED BY <1>1, <3>2, <3>3 DEF Charged
  <2>7. StoredOnce'
    <3>1. CASE env.losesAnswers BY <1>1, <3>1 DEF StoredOnce
    <3>2. CASE ~env.losesAnswers
      <4>1. stream' = stream BY <1>8, <3>2 DEF AnswerLost, Refused
      <4>2. \A i \in 1..Len(stream) : buffer[stream[i]] = "acked"
        BY <1>0, <3>2 DEF StoredOnce
      <4>3. \A i \in 1..Len(stream) : buffer'[stream[i]] = "acked"
        BY <1>1, <1>2, <2>2, <4>2
      <4> QED BY <1>0, <1>1, <3>2, <4>1, <4>3 DEF StoredOnce
    <3> QED BY <3>1, <3>2
  <2> QED BY <1>5, <1>6, <2>5, <2>6, <2>7 DEF IInv
<1> QED BY <1>7, <1>8 DEF PutRecord

-----------------------------------------------------------------------------
\* The invariant holds in every state.
THEOREM Invariance == Spec => []IInv
<1>1. IInv /\ [Next]_vars => IInv'
  <2> SUFFICES ASSUME IInv, [Next]_vars PROVE IInv' OBVIOUS
  <2>1. CASE UNCHANGED vars
    BY <2>1 DEF IInv, TypeOK, Staged, PortOpen, Charged, Collected,
                StoredOnce, vars, script, stack, shipper
  <2>2. CASE Script
    <3>1. Starting \/ Verifying BY <2>2 DEF Script, Starting, Verifying
    <3> QED BY <3>1, StartingStep, VerifyingStep
  <2>3. CASE Stack
    BY <2>3, EmulatorStep, PutRecordStep DEF Stack
  <2> QED BY <2>1, <2>2, <2>3 DEF Next, Finished
<1> QED BY InitIInv, <1>1, PTL DEF Spec

\* Every variable keeps its type; no wait exceeds its budget and no record its
\* attempts.
THEOREM TypeCorrect == Spec => []TypeOK
<1>1. IInv => TypeOK BY DEF IInv
<1> QED BY Invariance, <1>1, PTL

\* Fluent Bit never runs before the port is open and the proxy is healthy.
THEOREM OpenPortFirst == Spec => []StartsBehindOpenPort
<1>1. IInv => StartsBehindOpenPort
  BY DEF IInv, Staged, StartsBehindOpenPort
<1> QED BY Invariance, <1>1, PTL

\* On a stack that is ready in time a record is given up only for failures.
THEOREM NothingDroppedAtStart == Spec => []NoStartupDrop
<1>1. IInv => NoStartupDrop
  <2> SUFFICES ASSUME IInv, env.prompt, NEW r \in Records,
                      buffer[r] = "dropped"
               PROVE  MaxFaults - faults >= MaxAttempts
    BY DEF NoStartupDrop
  <2>1. attempts[r] = MaxAttempts /\ attempts[r] + faults <= MaxFaults
    BY DEF IInv, Charged
  <2>2. faults \in Nat BY Bounds DEF IInv, TypeOK
  <2> QED BY <2>1, <2>2, Bounds
<1> QED BY Invariance, <1>1, PTL

-----------------------------------------------------------------------------
\* PASS means that all records were read, for as many as were generated: as
\* many different records as there are in all are all of them.
THEOREM PassIsCompleteAlways == Spec => []PassIsComplete
<1>1. IInv => PassIsComplete
  <2> SUFFICES ASSUME IInv, verdict = "pass", ~env.losesAnswers,
                      NEW r \in Records
               PROVE  \E i \in DOMAIN records : records[i] = r
    BY DEF PassIsComplete
  <2>0. TypeOK /\ Collected /\ StoredOnce BY DEF IInv
  <2>1. /\ DOMAIN records = 1..Samples
        /\ records \in [1..Samples -> Records]
        /\ Len(records) = Samples /\ iterator = Samples
    BY <2>0, LenProperties DEF TypeOK, Collected
  <2>2. Len(stream) \in Nat /\ Samples <= Len(stream)
    BY <2>0, <2>1, LenProperties DEF TypeOK, Collected
  <2>3. \A i, j \in 1..Samples : records[i] = records[j] => i = j
    BY <2>0, <2>1, <2>2, Bounds DEF Collected, StoredOnce
  <2>4. records \in Injection(1..Samples, Records)
    BY <2>1, <2>3 DEF Injection, IsInjective
  <2>5. IsFiniteSet(Records) /\ Cardinality(1..Samples) = Cardinality(Records)
    BY Bounds, FS_Interval DEF Records
  <2>6. records \in Surjection(1..Samples, Records)
    BY <2>4, <2>5, FS_Injection
  <2> QED BY <2>1, <2>6 DEF Surjection
<1> QED BY Invariance, <1>1, PTL

\* More records than were generated are read only when one was stored twice.
THEOREM NeverOvercounted == Spec => []NoOvercount
<1>1. IInv => NoOvercount
  <2> SUFFICES ASSUME IInv, Len(records) > Samples
               PROVE  \E i, j \in DOMAIN stream :
                        i # j /\ stream[i] = stream[j]
    BY DEF NoOvercount
  <2>0. TypeOK /\ Collected BY DEF IInv
  <2>1. /\ Len(records) \in Nat /\ Len(stream) \in Nat
        /\ records \in [1..Len(records) -> Records]
        /\ DOMAIN stream = 1..Len(stream)
        /\ Len(records) <= Len(stream)
    BY <2>0, LenProperties DEF TypeOK, Collected
  <2>2. /\ IsFiniteSet(Records) /\ IsFiniteSet(1..Len(records))
        /\ Cardinality(Records) < Cardinality(1..Len(records))
    BY <2>1, Bounds, FS_Interval DEF Records
  <2>3. PICK i, j \in 1..Len(records) : i # j /\ records[i] = records[j]
    BY <2>1, <2>2, FS_PigeonHole
  <2>4. stream[i] = stream[j] BY <2>0, <2>3 DEF Collected
  <2>5. i \in DOMAIN stream /\ j \in DOMAIN stream BY <2>1, <2>3
  <2> QED BY <2>3, <2>4, <2>5
<1> QED BY Invariance, <1>1, PTL

-----------------------------------------------------------------------------
\* The stream only grows.
LEMMA StreamGrows ==
  ASSUME IInv, Stack
  PROVE  UNCHANGED script /\ Len(stream') >= Len(stream)
<1>0. stream \in Seq(Records) /\ Len(stream) \in Nat
  BY LenProperties DEF IInv, TypeOK
<1>1. CASE EmulatorMoves \/ ProxyStarts
  BY <1>0, <1>1 DEF EmulatorMoves, ProxyStarts, shipper
<1>2. ASSUME NEW r \in Records, PutRecord(r)
      PROVE  UNCHANGED script /\ Len(stream') >= Len(stream)
  <2>1. UNCHANGED script /\ stream' \in {stream, Append(stream, r)}
    BY <1>2 DEF PutRecord, Shipped, AnswerLost, Refused
  <2>2. Len(Append(stream, r)) = Len(stream) + 1
    BY <1>0, AppendProperties
  <2>3. CASE stream' = stream BY <1>0, <2>1, <2>3
  <2>4. CASE stream' = Append(stream, r) BY <1>0, <2>1, <2>2, <2>4
  <2> QED BY <2>1, <2>3, <2>4
<1> QED BY <1>1, <1>2 DEF Stack

\* What one step of the scripts says and has seen.
LEMMA ScriptEffects ==
  ASSUME IInv, Script
  PROVE  /\ Len(stream') = Len(stream)
         /\ verdict' # verdict => verdict = "none" /\ records' = records
         /\ verdict' = "pass" /\ verdict # "pass" => Len(records) = Samples
         /\ Len(records') # Len(records) =>
              verdict = "none" /\ Len(records') <= Len(stream)
<1>0. TypeOK /\ Collected BY DEF IInv
<1>1. Starting \/ Verifying BY DEF Script, Starting, Verifying
<1>2. UNCHANGED stream
  BY <1>1, StartingEffects, VerifyingEffects DEF stack, shipper
<1>3. CASE GetRecords
  <2>1. verdict' = verdict /\ verdict = "none"
    BY <1>0, <1>3 DEF GetRecords, Again, GoTo, Collected
  <2>2. Len(records') <= Len(stream)
    <3>1. iterator \in Nat /\ Len(stream) \in Nat
      BY <1>0, LenProperties DEF TypeOK
    <3> QED BY <1>3, <3>1, OneResponse
  <2> QED BY <1>2, <2>1, <2>2
<1>4. CASE ~GetRecords
  <2>1. records' = records /\ pc # "end"
    BY <1>4 DEF Script, ComposeFails, ComposeUp, WaitForAmqp,
                RestartEmulator, WaitForAmqpAgain, WaitForTcp, WaitForHealth,
                WarmUp, StartFluentBit, WaitForProxyReady, RequestRaises,
                GetShardIterator, ReadingEnds, CheckRecords
  <2>2. verdict = "none" BY <1>0, <2>1 DEF Collected
  <2>3. verdict' = "pass" => Len(records) = Samples
    BY <1>4, <2>2 DEF Script, ComposeFails, ComposeUp, WaitForAmqp,
                RestartEmulator, WaitForAmqpAgain, WaitForTcp, WaitForHealth,
                WarmUp, StartFluentBit, WaitForProxyReady, RequestRaises,
                GetShardIterator, ReadingEnds, CheckRecords, GoTo, Quit, Again
  <2> QED BY <1>2, <2>1, <2>2, <2>3
<1> QED BY <1>3, <1>4

\* FluentKinesis implements Showcase.
THEOREM PromiseKept == Spec => KeepsPromise
<1> USE DEF Promise!vars
<1>1. Init => Promise!Init
  <2> SUFFICES ASSUME Init PROVE Promise!Init OBVIOUS
  <2>1. Len(stream) = 0 /\ Len(records) = 0 BY DEF Init
  <2> QED BY <2>1, Bounds DEF Init, Promise!Init
<1>2. IInv /\ [Next]_vars => [Promise!Next]_(Promise!vars)
  <2> SUFFICES ASSUME IInv, [Next]_vars
               PROVE  [Promise!Next]_(Promise!vars)
    OBVIOUS
  <2>0. Len(stream) \in Nat /\ Len(records) \in Nat
        /\ Len(records) <= Len(stream)
    BY LenProperties DEF IInv, TypeOK, Collected
  <2> USE Bounds DEF Promise!Next, Promise!TakeEffect, Promise!Observe,
                     Promise!Pass, Promise!Fail
  <2>1. CASE Script
    <3>1. CASE records' = records
      BY <2>0, <2>1, <3>1, ScriptEffects
    <3>2. CASE records' # records
      <4>1. verdict' = verdict BY <2>1, <3>2, ScriptEffects
      <4>2. CASE Len(records') = Len(records)
        BY <2>1, <4>1, <4>2, ScriptEffects
      <4>3. CASE Len(records') # Len(records)
        <5>1. GetRecords
          BY <2>1, <3>2 DEF Script, ComposeFails, ComposeUp, WaitForAmqp,
                RestartEmulator, WaitForAmqpAgain, WaitForTcp, WaitForHealth,
                WarmUp, StartFluentBit, WaitForProxyReady, RequestRaises,
                GetShardIterator, ReadingEnds, CheckRecords
        <5>2. Len(records') \in Nat BY <5>1, OneResponse, LenProperties
        <5>3. ~(Len(records) >= Samples)
          BY <2>0, <5>1 DEF GetRecords
        <5> QED BY <2>0, <2>1, <4>1, <4>3, <5>2, <5>3, ScriptEffects
      <4> QED BY <4>2, <4>3
    <3> QED BY <3>1, <3>2
  <2>2. CASE Stack
    <3>1. UNCHANGED << records, verdict >> /\ Len(stream') >= Len(stream)
      BY <2>2, StreamGrows DEF script
    <3>2. Len(stream') \in Nat
      <4>1. IInv' BY <2>2, EmulatorStep, PutRecordStep DEF Stack
      <4> QED BY <4>1, LenProperties DEF IInv, TypeOK
    <3> QED BY <2>0, <3>1, <3>2
  <2>3. CASE UNCHANGED vars
    BY <2>3 DEF vars, script, stack, shipper
  <2> QED BY <2>1, <2>2, <2>3 DEF Next, Finished
<1> QED BY Invariance, <1>1, <1>2, PTL DEF Spec, KeepsPromise, Promise!Spec

-----------------------------------------------------------------------------
(* The scripts end after a bounded number of steps.                        *)

\* The stages that lie ahead, and the probes, or the requests for records,
\* before the present one has to end.
Stage ==
  CASE pc = "up" -> 11
    [] pc = "amqp" -> 10
    [] pc = "restart" -> 9
    [] pc = "amqp_again" -> 8
    [] pc = "health" -> 7
    [] pc = "warm" -> 6
    [] pc = "fluent" -> 5
    [] pc = "describe" -> 4
    [] pc = "iterator" -> 3
    [] pc = "read" -> 2
    [] pc = "check" -> 1
    [] OTHER -> 0

Within ==
  IF pc \in {"amqp", "amqp_again", "health", "describe", "read"}
  THEN Budget - polls ELSE 0

Width == Budget + 1

Remaining == Left(Stage, Width, Within)
MostSteps == Left(11, Width, Width)

Placed ==
  /\ Stage \in 0..11
  /\ Within \in 0..(Width - 1)
  /\ Stage = 0 <=> pc = "end"
  /\ Stage = 0 => Within = 0

LEMMA Places ==
  ASSUME TypeOK
  PROVE  Placed
<1>1. Budget - polls \in 0..Budget
  BY Bounds DEF TypeOK
<1>2. Stage \in 0..11 /\ (Stage = 0 <=> pc = "end")
  BY DEF Stage, TypeOK, Labels
<1>3. Within \in 0..(Width - 1) /\ (Stage = 0 => Within = 0)
  BY <1>1, <1>2, Bounds DEF Within, Width
<1> QED BY <1>2, <1>3 DEF Placed

\* Every step of the scripts takes them to a later stage or nearer to the end
\* of the present one.
LEMMA ScriptAdvances ==
  ASSUME IInv, Script
  PROVE  \/ Stage' < Stage
         \/ Stage' = Stage /\ Within' < Within
<1> USE Bounds
<1>0. polls \in 0..Budget
  BY DEF IInv, TypeOK
<1>1. CASE ComposeFails \/ RequestRaises \/ CheckRecords
  BY <1>1 DEF ComposeFails, RequestRaises, CheckRecords, Quit, Stage
<1>2. CASE \/ ComposeUp \/ RestartEmulator \/ WarmUp \/ StartFluentBit
           \/ GetShardIterator \/ ReadingEnds
  BY <1>2 DEF ComposeUp, RestartEmulator, WarmUp, StartFluentBit,
              GetShardIterator, ReadingEnds, GoTo, Stage
<1>3. CASE WaitForAmqp \/ WaitForAmqpAgain
  BY <1>0, <1>3 DEF WaitForAmqp, WaitForAmqpAgain, WaitForTcp, GoTo, Again,
                    Quit, Stage, Within
<1>4. CASE WaitForHealth \/ WaitForProxyReady
  BY <1>0, <1>4 DEF WaitForHealth, WaitForProxyReady, GoTo, Again, Quit,
                    Stage, Within
<1>5. CASE GetRecords
  BY <1>0, <1>5 DEF GetRecords, GoTo, Again, Stage, Within
<1> QED BY <1>1, <1>2, <1>3, <1>4, <1>5 DEF Script

\* The stack does not move the scripts.
LEMMA StackKeepsScript == Stack => UNCHANGED script
BY DEF Stack, EmulatorMoves, ProxyStarts, PutRecord

\* The scripts end after at most MostSteps steps of their own, also when the
\* emulator hangs or no record arrives: every step of them takes at least one
\* from what remains, nothing adds to it, and the verdict is reached exactly
\* when nothing remains.
THEOREM ScriptIsBounded ==
  Spec => /\ [](/\ Remaining \in 0..MostSteps
                /\ Remaining = 0 <=> verdict # "none")
          /\ [][/\ Remaining' <= Remaining
                /\ Script => Remaining' < Remaining]_vars
<1>0. Width \in Nat \ {0} /\ 11 \in Nat
  BY Bounds DEF Width
<1>1. IInv => Placed
  BY Places DEF IInv
<1>2. IInv /\ Placed =>
        Remaining \in 0..MostSteps /\ (Remaining = 0 <=> verdict # "none")
  <2> SUFFICES ASSUME IInv, Placed
               PROVE  /\ Remaining \in 0..MostSteps
                      /\ Remaining = 0 <=> verdict # "none"
    OBVIOUS
  <2>1. Stage \in 0..11 /\ Within \in 0..Width
    BY <1>0 DEF Placed
  <2>2. Remaining \in 0..MostSteps
    BY <1>0, <2>1, LeftBounds DEF Remaining, MostSteps
  <2>3. Remaining = 0 <=> Stage = 0 /\ Within = 0
    BY <1>0, <2>1, LeftIsNone DEF Remaining
  <2> QED BY <2>2, <2>3 DEF Placed, IInv, Collected
<1>3. IInv /\ Placed /\ Placed' /\ [Next]_vars =>
        [/\ Remaining' <= Remaining
         /\ Script => Remaining' < Remaining]_vars
  <2> SUFFICES ASSUME IInv, Placed, Placed', Next
               PROVE  /\ Remaining' <= Remaining
                      /\ Script => Remaining' < Remaining
    BY DEF Remaining
  <2>1. /\ Stage \in Nat /\ Within \in Nat /\ Within \in 0..Width
        /\ Stage' \in Nat /\ Within' \in Nat /\ Within' \in 0..(Width - 1)
        /\ Width' = Width
    BY <1>0 DEF Placed, Width
  <2>2. Remaining \in Nat /\ Remaining' \in Nat
    BY <1>0, <2>1, LeftType DEF Remaining
  <2>3. CASE Script
    <3>1. Remaining' < Remaining
      BY <1>0, <2>1, <2>3, ScriptAdvances, LeftFalls DEF Remaining
    <3> QED BY <2>2, <3>1
  <2>4. CASE ~Script
    <3>1. UNCHANGED script
      BY <2>4, StackKeepsScript DEF Next, Finished, vars
    <3> QED BY <2>2, <2>4, <3>1 DEF script, Remaining, Stage, Within, Width
  <2> QED BY <2>3, <2>4
<1> QED BY Invariance, <1>1, <1>2, <1>3, PTL DEF Spec
=============================================================================
