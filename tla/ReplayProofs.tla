----------------------------- MODULE ReplayProofs -----------------------------
(***************************************************************************)
(* What Replay promises for every number of executions and faults, over    *)
(* every proxy and with every permission at the vault.                     *)
(***************************************************************************)
EXTENDS Replay, TLAPS

\* Every execution before this one has passed.
AllBefore == \A j \in 1..(turn - 1) : verdict[j] = "pass"

\* A value that is there after nothing but passing executions is the own one.
Own ==
  /\ AllBefore /\ item = "written" => turn \in stored
  /\ pc \in {"delete", "gone"} => turn \in read
  /\ turn \in read /\ AllBefore => turn \in stored
  /\ pc = "end" /\ verdict[turn] = "pass" => ~Live /\ turn \in read

\* What the first execution has read and said.
FirstOne ==
  /\ 1 \in read => 1 \in stored
  /\ verdict[1] = "pass" => 1 \in read

\* How far an execution over an honest proxy has come.
Course ==
  env.honest =>
    /\ pc = "create" /\ turn \in stored => item = "written"
    /\ pc = "put_value" => item # "absent" /\ (item = "soft" => ~env.recovers)
    /\ pc \in {"list", "describe", "get"} => item = "written"
    /\ pc = "delete" => item = "written" \/ turn \in repeated
    /\ pc = "gone" /\ env.deletion # "denied" => ~Live

IInv ==
  /\ TypeOK /\ Own /\ FirstOne /\ Course
  /\ EvidenceIsOwn

-----------------------------------------------------------------------------
LEMMA Bounds == Last \in Nat /\ Last > 0 /\ MaxFaults \in Nat
BY ReplayAssumption

LEMMA InitIInv == Init => IInv
<1> SUFFICES ASSUME Init PROVE IInv OBVIOUS
<1> USE Bounds DEF Init, First, Turns
<1>1. env.service \in {"s3", "secrets"} BY DEF Setups
<1>2. pc \in Labels[env.service] /\ pc \in {"head", "create"}
  BY <1>1 DEF Labels
<1>3. TypeOK
  <2>1. others \in BOOLEAN BY DEF Init
  <2>2. /\ item \in {"absent", "soft", "other", "written"}
        /\ env.service = "s3" => item # "soft"
    BY <1>1
  <2> QED BY <1>1, <1>2, <2>1, <2>2 DEF TypeOK, Failures
<1>4. Own /\ FirstOne /\ Course
  BY <1>1, <1>2 DEF Own, FirstOne, Course
<1>5. EvidenceIsOwn BY DEF EvidenceIsOwn
<1> QED BY <1>3, <1>4, <1>5 DEF IInv

-----------------------------------------------------------------------------
(* What going on and stopping do, whatever the request was.                *)

\* The effect of a request, whole, missing or half done.
EffectOrNot ==
  \/ Effect
  \/ UNCHANGED << bucket, others, item, stored >>
  \/ /\ item' = "soft" /\ env.service = "secrets"
     /\ UNCHANGED << bucket, others, stored >>

LEMMA Typed ==
  ASSUME IInv
  PROVE  /\ turn \in 1..turn /\ turn \in 1..Last /\ 1 \in Turns
         /\ stored \subseteq 1..turn /\ read \subseteq 1..turn
         /\ repeated \subseteq 1..turn
<1>1. turn \in Turns BY DEF IInv, TypeOK
<1>2. turn \in 1..turn /\ 1 \in Turns BY <1>1, Bounds DEF Turns
<1> QED BY <1>1, <1>2 DEF IInv, TypeOK, Turns

LEMMA EffectStep ==
  ASSUME IInv, EffectOrNot
  PROVE  /\ item' \in {"absent", "soft", "other", "written"}
         /\ bucket' \in BOOLEAN /\ others' \in BOOLEAN
         /\ env.service = "s3" => item' # "soft"
         /\ stored \subseteq stored' /\ stored' \subseteq 1..turn
         /\ item' = "written" => item = "written" \/ turn \in stored'
<1>1. /\ turn \in 1..turn /\ stored \subseteq 1..turn
      /\ item \in {"absent", "soft", "other", "written"}
      /\ bucket \in BOOLEAN /\ others \in BOOLEAN
      /\ env.service = "s3" => item # "soft"
  BY Bounds DEF IInv, TypeOK, Turns
<1>2. CASE Writes BY <1>1, <1>2 DEF Writes
<1>3. CASE pc = "delete" /\ Deletes
  <2>1. /\ env.deletion \in {"purged", "soft", "denied"}
        /\ env.service = "s3" => env.deletion = "purged"
    BY DEF IInv, TypeOK, Setups
  <2> QED BY <1>1, <1>3, <2>1 DEF Deletes
<1>4. CASE ~Writes /\ ~(pc = "delete" /\ Deletes)
  BY <1>1, <1>4 DEF EffectOrNot, Effect
<1> QED BY <1>2, <1>3, <1>4

\* A request after which the script goes on keeps the invariant once it keeps
\* Course, the one part that depends on which request it was.
LEMMA GoingStep ==
  ASSUME IInv, pc # "end", UNCHANGED << turn, env, verdict >>, EffectOrNot,
         pc' \in Labels[env.service] \ {"end"},
         pc = "delete" => pc' \in {"delete", "gone"},
         pc # "gone",
         faults' \in 0..MaxFaults, repeated' \subseteq 1..turn,
         read' = read \/ (read' = read \union {turn} /\ item = "written"),
         pc' \in {"delete", "gone"} => turn \in read',
         Course'
  PROVE  IInv'
<1> USE Bounds
<1>1. TypeOK'
  <2>1. read' \subseteq 1..turn BY Typed
  <2>2. \A k \in Turns :
          verdict'[k] = "none" <=> (k > turn' \/ (k = turn' /\ pc' # "end"))
    BY DEF IInv, TypeOK
  <2> QED BY <2>1, <2>2, EffectStep DEF IInv, TypeOK
<1>2. (AllBefore' <=> AllBefore) /\ (turn = 1 => AllBefore)
  BY DEF IInv, TypeOK, Turns, AllBefore
<1>3. Own' BY <1>2, EffectStep DEF IInv, Own
<1>4. FirstOne'
  BY <1>2, <1>3, EffectStep DEF IInv, TypeOK, Turns, FirstOne, Own
<1>6. EvidenceIsOwn' BY EffectStep DEF IInv, EvidenceIsOwn
<1> QED BY <1>1, <1>3, <1>4, <1>6 DEF IInv

LEMMA StoppingStep ==
  ASSUME IInv, pc # "end", NEW how \in {"pass"} \union Failures, Quit(how),
         UNCHANGED << turn, env, backend, stored, read >>,
         faults' \in 0..MaxFaults, repeated' \subseteq 1..turn,
         how = "pass" => pc = "gone" /\ ~Live
  PROVE  IInv'
<1> USE Bounds DEF backend
<1>1. /\ turn \in Turns /\ turn \in Nat /\ how # "none"
      /\ verdict \in [Turns -> {"none", "pass"} \union Failures]
      /\ \A k \in Turns :
           verdict[k] = "none" <=> (k > turn \/ (k = turn /\ pc # "end"))
  BY DEF IInv, TypeOK, Failures, Turns
<1>2. /\ pc' = "end" /\ verdict' \in [Turns -> {"none", "pass"} \union Failures]
      /\ verdict'[turn] = how
      /\ \A k \in Turns : k # turn => verdict'[k] = verdict[k]
  BY <1>1 DEF Quit
<1>3. \A k \in Turns : verdict'[k] = "none" <=> k > turn
  BY <1>1, <1>2 DEF Turns
<1>4. AllBefore' <=> AllBefore
  <2>1. \A j \in 1..(turn - 1) : j \in Turns /\ j # turn BY <1>1 DEF Turns
  <2> QED BY <2>1, <1>2 DEF AllBefore
<1>5. EvidenceIsOwn'
  <2> SUFFICES ASSUME NEW k \in Turns,
                      \A j \in 1..k : verdict'[j] = "pass"
               PROVE  k \in stored
    BY DEF EvidenceIsOwn
  <2>1. k \in 1..k /\ k <= turn
    <3>1. k \in 1..k BY DEF Turns
    <3>2. verdict'[k] # "none" BY <3>1
    <3> QED BY <1>1, <1>3, <3>1, <3>2 DEF Turns
  <2>2. CASE k = turn
    <3>1. how = "pass" BY <1>2, <2>1, <2>2
    <3>2. \A j \in 1..(turn - 1) : verdict'[j] = "pass" BY <1>1, <2>2
    <3>3. AllBefore BY <1>4, <3>2 DEF AllBefore
    <3> QED BY <2>2, <3>1, <3>3 DEF IInv, Own
  <2>3. CASE k < turn
    <3>1. \A j \in 1..k : j \in Turns /\ j # turn BY <1>1, <2>3 DEF Turns
    <3> QED BY <1>2, <3>1 DEF IInv, EvidenceIsOwn
  <2> QED BY <1>1, <2>1, <2>2, <2>3 DEF Turns
<1>6. TypeOK'
  <2>1. pc' \in Labels[env.service] BY <1>2 DEF IInv, TypeOK, Setups, Labels
  <2>2. \A k \in Turns :
          verdict'[k] = "none" <=> (k > turn' \/ (k = turn' /\ pc' # "end"))
    BY <1>2, <1>3
  <2> QED BY <1>1, <1>2, <2>1, <2>2 DEF IInv, TypeOK
<1>7. Own' BY <1>1, <1>2, <1>4 DEF IInv, Own, Live
<1>8. FirstOne' BY <1>1, <1>2, <1>7, Typed DEF IInv, Own, FirstOne
<1>9. Course' BY <1>2 DEF IInv, Course
<1> QED BY <1>5, <1>6, <1>7, <1>8, <1>9 DEF IInv

-----------------------------------------------------------------------------
(* verify_s3_roundtrip.py                                                  *)

LEMMA HeadBucketStep == IInv /\ HeadBucket => IInv'
<1> SUFFICES ASSUME IInv, HeadBucket PROVE IInv' OBVIOUS
<1> USE DEF HeadBucket, Answered, NoEffect, backend, script, GoTo
<1>1. Course'
  BY DEF IInv, TypeOK, Course, Live, Free
<1> QED
  BY <1>1, GoingStep DEF IInv, TypeOK, Setups, Labels, EffectOrNot

LEMMA HeadBucketRefusedStep == IInv /\ HeadBucketRefused => IInv'
<1> SUFFICES ASSUME IInv, HeadBucketRefused PROVE IInv' OBVIOUS
<1> USE DEF HeadBucketRefused, Answered, NoEffect, backend, script, GoTo
<1> USE Bounds DEF UseFault, Turns
<1>1. Course'
  BY DEF IInv, TypeOK, Course, Live, Free
<1> QED
  BY <1>1, GoingStep DEF IInv, TypeOK, Setups, Labels, EffectOrNot

LEMMA CreateBucketStep == IInv /\ CreateBucket => IInv'
<1> SUFFICES ASSUME IInv, CreateBucket PROVE IInv' OBVIOUS
<1> USE DEF CreateBucket, Answered, NoEffect, backend, script, GoTo
<1>1. bucket' = TRUE /\ UNCHANGED << others, item, stored >> BY DEF Effect
<1>2. CASE (~bucket \/ env.idempotent) /\ GoTo("put")
  <2>1. Course'
    BY <1>2 DEF IInv, TypeOK, Course, Live, Free
  <2> QED
    BY <1>2, <2>1, GoingStep DEF IInv, TypeOK, Setups, Labels, EffectOrNot
<1>3. CASE bucket /\ ~env.idempotent /\ Quit("raise")
  BY <1>1, <1>3, StoppingStep DEF IInv, TypeOK, Failures
<1> QED BY <1>2, <1>3

LEMMA PutObjectStep == IInv /\ PutObject => IInv'
<1> SUFFICES ASSUME IInv, PutObject PROVE IInv' OBVIOUS
<1> USE DEF PutObject, Answered, NoEffect, backend, script, GoTo
<1>1. Course'
  BY DEF IInv, TypeOK, Course, Live, Free, Effect, Writes, Deletes
<1> QED
  BY <1>1, GoingStep DEF IInv, TypeOK, Setups, Labels, EffectOrNot

LEMMA ListObjectsStep == IInv /\ ListObjects => IInv'
<1> SUFFICES ASSUME IInv, ListObjects PROVE IInv' OBVIOUS
<1> USE DEF ListObjects, Answered, NoEffect, backend, script, GoTo
<1>1. CASE Live /\ GoTo("get")
  <2>1. Course'
    BY <1>1 DEF IInv, TypeOK, Course, Live, Free
  <2> QED
    BY <1>1, <2>1, GoingStep DEF IInv, TypeOK, Setups, Labels, EffectOrNot
<1>2. CASE ~Live /\ Quit("exit_listing")
  BY <1>2, StoppingStep DEF IInv, TypeOK, Failures
<1> QED BY <1>1, <1>2

LEMMA GetObjectStep == IInv /\ GetObject => IInv'
<1> SUFFICES ASSUME IInv, GetObject PROVE IInv' OBVIOUS
<1> USE DEF GetObject, Answered, NoEffect, backend, script, GoTo
<1>1. CASE item = "written" /\ GoTo("delete")
                /\ read' = read \union {turn}
  <2>1. Course'
    BY <1>1 DEF IInv, TypeOK, Course, Live, Free
  <2> QED
    BY <1>1, <2>1, GoingStep DEF IInv, TypeOK, Setups, Labels, EffectOrNot
<1>2. CASE item = "other" /\ Quit("exit_mismatch") /\ UNCHANGED read
  BY <1>2, StoppingStep DEF IInv, TypeOK, Failures
<1> QED BY <1>1, <1>2

LEMMA DeleteObjectStep == IInv /\ DeleteObject => IInv'
<1> SUFFICES ASSUME IInv, DeleteObject PROVE IInv' OBVIOUS
<1> USE DEF DeleteObject, Answered, NoEffect, backend, script, GoTo
<1>1. CASE Live /\ Effect /\ GoTo("gone")
  <2>1. Course'
    BY <1>1
       DEF IInv, TypeOK, Course, Live, Free, Effect, Writes, Deletes, Setups
  <2> QED
    BY <1>1, <2>1, GoingStep DEF IInv, TypeOK, Setups, Labels, EffectOrNot, Own
<1>2. CASE ~Live /\ UNCHANGED << backend, stored >> /\ GoTo("gone")
  <2>1. Course'
    BY <1>2 DEF IInv, TypeOK, Course, Live, Free
  <2> QED
    BY <1>2, <2>1, GoingStep DEF IInv, TypeOK, Setups, Labels, EffectOrNot, Own
<1>3. CASE ~Live /\ UNCHANGED << backend, stored >> /\ Quit("raise")
  BY <1>3, StoppingStep DEF IInv, TypeOK, Failures
<1> QED BY <1>1, <1>2, <1>3

LEMMA ListRemainingStep == IInv /\ ListRemaining => IInv'
<1> SUFFICES ASSUME IInv, ListRemaining PROVE IInv' OBVIOUS
<1> USE DEF ListRemaining, Answered, NoEffect, backend, script, GoTo
<1>1. CASE (Live \/ others) /\ Quit("exit_not_gone")
  BY <1>1, StoppingStep DEF IInv, TypeOK, Failures
<1>2. CASE ~(Live \/ others) /\ Quit("pass")
  BY <1>2, StoppingStep DEF IInv, TypeOK
<1> QED BY <1>1, <1>2

-----------------------------------------------------------------------------
(* verify_secrets_roundtrip.py                                             *)

LEMMA CreateSecretStep == IInv /\ CreateSecret => IInv'
<1> SUFFICES ASSUME IInv, CreateSecret PROVE IInv' OBVIOUS
<1> USE DEF CreateSecret, Answered, NoEffect, backend, script, GoTo
<1>1. CASE Free /\ Effect /\ GoTo("describe")
  <2>1. Course'
    BY <1>1 DEF IInv, TypeOK, Course, Live, Free, Effect, Writes, Deletes
  <2> QED
    BY <1>1, <2>1, GoingStep DEF IInv, TypeOK, Setups, Labels, EffectOrNot
<1>2. CASE ~Free /\ UNCHANGED << backend, stored >> /\ GoTo("put_value")
  <2>1. Course'
    BY <1>2 DEF IInv, TypeOK, Course, Live, Free
  <2> QED
    BY <1>2, <2>1, GoingStep DEF IInv, TypeOK, Setups, Labels, EffectOrNot
<1>3. CASE /\ Live /\ turn \in repeated \cap stored
            /\ UNCHANGED << backend, stored >> /\ GoTo("describe")
  <2>1. Course'
    BY <1>3 DEF IInv, TypeOK, Course, Live, Free
  <2> QED
    BY <1>3, <2>1, GoingStep DEF IInv, TypeOK, Setups, Labels, EffectOrNot
<1>4. CASE /\ item = "soft" /\ ~Free /\ UNCHANGED << backend, stored >>
            /\ Quit("raise")
  BY <1>4, StoppingStep DEF IInv, TypeOK, Failures
<1> QED BY <1>1, <1>2, <1>3, <1>4

LEMMA PutSecretValueStep == IInv /\ PutSecretValue => IInv'
<1> SUFFICES ASSUME IInv, PutSecretValue PROVE IInv' OBVIOUS
<1> USE DEF PutSecretValue, Answered, NoEffect, backend, script, GoTo
<1>1. CASE Effect /\ GoTo("describe")
  <2>1. Course'
    BY <1>1 DEF IInv, TypeOK, Course, Live, Free, Effect, Writes, Deletes
  <2> QED
    BY <1>1, <2>1, GoingStep DEF IInv, TypeOK, Setups, Labels, EffectOrNot
<1>2. CASE ~Live /\ Quit("raise") /\ UNCHANGED << backend, stored >>
  BY <1>2, StoppingStep DEF IInv, TypeOK, Failures
<1> QED BY <1>1, <1>2

LEMMA DescribeSecretStep == IInv /\ DescribeSecret => IInv'
<1> SUFFICES ASSUME IInv, DescribeSecret PROVE IInv' OBVIOUS
<1> USE DEF DescribeSecret, Answered, NoEffect, backend, script, GoTo
<1>1. CASE Live /\ GoTo("get")
  <2>1. Course'
    BY <1>1 DEF IInv, TypeOK, Course, Live, Free
  <2> QED
    BY <1>1, <2>1, GoingStep DEF IInv, TypeOK, Setups, Labels, EffectOrNot
<1>2. CASE ~Live /\ Quit("raise")
  BY <1>2, StoppingStep DEF IInv, TypeOK, Failures
<1> QED BY <1>1, <1>2

LEMMA GetSecretValueStep == IInv /\ GetSecretValue => IInv'
<1> SUFFICES ASSUME IInv, GetSecretValue PROVE IInv' OBVIOUS
<1> USE DEF GetSecretValue, Answered, NoEffect, backend, script, GoTo
<1>1. CASE item = "written" /\ GoTo("delete")
                /\ read' = read \union {turn}
  <2>1. Course'
    BY <1>1 DEF IInv, TypeOK, Course, Live, Free
  <2> QED
    BY <1>1, <2>1, GoingStep DEF IInv, TypeOK, Setups, Labels, EffectOrNot
<1>2. CASE item = "other" /\ Quit("exit_mismatch") /\ UNCHANGED read
  BY <1>2, StoppingStep DEF IInv, TypeOK, Failures
<1> QED BY <1>1, <1>2

LEMMA DeleteSecretStep == IInv /\ DeleteSecret => IInv'
<1> SUFFICES ASSUME IInv, DeleteSecret PROVE IInv' OBVIOUS
<1> USE DEF DeleteSecret, Answered, NoEffect, backend, script, GoTo
<1>1. CASE Live /\ Effect /\ GoTo("gone")
  <2>1. Course'
    BY <1>1
       DEF IInv, TypeOK, Course, Live, Free, Effect, Writes, Deletes, Setups
  <2> QED
    BY <1>1, <2>1, GoingStep DEF IInv, TypeOK, Setups, Labels, EffectOrNot, Own
<1>2. CASE ~Live /\ UNCHANGED << backend, stored >> /\ GoTo("gone")
  <2>1. Course'
    BY <1>2 DEF IInv, TypeOK, Course, Live, Free
  <2> QED
    BY <1>2, <2>1, GoingStep DEF IInv, TypeOK, Setups, Labels, EffectOrNot, Own
<1>3. CASE ~Live /\ UNCHANGED << backend, stored >> /\ Quit("raise")
  BY <1>3, StoppingStep DEF IInv, TypeOK, Failures
<1> QED BY <1>1, <1>2, <1>3

LEMMA DescribeGoneStep == IInv /\ DescribeGone => IInv'
<1> SUFFICES ASSUME IInv, DescribeGone PROVE IInv' OBVIOUS
<1> USE DEF DescribeGone, Answered, NoEffect, backend, script, GoTo
<1>1. CASE Live /\ Quit("exit_not_gone")
  BY <1>1, StoppingStep DEF IInv, TypeOK, Failures
<1>2. CASE ~Live /\ Quit("pass")
  BY <1>2, StoppingStep DEF IInv, TypeOK
<1> QED BY <1>1, <1>2

-----------------------------------------------------------------------------
(* Failing requests, and what happens between executions.                  *)

LEMMA RequestRaisesStep == IInv /\ RequestRaises => IInv'
<1> SUFFICES ASSUME IInv, RequestRaises PROVE IInv' OBVIOUS
<1> USE DEF RequestRaises, Answered, NoEffect, backend, script, GoTo
<1> USE Bounds DEF UseFault
<1>1. repeated' \subseteq 1..turn /\ faults' \in 0..MaxFaults
  BY DEF IInv, TypeOK, Turns
<1> QED BY <1>1, StoppingStep DEF Failures

LEMMA AnswerLostStep == IInv /\ AnswerLost => IInv'
<1> SUFFICES ASSUME IInv, AnswerLost PROVE IInv' OBVIOUS
<1> USE DEF AnswerLost, Answered, NoEffect, backend, script, GoTo
<1> USE Bounds DEF UseFault
<1>1. Course'
  BY Typed DEF IInv, TypeOK, Course, Live, Free, Effect, Writes, Deletes, Setups
<1>2. pc # "end" /\ pc # "gone" BY DEF Effect
<1>3. EffectOrNot BY DEF EffectOrNot
<1>4. repeated' \subseteq 1..turn BY Typed
<1>7. faults' \in 0..MaxFaults BY DEF IInv, TypeOK
<1>5. pc \in {"delete", "gone"} => turn \in read BY DEF IInv, Own
<1>6. /\ pc' \in Labels[env.service]
      /\ UNCHANGED << turn, env, pc, verdict, read >>
  BY DEF IInv, TypeOK
<1> QED BY <1>1, <1>2, <1>3, <1>4, <1>5, <1>6, <1>7, GoingStep

LEMMA BetweenStep == IInv /\ (RunAgain \/ TearDown) => IInv'
<1> SUFFICES ASSUME IInv, RunAgain \/ TearDown PROVE IInv' OBVIOUS
<1> USE Bounds
<1>1. CASE TearDown
  <2> USE <1>1 DEF TearDown, script
  <2>1. TypeOK' /\ Own' /\ FirstOne' /\ Course'
    BY DEF IInv, TypeOK, Own, FirstOne, Course, AllBefore, Live
  <2>2. EvidenceIsOwn' BY DEF IInv, EvidenceIsOwn
  <2> QED BY <2>1, <2>2 DEF IInv
<1>2. CASE RunAgain
  <2>1. /\ turn' \in Turns /\ turn' = turn + 1 /\ turn \in Nat
        /\ turn + 1 \notin read /\ turn + 1 \notin stored
    BY <1>2 DEF RunAgain, IInv, TypeOK, Turns
  <2>2. pc' \in Labels[env.service] /\ pc' \in {"head", "create"}
    BY <1>2 DEF RunAgain, IInv, TypeOK, Setups, First, Labels
  <2>3. TypeOK'
    <3>1. \A k \in Turns : verdict[k] = "none" <=> k > turn
      BY <1>2 DEF RunAgain, IInv, TypeOK
    <3>2. \A k \in Turns :
            verdict[k] = "none" <=> (k > turn + 1 \/ k = turn + 1)
      BY <2>1, <3>1 DEF Turns
    <3>3. 1..turn \subseteq 1..(turn + 1) BY <2>1
    <3>4. \A k \in Turns :
            verdict'[k] = "none" <=> (k > turn' \/ (k = turn' /\ pc' # "end"))
      BY <1>2, <2>1, <2>2, <3>2 DEF RunAgain
    <3>5. /\ stored' \subseteq 1..turn' /\ read' \subseteq 1..turn'
          /\ repeated' \subseteq 1..turn'
      BY <1>2, <2>1, <3>3 DEF RunAgain, IInv, TypeOK
    <3>6. /\ env' \in Setups /\ bucket' \in BOOLEAN /\ others' \in BOOLEAN
          /\ verdict' \in [Turns -> {"none", "pass"} \union Failures]
          /\ item' \in {"absent", "soft", "other", "written"}
          /\ faults' \in 0..MaxFaults
      BY <1>2 DEF RunAgain, backend, IInv, TypeOK
    <3>7. (env.service = "s3" => item # "soft")'
      BY <1>2 DEF RunAgain, backend, IInv, TypeOK
    <3>8. pc' \in Labels[env'.service] BY <1>2, <2>2 DEF RunAgain
    <3>9. turn' \in Turns BY <2>1
    <3> QED BY <3>4, <3>5, <3>6, <3>7, <3>8, <3>9 DEF TypeOK
  <2>4. AllBefore' => AllBefore /\ verdict[turn] = "pass"
    <3>1. SUFFICES ASSUME \A j \in 1..turn : verdict[j] = "pass"
                   PROVE  AllBefore /\ verdict[turn] = "pass"
      BY <1>2, <2>1 DEF RunAgain, AllBefore
    <3>2. turn \in 1..turn /\ \A j \in 1..(turn - 1) : j \in 1..turn
      BY Typed, <2>1
    <3> QED BY <3>1, <3>2 DEF AllBefore
  <2>5. Own' /\ FirstOne' /\ Course'
    BY <1>2, <2>1, <2>2, <2>4 DEF RunAgain, backend, IInv, Own, FirstOne,
                                 Course, Live
  <2>6. EvidenceIsOwn' BY <1>2 DEF RunAgain, IInv, EvidenceIsOwn
  <2> QED BY <2>3, <2>5, <2>6 DEF IInv
<1> QED BY <1>1, <1>2

-----------------------------------------------------------------------------
\* The invariant is inductive.
THEOREM Invariance == Spec => []IInv
<1>1. IInv /\ [Next]_vars => IInv'
  <2> SUFFICES ASSUME IInv, [Next]_vars PROVE IInv' OBVIOUS
  <2>1. CASE S3Script
    BY <2>1, HeadBucketStep, HeadBucketRefusedStep, CreateBucketStep,
       PutObjectStep, ListObjectsStep, GetObjectStep, DeleteObjectStep,
       ListRemainingStep DEF S3Script
  <2>2. CASE SecretsScript
    BY <2>2, CreateSecretStep, PutSecretValueStep, DescribeSecretStep,
       GetSecretValueStep, DeleteSecretStep, DescribeGoneStep
       DEF SecretsScript
  <2>3. CASE RequestRaises \/ AnswerLost
    BY <2>3, RequestRaisesStep, AnswerLostStep
  <2>4. CASE RunAgain \/ TearDown BY <2>4, BetweenStep
  <2>5. CASE Finished \/ UNCHANGED vars
    <3> USE <2>5 DEF Finished, vars, script, backend
    <3>1. TypeOK' BY DEF IInv, TypeOK
    <3>2. Own' /\ FirstOne' /\ Course'
      BY DEF IInv, Own, FirstOne, Course, AllBefore, Live
    <3>3. EvidenceIsOwn' BY DEF IInv, EvidenceIsOwn
    <3> QED BY <3>1, <3>2, <3>3 DEF IInv
  <2> QED BY <2>1, <2>2, <2>3, <2>4, <2>5 DEF Next
<1> QED BY <1>1, InitIInv, PTL DEF Spec

\* Every variable of the scripts and of the backend keeps its type, and an
\* execution has a verdict exactly when it has ended.
THEOREM TypeCorrect == Spec => []TypeOK
<1>1. IInv => TypeOK BY DEF IInv
<1> QED BY <1>1, Invariance, PTL

\* As long as every execution has passed, each has read a value that it had
\* itself brought to the backend, over any proxy.
THEOREM OwnEvidenceAlways == Spec => []EvidenceIsOwn
<1>1. IInv => EvidenceIsOwn BY DEF IInv
<1> QED BY <1>1, Invariance, PTL

-----------------------------------------------------------------------------
(* Who is to blame for a failure.                                          *)

\* A verdict that NoFalseAlarm allows the execution at hand.
Justified(how) ==
  env.honest =>
    /\ how \notin {"exit_listing", "exit_mismatch"}
    /\ how = "exit_not_gone" => others \/ env.deletion = "denied"
    /\ how = "raise" =>
         \/ faults' < faults
         \/ /\ ~env.idempotent
            /\ turn \in repeated \/ (pc = "create_bucket" /\ bucket)
         \/ item = "soft" /\ ~env.recovers

\* Every step that ends an execution has a reason to.
LEMMA EndsJustified ==
  ASSUME IInv, Next
  PROVE  \/ UNCHANGED verdict
         \/ \E how \in {"pass"} \union Failures :
              verdict' = [verdict EXCEPT ![turn] = how] /\ Justified(how)
<1> USE DEF Quit, GoTo, Failures, Justified
<1>1. Course BY DEF IInv
<1>2. item \in {"absent", "soft", "other", "written"} BY DEF IInv, TypeOK
<1>3. CASE S3Script
  <2>1. CASE HeadBucket \/ HeadBucketRefused \/ PutObject
    BY <2>1 DEF HeadBucket, HeadBucketRefused, PutObject
  <2>2. CASE CreateBucket BY <2>2 DEF CreateBucket
  <2>3. CASE ListObjects BY <1>1, <2>3 DEF ListObjects, Course, Live
  <2>4. CASE GetObject BY <1>1, <2>4 DEF GetObject, Course
  <2>5. CASE DeleteObject BY <1>1, <2>5 DEF DeleteObject, Course, Live
  <2>6. CASE ListRemaining
    <3>1. CASE (Live \/ others) /\ pc = "gone" /\ Quit("exit_not_gone")
      <4>1. Justified("exit_not_gone") BY <1>1, <3>1 DEF Course
      <4> QED BY <3>1, <4>1
    <3>2. CASE Quit("pass") BY <3>2
    <3> QED BY <2>6, <3>1, <3>2 DEF ListRemaining
  <2> QED BY <1>3, <2>1, <2>2, <2>3, <2>4, <2>5, <2>6 DEF S3Script
<1>4. CASE SecretsScript
  <2>1. CASE CreateSecret BY <2>1 DEF CreateSecret, Free
  <2>2. CASE PutSecretValue
    BY <1>1, <1>2, <2>2 DEF PutSecretValue, Course, Live
  <2>3. CASE DescribeSecret BY <1>1, <2>3 DEF DescribeSecret, Course, Live
  <2>4. CASE GetSecretValue BY <1>1, <2>4 DEF GetSecretValue, Course
  <2>5. CASE DeleteSecret BY <1>1, <2>5 DEF DeleteSecret, Course, Live
  <2>6. CASE DescribeGone
    <3>1. CASE Live /\ pc = "gone" /\ Quit("exit_not_gone")
      <4>1. Justified("exit_not_gone") BY <1>1, <3>1 DEF Course
      <4> QED BY <3>1, <4>1
    <3>2. CASE Quit("pass") BY <3>2
    <3> QED BY <2>6, <3>1, <3>2 DEF DescribeGone
  <2> QED BY <1>4, <2>1, <2>2, <2>3, <2>4, <2>5, <2>6 DEF SecretsScript
<1>5. CASE RequestRaises
  BY <1>5, Bounds DEF RequestRaises, UseFault, IInv, TypeOK
<1>6. CASE AnswerLost \/ RunAgain \/ TearDown \/ Finished
  BY <1>6 DEF AnswerLost, RunAgain, TearDown, Finished, vars, script
<1> QED BY <1>3, <1>4, <1>5, <1>6 DEF Next

\* Over an honest proxy the value is always listed and read back whole, and an
\* execution fails only for somebody else's objects, a permission, a failing
\* request, a repetition that is an error, or a soft-deleted name.
THEOREM NoFalseAlarmAlways == Spec => NoFalseAlarm
<1> DEFINE Allowed ==
      env.honest =>
        \A k \in Turns : verdict[k] = "none" =>
          /\ verdict'[k] \notin {"exit_listing", "exit_mismatch"}
          /\ verdict'[k] = "exit_not_gone" =>
               others \/ env.deletion = "denied"
          /\ verdict'[k] = "raise" =>
               \/ faults' < faults
               \/ /\ ~env.idempotent
                  /\ k \in repeated \/ (pc = "create_bucket" /\ bucket)
               \/ item = "soft" /\ ~env.recovers
<1>1. IInv /\ [Next]_vars => [Allowed]_vars
  <2> SUFFICES ASSUME IInv, Next PROVE Allowed OBVIOUS
  <2>1. CASE UNCHANGED verdict BY <2>1
  <2>2. CASE \E how \in {"pass"} \union Failures :
               verdict' = [verdict EXCEPT ![turn] = how] /\ Justified(how)
    <3>1. PICK how \in {"pass"} \union Failures :
                 verdict' = [verdict EXCEPT ![turn] = how] /\ Justified(how)
      BY <2>2
    <3>2. ASSUME NEW k \in Turns, verdict[k] = "none"
          PROVE  verdict'[k] = "none" \/ (k = turn /\ verdict'[k] = how)
      BY <3>1, <3>2 DEF IInv, TypeOK
    <3> QED BY <3>1, <3>2 DEF Justified
  <2> QED BY <2>1, <2>2, EndsJustified
<1> QED BY <1>1, Invariance, PTL DEF Spec, NoFalseAlarm

-----------------------------------------------------------------------------
(* The first execution implements Showcase.                                *)

\* A step says something, reads something or brings something, never two.
LEMMA OneThing ==
  ASSUME IInv, Next
  PROVE  \/ /\ pc # "end" /\ UNCHANGED << stored, read >>
            /\ \E how \in {"pass"} \union Failures :
                 verdict' = [verdict EXCEPT ![turn] = how]
         \/ /\ pc # "end" /\ UNCHANGED << stored, verdict >>
            /\ read' = read \union {turn}
         \/ /\ UNCHANGED << read, verdict >>
            /\ stored' \in {stored, stored \union {turn}}
<1> USE DEF Quit, GoTo, Answered, NoEffect, script, backend, Failures
<1>1. Effect => stored' \in {stored, stored \union {turn}}
  BY DEF Effect, Writes, Deletes
<1>2. pc # "put" /\ pc # "create" /\ pc # "put_value" /\ Effect =>
        UNCHANGED stored
  BY DEF Effect, Deletes
<1>3. CASE S3Script
  BY <1>1, <1>2, <1>3 DEF S3Script, HeadBucket, HeadBucketRefused,
     CreateBucket, PutObject, ListObjects, GetObject, DeleteObject,
     ListRemaining
<1>4. CASE SecretsScript
  BY <1>1, <1>2, <1>4 DEF SecretsScript, CreateSecret, PutSecretValue,
     DescribeSecret, GetSecretValue, DeleteSecret, DescribeGone
<1>5. CASE RequestRaises \/ AnswerLost
  BY <1>1, <1>5 DEF RequestRaises, AnswerLost
<1>6. CASE RunAgain \/ TearDown \/ Finished
  BY <1>6 DEF RunAgain, TearDown, Finished, vars
<1> QED BY <1>3, <1>4, <1>5, <1>6 DEF Next

\* Replay implements Showcase: the first execution says PASS only after it
\* has read a value that it had itself brought to the backend.
THEOREM PromiseKept == Spec => KeepsPromise
<1> USE DEF Promise!TakeEffect, Promise!Observe, Promise!Pass, Promise!Fail,
            Promise!Next, Promise!vars
<1>1. Init => Promise!Init
  BY Bounds DEF Init, Promise!Init, Turns
<1>2. IInv /\ IInv' /\ [Next]_vars => [Promise!Next]_(Promise!vars)
  <2> SUFFICES ASSUME IInv, IInv', [Next]_vars
               PROVE  [Promise!Next]_(Promise!vars)
    OBVIOUS
  <2>1. /\ turn \in Turns /\ 1 \in Turns
        /\ verdict \in [Turns -> {"none", "pass"} \union Failures]
        /\ pc # "end" => verdict[turn] = "none"
    BY Typed DEF IInv, TypeOK
  <2>2. FirstOne' BY DEF IInv
  <2>3. CASE UNCHANGED vars BY <2>3 DEF vars, script
  <2>4. CASE /\ pc # "end" /\ UNCHANGED << stored, read >>
             /\ \E how \in {"pass"} \union Failures :
                  verdict' = [verdict EXCEPT ![turn] = how]
    <3>1. PICK how \in {"pass"} \union Failures :
                 verdict' = [verdict EXCEPT ![turn] = how]
      BY <2>4
    <3>2. CASE turn = 1
      BY <2>1, <2>2, <2>4, <3>1, <3>2 DEF FirstOne, Failures
    <3>3. CASE turn # 1
      <4>1. verdict'[1] = verdict[1] BY <2>1, <3>1, <3>3
      <4> QED BY <2>4, <4>1
    <3> QED BY <3>2, <3>3
  <2>5. CASE /\ pc # "end" /\ UNCHANGED << stored, verdict >>
             /\ read' = read \union {turn}
    <3>1. CASE turn = 1 BY <2>1, <2>2, <2>5, <3>1 DEF FirstOne
    <3>2. CASE turn # 1
      <4>1. 1 \in read' <=> 1 \in read BY <2>5, <3>2
      <4> QED BY <2>5, <4>1
    <3> QED BY <3>1, <3>2
  <2>6. CASE /\ UNCHANGED << read, verdict >>
             /\ stored' \in {stored, stored \union {turn}}
    <3>1. CASE 1 \in stored' <=> 1 \in stored BY <2>6, <3>1
    <3>2. CASE 1 \in stored' /\ 1 \notin stored BY <2>6, <3>2
    <3> QED BY <2>6, <3>1, <3>2
  <2> QED BY <2>3, <2>4, <2>5, <2>6, OneThing
<1> QED BY <1>1, <1>2, Invariance, PTL DEF Spec, KeepsPromise, Promise!Spec

=============================================================================
