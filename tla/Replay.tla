-------------------------------- MODULE Replay --------------------------------
(***************************************************************************)
(* The two call-pattern replays:                                           *)
(* airflow-s3-logging/scripts/verify_s3_roundtrip.py (one log object in    *)
(* Azurite) and airflow-secrets-manager/scripts/verify_secrets_roundtrip.py*)
(* (one secret in a real Key Vault).  Both write a constant value under a  *)
(* constant name, see that it is visible, read it back, delete it and see  *)
(* that it is gone; both are plain sequences of requests that end at the   *)
(* first answer they do not expect.                                        *)
(*                                                                         *)
(* The script is executed several times on one backend, where it finds     *)
(* what earlier executions have left, and what somebody else had put there *)
(* before the first of them.  A request may fail before or after its       *)
(* effect, and boto3 repeats one whose answer is lost.  A proxy that is    *)
(* not honest lies about writes and deletions; what it lists and returns   *)
(* is what the backend holds.                                              *)
(***************************************************************************)
EXTENDS Naturals

CONSTANTS
  Last,       \* bound: executions on one backend
  MaxFaults   \* bound: requests that fail, and answers that are lost

ASSUME ReplayAssumption == Last \in Nat \ {0} /\ MaxFaults \in Nat

Turns == 1..Last

VARIABLES
  \* the script
  turn, pc, verdict,
  \* the backend
  bucket,   \* BUCKET exists
  others,   \* other objects lie under the prefix of LOG_KEY
  item,     \* what LOG_KEY or SECRET_ID stands for
  faults,
  env,      \* service, proxy and permissions, fixed for a behaviour
  \* what only the properties look at
  stored,   \* executions whose value has reached the backend
  read,     \* executions that have read the value back
  repeated  \* executions in which the answer of a request was lost

script == << turn, pc, verdict >>
backend == << bucket, others, item >>
vars == << script, backend, faults, env, stored, read, repeated >>

Labels ==
  [s3 |-> {"head", "create_bucket", "put", "list", "get", "delete", "gone",
           "end"},
   secrets |-> {"create", "put_value", "describe", "get", "delete", "gone",
                "end"}]

First == [s3 |-> "head", secrets |-> "create"]

Failures == {"exit_listing", "exit_mismatch", "exit_not_gone", "raise"}

\* honest: what is acknowledged is done, and bodies stay whole
\* idempotent: repeating what is done already is answered like the first time
\* deletion: what the service does when it is asked to delete without
\*   recovery; a Key Vault may deny the purge alone, or the deletion as well
\* recovers: a name that is soft-deleted can be created again
Setups ==
  { e \in [service : {"s3", "secrets"}, honest : BOOLEAN, idempotent : BOOLEAN,
           deletion : {"purged", "soft", "denied"}, recovers : BOOLEAN] :
      e.service = "s3" => e.deletion = "purged" /\ e.recovers }

\* What a finished execution has said is final, one that runs has said
\* nothing.
TypeOK ==
  /\ env \in Setups
  /\ turn \in Turns
  /\ pc \in Labels[env.service]
  /\ verdict \in [Turns -> {"none", "pass"} \union Failures]
  /\ \A k \in Turns :
       verdict[k] = "none" <=> (k > turn \/ (k = turn /\ pc # "end"))
  /\ bucket \in BOOLEAN /\ others \in BOOLEAN
  /\ item \in {"absent", "soft", "other", "written"}
  /\ env.service = "s3" => item # "soft"
  /\ faults \in 0..MaxFaults
  /\ stored \subseteq 1..turn /\ read \subseteq 1..turn
  /\ repeated \subseteq 1..turn

Init ==
  /\ env \in Setups
  /\ turn = 1
  /\ pc = First[env.service]
  /\ verdict = [k \in Turns |-> "none"]
  /\ bucket \in BOOLEAN
  /\ others \in {FALSE, env.service = "s3" /\ bucket}
  /\ item \in (CASE env.service = "secrets" -> {"absent", "other", "soft"}
                [] env.service = "s3" /\ bucket -> {"absent", "other"}
                [] OTHER -> {"absent"})
  /\ faults = MaxFaults
  /\ stored = {} /\ read = {} /\ repeated = {}

-----------------------------------------------------------------------------
(* The backend behind aws2azure.                                           *)

Live == item \in {"other", "written"}

\* CreateSecret takes a name that is free.
Free == item = "absent" \/ (item = "soft" /\ env.recovers)

\* A proxy that is not honest may lose a value or change it.
Writes ==
  /\ \/ item' = "written" /\ stored' = stored \union {turn}
     \/ ~env.honest /\ item' \in {item, "other"} /\ UNCHANGED stored
  /\ UNCHANGED << bucket, others >>

Deletes ==
  /\ item' = (CASE env.deletion = "purged" -> "absent"
                [] env.deletion = "soft" -> "soft"
                [] env.deletion = "denied" -> item)
     \/ (~env.honest /\ UNCHANGED item)
  /\ UNCHANGED << bucket, others, stored >>

\* The effect of the request at hand.
Effect ==
  \/ /\ pc = "create_bucket" /\ bucket' = TRUE
     /\ UNCHANGED << others, item, stored >>
  \/ (pc = "put" \/ (pc = "create" /\ Free) \/ (pc = "put_value" /\ Live))
     /\ Writes
  \/ pc = "delete" /\ Live /\ Deletes

-----------------------------------------------------------------------------
(* Both scripts.                                                           *)

GoTo(label) ==
  /\ pc' = label
  /\ UNCHANGED verdict

\* Mutant: fail() prints and returns.
QuitGoesOn(how) ==
  /\ verdict' = [verdict EXCEPT ![turn] = how]
  /\ UNCHANGED pc

Quit(how) ==
  /\ pc' = "end"
  /\ verdict' = [verdict EXCEPT ![turn] = how]

\* What an answer leaves alone, and what one without an effect does.
Answered == UNCHANGED << turn, faults, env, repeated >>
NoEffect == Answered /\ UNCHANGED << backend, stored, read >>

UseFault ==
  /\ faults > 0
  /\ faults' = faults - 1

\* Nothing but two error codes is caught: any other error and an interrupt
\* end the script.
RequestRaises ==
  /\ pc # "end"
  /\ UseFault
  /\ Quit("raise")
  /\ UNCHANGED << turn, backend, env, stored, read, repeated >>

\* boto3 repeats the request, or gives up.  A forced deletion has two steps at
\* the vault, and may be left between them.
AnswerLost ==
  /\ UseFault
  /\ repeated' = repeated \union {turn}
  /\ \/ Effect
     \/ /\ pc = "delete" /\ Live
        /\ env.service = "secrets" /\ env.deletion = "purged"
        /\ item' = "soft" /\ UNCHANGED << bucket, others, stored >>
  /\ UNCHANGED << script, env, read >>

-----------------------------------------------------------------------------
(* verify_s3_roundtrip.py                                                  *)

HeadBucket ==
  /\ pc = "head"
  /\ GoTo(IF bucket THEN "put" ELSE "create_bucket")
  /\ NoEffect

\* Every ClientError is read as a bucket that is missing.
HeadBucketRefused ==
  /\ pc = "head"
  /\ UseFault
  /\ GoTo("create_bucket")
  /\ UNCHANGED << turn, backend, stored, read, env, repeated >>

CreateBucket ==
  /\ pc = "create_bucket"
  /\ IF bucket /\ ~env.idempotent THEN Quit("raise") ELSE GoTo("put")
  /\ Effect
  /\ Answered /\ UNCHANGED read

PutObject ==
  /\ pc = "put"
  /\ Effect
  /\ GoTo("list")
  /\ Answered /\ UNCHANGED read

ListObjects ==
  /\ pc = "list"
  /\ IF Live THEN GoTo("get") ELSE Quit("exit_listing")
  /\ NoEffect

\* Mutant: the body is fetched and not compared.
GetObjectUnchecked ==
  /\ pc = "get" /\ env.service = "s3"
  /\ Live
  /\ GoTo("delete") /\ read' = read \union {turn}
  /\ Answered /\ UNCHANGED << backend, stored >>

\* The body of the object is compared with LOG_BODY.
GetObject ==
  /\ pc = "get" /\ env.service = "s3"
  /\ \/ item = "written" /\ GoTo("delete") /\ read' = read \union {turn}
     \/ item = "other" /\ Quit("exit_mismatch") /\ UNCHANGED read
  /\ Answered /\ UNCHANGED << backend, stored >>

\* Deleting what is gone happens only when the request was repeated.
DeleteObject ==
  /\ pc = "delete" /\ env.service = "s3"
  /\ \/ Live /\ Effect /\ GoTo("gone")
     \/ /\ ~Live /\ UNCHANGED << backend, stored >>
        /\ IF env.idempotent THEN GoTo("gone") ELSE Quit("raise")
  /\ Answered /\ UNCHANGED read

\* Mutant: the deletion is believed.
ListRemainingUnchecked ==
  /\ pc = "gone" /\ env.service = "s3"
  /\ Quit("pass")
  /\ NoEffect

\* Anything under the prefix counts, whoever has put it there.
ListRemaining ==
  /\ pc = "gone" /\ env.service = "s3"
  /\ Quit(IF Live \/ others THEN "exit_not_gone" ELSE "pass")
  /\ NoEffect

-----------------------------------------------------------------------------
(* verify_secrets_roundtrip.py                                             *)

\* Mutant: without the fallback.
CreateSecretOnly ==
  /\ pc = "create"
  /\ \/ Free /\ Effect /\ GoTo("describe")
     \/ ~Free /\ Quit("raise") /\ UNCHANGED << backend, stored >>
  /\ Answered /\ UNCHANGED read

\* A secret that exists is given the value instead; a soft-deleted one may be
\* taken for one that exists, or be an error.  The creation of the same
\* request repeated may be answered like the first.
CreateSecret ==
  /\ pc = "create"
  /\ \/ Free /\ Effect /\ GoTo("describe")
     \/ /\ ~Free /\ UNCHANGED << backend, stored >>
        /\ \/ GoTo("put_value")
           \/ item = "soft" /\ Quit("raise")
           \/ Live /\ turn \in repeated \cap stored /\ GoTo("describe")
  /\ Answered /\ UNCHANGED read

PutSecretValue ==
  /\ pc = "put_value"
  /\ \/ Effect /\ GoTo("describe")
     \/ ~Live /\ Quit("raise") /\ UNCHANGED << backend, stored >>
  /\ Answered /\ UNCHANGED read

DescribeSecret ==
  /\ pc = "describe"
  /\ IF Live THEN GoTo("get") ELSE Quit("raise")
  /\ NoEffect

\* The one call that Airflow's backend makes.
GetSecretValue ==
  /\ pc = "get" /\ env.service = "secrets"
  /\ \/ item = "written" /\ GoTo("delete") /\ read' = read \union {turn}
     \/ item = "other" /\ Quit("exit_mismatch") /\ UNCHANGED read
  /\ Answered /\ UNCHANGED << backend, stored >>

\* An AccessDeniedException is no error.
DeleteSecret ==
  /\ pc = "delete" /\ env.service = "secrets"
  /\ \/ Live /\ Effect /\ GoTo("gone")
     \/ /\ ~Live /\ UNCHANGED << backend, stored >>
        /\ IF env.idempotent THEN GoTo("gone") ELSE Quit("raise")
  /\ Answered /\ UNCHANGED read

DescribeGone ==
  /\ pc = "gone" /\ env.service = "secrets"
  /\ Quit(IF Live THEN "exit_not_gone" ELSE "pass")
  /\ NoEffect

-----------------------------------------------------------------------------
RunAgain ==
  /\ pc = "end" /\ turn < Last
  /\ turn' = turn + 1
  /\ pc' = First[env.service]
  /\ UNCHANGED << verdict, backend, faults, env, stored, read, repeated >>

\* "Tear down" of the smoke test; a vault is not torn down with the stack.
TearDown ==
  /\ pc = "end" /\ env.service = "s3"
  /\ bucket' = FALSE /\ others' = FALSE /\ item' = "absent"
  /\ UNCHANGED << script, faults, env, stored, read, repeated >>

Finished ==
  /\ pc = "end" /\ turn = Last
  /\ UNCHANGED vars

S3Script ==
  \/ HeadBucket \/ HeadBucketRefused \/ CreateBucket \/ PutObject
  \/ ListObjects \/ GetObject \/ DeleteObject \/ ListRemaining

SecretsScript ==
  \/ CreateSecret \/ PutSecretValue \/ DescribeSecret
  \/ GetSecretValue \/ DeleteSecret \/ DescribeGone

Next ==
  \/ S3Script \/ SecretsScript
  \/ RequestRaises \/ AnswerLost
  \/ RunAgain \/ TearDown
  \/ Finished

Spec == Init /\ [][Next]_vars

-----------------------------------------------------------------------------
(* Safety.                                                                 *)

\* The value never changes, so a value left by an earlier execution could be
\* evidence for a write that was lost.  It is not after executions that have
\* all passed, over any proxy: a PASS leaves no value behind.
EvidenceIsOwn ==
  \A k \in Turns :
    (\A j \in 1..k : verdict[j] = "pass") => k \in stored

\* Over an honest proxy the value is always listed and read back whole,
\* whatever earlier executions or somebody else have left, and an execution
\* fails only
\* - at the end, when somebody else's objects lie under the prefix or the
\*   vault denies the deletion;
\* - by a request that itself fails;
\* - by one repeated after a lost answer, or the CreateBucket of a bucket that
\*   is there and HeadBucket was refused, where a repetition is an error;
\* - on a name left soft-deleted that cannot be created again.
NoFalseAlarm ==
  [][ env.honest =>
        \A k \in Turns : verdict[k] = "none" =>
          /\ verdict'[k] \notin {"exit_listing", "exit_mismatch"}
          /\ verdict'[k] = "exit_not_gone" =>
               others \/ env.deletion = "denied"
          /\ verdict'[k] = "raise" =>
               \/ faults' < faults
               \/ /\ ~env.idempotent
                  /\ k \in repeated \/ (pc = "create_bucket" /\ bucket)
               \/ item = "soft" /\ ~env.recovers ]_vars

\* The first execution implements Showcase: it says PASS only after reading a
\* value that it had itself brought to the backend.
Promise == INSTANCE Showcase WITH
  effect <- 1 \in stored,
  seen <- 1 \in read,
  outcome <- CASE verdict[1] = "none" -> "none"
               [] verdict[1] = "pass" -> "pass"
               [] OTHER -> "fail"

KeepsPromise == Promise!Spec
=============================================================================
