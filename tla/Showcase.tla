------------------------------ MODULE Showcase ------------------------------
(***************************************************************************)
(* What every verification script of the case studies promises, whatever   *)
(* application it drives: it ends with PASS, as its last line and its exit *)
(* status, only after it has itself observed an effect that the            *)
(* application had really left in the Azure backend, and does not fail     *)
(* after that line.  A failure needs no evidence, a script may give up at  *)
(* any time.  A PASS line that is not the last, as the first of the two    *)
(* CelerySqs prints, is not the outcome and may be followed by a failure.  *)
(*                                                                         *)
(* The detailed modules implement this one: S3Logging (the task log is an  *)
(* object in Azurite), CelerySqs (the task message was consumed),          *)
(* FluentKinesis (the stream holds as many records as were generated),     *)
(* Replay (the value was stored and read back), and each execution of      *)
(* SnsFanout (a message is in the subscription).                           *)
(***************************************************************************)

VARIABLES
  effect,    \* the application's effect is in the backend
  seen,      \* the script has observed the effect
  outcome    \* what the script has ended with

vars == << effect, seen, outcome >>

TypeOK ==
  /\ effect \in BOOLEAN
  /\ seen \in BOOLEAN
  /\ outcome \in {"none", "pass", "fail"}

Init ==
  /\ effect = FALSE
  /\ seen = FALSE
  /\ outcome = "none"

\* The application, through aws2azure, leaves its effect in the backend.
TakeEffect ==
  /\ effect' = TRUE
  /\ UNCHANGED << seen, outcome >>

\* The script reads the effect back.
Observe ==
  /\ effect
  /\ outcome = "none"
  /\ seen' = TRUE
  /\ UNCHANGED << effect, outcome >>

Pass ==
  /\ seen
  /\ outcome = "none"
  /\ outcome' = "pass"
  /\ UNCHANGED << effect, seen >>

Fail ==
  /\ outcome = "none"
  /\ outcome' = "fail"
  /\ UNCHANGED << effect, seen >>

Next == TakeEffect \/ Observe \/ Pass \/ Fail

Spec == Init /\ [][Next]_vars
=============================================================================
