---------------------------- MODULE MCCelerySqs -----------------------------
(***************************************************************************)
(* The instance of CelerySqs that TLC checks: a task of the run the script *)
(* triggers and a task of a backfilled run, or two tasks of the former.    *)
(***************************************************************************)
EXTENDS CelerySqs

CONSTANTS t1, t2, catchup

\* One task of each run.
Shared == [t \in {t1, t2} |-> IF t = t1 THEN Own ELSE catchup]
=============================================================================
