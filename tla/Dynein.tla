------------------------------- MODULE Dynein -------------------------------
(***************************************************************************)
(* case-studies/dynein-dynamodb: bootstrap_cosmos_db.py creates the Cosmos *)
(* database, verify_e2e_run.py then drives the dynein CLI through a table  *)
(* lifecycle and ends it with `dy admin delete table`, whose confirmation  *)
(* prompt it answers over a pseudo-terminal.                               *)
(*                                                                         *)
(* The script first downloads the dynein binary next to itself, unless a   *)
(* file of that name is there already.                                     *)
(*                                                                         *)
(* The child process writes to the terminal piece by piece while the       *)
(* script selects, reads, polls and watches its deadline.  The verification*)
(* may be run again on the same stack, which keeps the table of a run that *)
(* has failed.                                                             *)
(*                                                                         *)
(* DeleteTable is asynchronous by contract: a table whose deletion "has    *)
(* been started" may still be there, and the script does not look again.   *)
(* Whether the proxy answers before or after the container is gone is part *)
(* of the setup (synchronous).                                             *)
(***************************************************************************)
EXTENDS Naturals, Sequences

CONSTANTS
  Attempts,    \* bound: attempts of a retry loop
  Idle,        \* bound: empty selects that fit before the deadline
  MaxFaults,   \* bound: requests that fail in one behaviour
  MaxRuns      \* bound: verifications run on one stack

ASSUME BoundsAssumption ==
  /\ Attempts \in Nat \ {0}
  /\ Idle \in Nat \ {0}
  /\ MaxFaults \in Nat
  /\ MaxRuns \in Nat \ {0}

VARIABLES
  \* the scripts
  pc,        \* the call the script is about to make
  tries,     \* failed attempts, or empty selects, of the loop it is in
  output,    \* what delete_table_via_pty has read
  answered,  \* it has answered the prompt
  timedOut,  \* its loop has ended by the deadline
  verdict,   \* how this run ended
  last,      \* how the run before it ended
  runs,      \* runs started
  binary,    \* the file `dy` beside the script
  supported, \* the platform is one the script can download it for
  synchronous, \* the proxy answers DeleteTable once the container is gone
  \* the child process `dy admin delete table`
  dy,        \* what it is doing
  tty,       \* what it has written and nobody has read
  \* the backend
  cosmosUp, database, proxyUp,
  table,     \* the table, with or without the item, or on its way out
  faults     \* requests that may still fail

loop == << output, answered, timedOut >>
history == << last, runs, binary, supported, synchronous >>
child == << dy, tty >>
backend == << cosmosUp, database, proxyUp, table >>
vars == << pc, tries, loop, verdict, history, child, backend, faults >>

Lifecycle == {"create", "put", "get", "query", "scan", "del", "gone"}
Labels ==
  {"bootstrap", "download", "proxy", "spawn", "pty", "poll", "wait", "end"}
    \union Lifecycle
Failures ==
  {"exit_bootstrap", "exit_platform", "raise_download", "exit_proxy",
   "assert_step", "assert_exit", "assert_not_started"}
Exited == {"exit0", "exit1", "killed"}

\* The two pieces a terminal may split the prompt into, and the confirmation.
Pieces == {"[y/", "n]", "has been started"}
Prompt == << "[y/", "n]" >>

TypeOK ==
  /\ pc \in Labels
  /\ tries \in 0..(Attempts - 1) \union 0..Idle
  /\ output \in Seq(Pieces)
  /\ answered \in BOOLEAN
  /\ timedOut \in BOOLEAN
  /\ verdict \in {"none", "pass"} \union Failures
  /\ last \in {"none", "pass"} \union Failures
  /\ runs \in 1..MaxRuns
  /\ binary \in {"absent", "partial", "ready"}
  /\ supported \in BOOLEAN
  /\ synchronous \in BOOLEAN
  /\ dy \in {"none", "asking1", "asking2", "asked", "deleting", "deleted"}
            \union Exited
  /\ tty \in Seq(Pieces)
  /\ cosmosUp \in BOOLEAN
  /\ database \in BOOLEAN
  /\ proxyUp \in BOOLEAN
  /\ table \in {"none", "empty", "item", "deleting"}
  /\ faults \in 0..MaxFaults

Init ==
  /\ pc = "bootstrap"
  /\ tries = 0
  /\ output = << >>
  /\ answered = FALSE
  /\ timedOut = FALSE
  /\ verdict = "none"
  /\ last = "none"
  /\ runs = 1
  /\ binary = "absent"
  /\ supported \in BOOLEAN
  /\ synchronous \in BOOLEAN
  /\ dy = "none"
  /\ tty = << >>
  /\ cosmosUp \in BOOLEAN
  /\ database = FALSE
  /\ proxyUp \in BOOLEAN
  /\ table = "none"
  /\ faults = MaxFaults

-----------------------------------------------------------------------------
(* The bootstrap and the requests over run_dy.                             *)

GoTo(label) ==
  /\ pc' = label
  /\ tries' = 0
  /\ UNCHANGED verdict

Quit(how) ==
  /\ pc' = "end"
  /\ verdict' = how
  /\ UNCHANGED tries

\* Mutant: one attempt more than the range holds.
RetryOnceMore(how) ==
  \/ tries < Attempts /\ tries' = tries + 1 /\ UNCHANGED << pc, verdict >>
  \/ tries = Attempts /\ Quit(how)

\* A failed attempt of a loop over a range; the last one gives up.
Retry(how) ==
  \/ tries + 1 < Attempts /\ tries' = tries + 1 /\ UNCHANGED << pc, verdict >>
  \/ tries + 1 = Attempts /\ Quit(how)

UseFault == faults > 0 /\ faults' = faults - 1

\* Errors of the service are retried; an error of the connection itself is
\* not caught.
Bootstrap ==
  /\ pc = "bootstrap"
  /\ \/ cosmosUp /\ database' = TRUE /\ GoTo("download") /\ UNCHANGED faults
     \/ ~cosmosUp /\ Retry("exit_bootstrap") /\ UNCHANGED << database, faults >>
     \/ UseFault /\ Quit("exit_bootstrap") /\ UNCHANGED database
  /\ UNCHANGED << loop, history, child, cosmosUp, proxyUp, table >>

\* Mutant: the binary is downloaded again for every run.
DownloadAlways ==
  /\ pc = "download"
  /\ \/ ~supported /\ Quit("exit_platform") /\ UNCHANGED << binary, faults >>
     \/ supported /\ binary' = "ready" /\ GoTo("proxy") /\ UNCHANGED faults
     \/ /\ supported
        /\ UseFault
        /\ binary' \in {binary, "partial"}
        /\ Quit("raise_download")
  /\ UNCHANGED << loop, last, runs, supported, synchronous, child, backend >>

\* A file that is there is taken for the binary.  A download that fails, or is
\* interrupted while it unpacks, may leave a part of the file.
DownloadDynein ==
  /\ pc = "download"
  /\ \/ binary # "absent" /\ GoTo("proxy") /\ UNCHANGED << binary, faults >>
     \/ /\ binary = "absent"
        /\ ~supported
        /\ Quit("exit_platform")
        /\ UNCHANGED << binary, faults >>
     \/ /\ binary = "absent"
        /\ supported
        /\ \/ binary' = "ready" /\ GoTo("proxy") /\ UNCHANGED faults
           \/ /\ UseFault
              /\ binary' \in {"absent", "partial"}
              /\ Quit("raise_download")
  /\ UNCHANGED << loop, last, runs, supported, synchronous, child, backend >>

\* Any exception of the probe is retried, that of a binary that does not start
\* as well.
WaitForProxy ==
  /\ pc = "proxy"
  /\ \/ proxyUp /\ binary = "ready" /\ GoTo("create") /\ UNCHANGED faults
     \/ ~(proxyUp /\ binary = "ready") /\ Retry("exit_proxy")
        /\ UNCHANGED faults
     \/ UseFault /\ Retry("exit_proxy")
  /\ UNCHANGED << loop, history, child, backend >>

\* What a request needs (a table on its way out serves none, and is in the way
\* of a new one), what it leaves, and where the script goes next.
Works(op) ==
  CASE op = "create" -> database /\ table = "none"
    [] op \in {"get", "query", "scan"} -> table = "item"
    [] op = "gone" -> table = "empty"
    [] op \in {"put", "del"} -> table \in {"empty", "item"}

Leaves(op) ==
  CASE op \in {"create", "del"} -> "empty"
    [] op = "put" -> "item"
    [] op \in {"get", "query", "scan", "gone"} -> table

After == [create |-> "put", put |-> "get", get |-> "query", query |-> "scan",
          scan |-> "del", del |-> "gone", gone |-> "spawn"]

\* One `dy` command of main with the assertion on its output.  A command that
\* fails or times out may have reached the table before.
RunDy(op) ==
  /\ pc = op
  /\ \/ Works(op) /\ table' = Leaves(op) /\ GoTo(After[op]) /\ UNCHANGED faults
     \/ ~Works(op) /\ Quit("assert_step") /\ UNCHANGED << table, faults >>
     \/ /\ UseFault
        /\ Quit("assert_step")
        /\ table' \in {table} \union {Leaves(o) : o \in {x \in {op} : Works(x)}}
  /\ UNCHANGED << loop, history, child, cosmosUp, database, proxyUp >>

-----------------------------------------------------------------------------
(* delete_table_via_pty.                                                   *)

SpawnDelete ==
  /\ pc = "spawn"
  /\ dy' = "asking1"
  /\ GoTo("pty")
  /\ UNCHANGED << loop, history, tty, backend, faults >>

Holds(text, part) ==
  \E i \in 0..Len(text) :
    /\ i + Len(part) <= Len(text)
    /\ SubSeq(text, i + 1, i + Len(part)) = part

\* Something has arrived: it is read in one piece, and answered when this
\* piece holds the prompt.
SelectAndRead ==
  /\ pc = "pty"
  /\ tries < Idle
  /\ tty # << >>
  /\ output' = output \o tty
  /\ tty' = << >>
  /\ answered' = (answered \/ Holds(tty, Prompt))
  /\ pc' = "poll"
  /\ UNCHANGED << tries, timedOut, verdict, history, dy, backend, faults >>

\* Mutant: every empty select starts the deadline again.
SelectNothingForever ==
  /\ pc = "pty"
  /\ tries < Idle
  /\ tty = << >>
  /\ \/ dy \in Exited /\ GoTo("wait")
     \/ dy \notin Exited /\ GoTo("poll")
  /\ UNCHANGED << loop, history, child, backend, faults >>

\* Nothing within the second, or the other side has hung up.  dynein keeps its
\* end open until it exits, so that the wait that follows a hang-up, which
\* kills nothing, ends within its five seconds.
SelectNothing ==
  /\ pc = "pty"
  /\ tries < Idle
  /\ tty = << >>
  /\ \/ dy \in Exited /\ GoTo("wait")
     \/ dy \notin Exited /\ pc' = "poll" /\ tries' = tries + 1
        /\ UNCHANGED verdict
  /\ UNCHANGED << loop, history, child, backend, faults >>

\* Mutant: the loop is left as soon as the child has exited.
PollChildNoDrain ==
  /\ pc = "poll"
  /\ \/ dy \in Exited /\ pc' = "wait"
     \/ dy \notin Exited /\ pc' = "pty"
  /\ UNCHANGED << tries, loop, verdict, history, child, backend, faults >>

\* An exited child's last words are read before the loop is left.
PollChild ==
  /\ pc = "poll"
  /\ \/ dy \in Exited /\ output' = output \o tty /\ tty' = << >>
        /\ pc' = "wait"
     \/ dy \notin Exited /\ UNCHANGED << output, tty >> /\ pc' = "pty"
  /\ UNCHANGED << tries, answered, timedOut, verdict, history, dy, backend,
                  faults >>

\* Mutant: the child is not killed when the deadline has passed.
DeadlineLeavesChild ==
  /\ pc = "pty"
  /\ tries > 0
  /\ timedOut' = TRUE
  /\ pc' = "wait"
  /\ UNCHANGED << tries, output, answered, verdict, history, child, backend,
                  faults >>

\* What the table is once DeleteTable has been answered.
Deleted == IF synchronous THEN "none" ELSE "deleting"

\* The loop's else branch: a child that is still there is killed, one that
\* has just exited is not.  The request of a killed child may still be served.
Deadline ==
  /\ pc = "pty"
  /\ tries > 0
  /\ timedOut' = TRUE
  /\ dy' = IF dy \in Exited THEN dy ELSE "killed"
  /\ table' \in IF dy = "deleting" THEN {table, Deleted} ELSE {table}
  /\ pc' = "wait"
  /\ UNCHANGED << tries, output, answered, verdict, history, tty, cosmosUp,
                  database, proxyUp, faults >>

\* Mutant: the exit status is not looked at.
WaitChildAnyStatus ==
  /\ pc = "wait"
  /\ Quit("pass")
  /\ UNCHANGED << loop, history, child, backend, faults >>

\* The status of the child, then main's assertion on what it has said.
WaitChild ==
  /\ pc = "wait"
  /\ Quit(CASE dy # "exit0" -> "assert_exit"
            [] dy = "exit0" /\ Holds(output, << "has been started" >>) -> "pass"
            [] OTHER -> "assert_not_started")
  /\ UNCHANGED << loop, history, child, backend, faults >>

-----------------------------------------------------------------------------
(* The child.                                                              *)

Write(piece) == tty' = Append(tty, piece)

\* It asks, and waits for the answer for as long as it takes.
DyAsks ==
  /\ \/ dy = "asking1" /\ dy' = "asking2" /\ Write(Prompt[1])
     \/ dy = "asking2" /\ dy' = "asked" /\ Write(Prompt[2])
  /\ UNCHANGED << pc, tries, loop, verdict, history, backend, faults >>

DyReadsAnswer ==
  /\ dy = "asked"
  /\ answered
  /\ dy' = "deleting"
  /\ UNCHANGED << pc, tries, loop, verdict, history, tty, backend, faults >>

DyDeletes ==
  /\ dy = "deleting"
  /\ \/ dy' = "deleted" /\ table' = Deleted /\ UNCHANGED faults
     \/ dy' = "exit1" /\ UseFault /\ table' \in {table, Deleted}
  /\ UNCHANGED << pc, tries, loop, verdict, history, tty, cosmosUp, database,
                  proxyUp >>

DyConfirms ==
  /\ dy = "deleted"
  /\ Write("has been started")
  /\ dy' = "exit0"
  /\ UNCHANGED << pc, tries, loop, verdict, history, backend, faults >>

\* The backend finishes a deletion it has confirmed, whenever it comes to it.
DeletionEnds ==
  /\ table = "deleting"
  /\ table' = "none"
  /\ UNCHANGED << pc, tries, loop, verdict, history, child, cosmosUp, database,
                  proxyUp, faults >>

ServiceStarts ==
  /\ \/ ~cosmosUp /\ cosmosUp' = TRUE /\ UNCHANGED proxyUp
     \/ ~proxyUp /\ proxyUp' = TRUE /\ UNCHANGED cosmosUp
  /\ UNCHANGED << pc, tries, loop, verdict, history, child, database, table,
                  faults >>

\* The verification is run again on the stack as it was left.
RunAgain ==
  /\ pc = "end"
  /\ database
  /\ runs < MaxRuns
  /\ runs' = runs + 1
  /\ last' = verdict
  /\ pc' = "download"
  /\ tries' = 0
  /\ verdict' = "none"
  /\ output' = << >>
  /\ answered' = FALSE
  /\ timedOut' = FALSE
  /\ dy' = "none"
  /\ tty' = << >>
  /\ UNCHANGED << binary, supported, synchronous, backend, faults >>

Script ==
  \/ Bootstrap
  \/ DownloadDynein
  \/ WaitForProxy
  \/ \E op \in Lifecycle : RunDy(op)
  \/ SpawnDelete
  \/ SelectAndRead
  \/ SelectNothing
  \/ PollChild
  \/ Deadline
  \/ WaitChild

Child == DyAsks \/ DyReadsAnswer \/ DyDeletes \/ DyConfirms

Finished ==
  /\ pc = "end"
  /\ UNCHANGED vars

Next ==
  \/ Script
  \/ Child
  \/ DeletionEnds
  \/ ServiceStarts
  \/ RunAgain
  \/ Finished

Spec == Init /\ [][Next]_vars

\* The script is a running process; nothing is assumed of the child, of the
\* services, or of whoever runs the verification again.
FairSpec == Spec /\ WF_vars(Script)

-----------------------------------------------------------------------------
(* Safety.                                                                 *)

\* A table that is gone, or, where the proxy does not wait, on its way out.
Leaving == {"none", Deleted}

\* PASS leaves no live table behind, whatever the terminal, the deadline and
\* earlier failed runs have done.
GoneAfterPass == verdict = "pass" => table \in Leaving

\* A run can meet a live table only when the run before it failed.
RepeatableAfterPass == pc = "create" /\ last = "pass" => table \in Leaving

\* A verification that has passed leaves no live table, neither when it says so
\* nor when the next one on the stack is about to create its own.  The table is
\* gone where the proxy answers DeleteTable after the fact.  Where it does not,
\* the deletion may be under way still, which the script does not wait for: the
\* verification can be repeated once it has ended.
PassLeavesNothing == GoneAfterPass /\ RepeatableAfterPass

\* No child outlives the function that has started it: the deadline kills it,
\* every other way out of the loop is taken after its exit.
NoOrphan == verdict # "none" => dy \in Exited \union {"none"}

\* A confirmation that was printed is missed only when the deadline has cut
\* the loop off: the last read comes after the child was seen to have exited.
ConfirmationNotLost == verdict = "assert_not_started" => timedOut

\* A download that went wrong is met before anything was sent: while the file
\* is not whole no run has passed or left a table, so that a later run cannot
\* lose a binary the stack has already been used with.
BrokenBeforeUse ==
  binary # "ready" => table = "none" /\ dy = "none" /\ last # "pass"

-----------------------------------------------------------------------------
(* Liveness.                                                               *)

\* Every run ends, even when dynein never asks, never exits, or the services
\* never start.
EveryRunEnds == (verdict = "none") ~> (verdict # "none")

-----------------------------------------------------------------------------
(* What the comments say and the code does not do.                         *)

\* "answer the prompt once it appears" (main, and README.md): when the loop
\* goes around with the whole prompt in its output, it has answered it.
PromptIsAnswered ==
  pc = "poll" /\ Holds(output, Prompt) => answered
=============================================================================
