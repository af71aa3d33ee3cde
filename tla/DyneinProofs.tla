---------------------------- MODULE DyneinProofs ----------------------------
(***************************************************************************)
(* Theorems about Dynein, for every number of attempts, empty selects,     *)
(* faults and runs: its type invariant, its four safety properties, and a  *)
(* bound on the steps of a run.                                            *)
(*                                                                         *)
(* Where the script is decides what the child can be (Staged), what the     *)
(* child has done decides what it has written and what is left of the      *)
(* table (Said), and a file that is not the binary keeps every run before  *)
(* its first request (Unused).                                             *)
(***************************************************************************)
EXTENDS Dynein, Counting, SequenceTheorems

Confirmation == "has been started"

Heard(text) == \E i \in 1..Len(text) : text[i] = Confirmation
Asked(text) == \E i \in 1..Len(text) : text[i] = "n]"

Before == {"bootstrap", "download", "proxy", "spawn"} \union Lifecycle

\* Where the script is, and the child.
Staged ==
  /\ pc \in Before =>
       dy = "none" /\ tty = << >> /\ output = << >> /\ ~answered /\ ~timedOut
  /\ pc \in {"pty", "poll"} => dy \notin {"none", "killed"} /\ ~timedOut
  /\ pc = "wait" => dy \in Exited
  /\ pc = "end" <=> verdict # "none"
  /\ pc = "end" => dy \in Exited \union {"none"}

\* The prompt is answered only once dynein has asked, so the answer cannot be
\* taken for something else.
AnsweredAfterAsked ==
  answered => dy \notin {"none", "asking1", "asking2"}

\* What the child has done, written, and been told.
Said ==
  /\ dy \in {"asking1", "asking2"} => ~Asked(tty)
  /\ AnsweredAfterAsked
  /\ dy = "exit0" => Heard(output) \/ Heard(tty)
  /\ pc = "wait" /\ ~timedOut => tty = << >>
  /\ ConfirmationNotLost

\* What the table is.
Clean ==
  /\ dy \in {"deleted", "exit0"} => table \in Leaving
  /\ verdict = "pass" => dy = "exit0"
  /\ pc \in {"bootstrap", "download", "proxy", "create"} /\ last = "pass" =>
       table \in Leaving

\* A run without the binary has come nowhere.
Unused ==
  binary # "ready" =>
    /\ pc \in {"bootstrap", "download", "proxy", "end"}
    /\ table = "none" /\ dy = "none" /\ last # "pass" /\ verdict # "pass"

IInv == TypeOK /\ Staged /\ Said /\ Clean /\ Unused

-----------------------------------------------------------------------------
(* Texts.                                                                  *)

\* What was heard is found by the assertion of main.
LEMMA HeardHolds ==
  ASSUME NEW text \in Seq(Pieces), Heard(text)
  PROVE  Holds(text, << Confirmation >>)
<1>1. PICK i \in 1..Len(text) : text[i] = Confirmation
  BY DEF Heard
<1>2. Len(text) \in Nat
  BY LenProperties
<1>3. i - 1 \in 0..Len(text) /\ (i - 1) + 1 <= Len(text) /\ (i - 1) + 1 = i
  BY <1>2
<1>4. SubSeq(text, i, i) = << Confirmation >>
  <2>1. i \in Int /\ \A j \in i..i : text[j] \in Pieces
    BY <1>2, LenProperties
  <2>2. /\ SubSeq(text, i, i) \in Seq(Pieces)
        /\ Len(SubSeq(text, i, i)) = 1
        /\ SubSeq(text, i, i)[1] = text[i]
    BY <2>1, SubSeqProperties
  <2>3. /\ << Confirmation >> \in Seq(Pieces)
        /\ Len(<< Confirmation >>) = 1
        /\ << Confirmation >>[1] = Confirmation
    <3>1. Confirmation \in Pieces
      BY DEF Confirmation, Pieces
    <3> QED
      BY <3>1
  <2>4. \A j \in 1..Len(SubSeq(text, i, i)) :
          SubSeq(text, i, i)[j] = << Confirmation >>[j]
    BY <1>1, <2>2, <2>3
  <2> QED
    BY <2>2, <2>3, <2>4, SeqEqual
<1> QED
  BY <1>3, <1>4 DEF Holds

\* A text that holds the prompt holds its second piece.
LEMMA PromptAsked ==
  ASSUME NEW text \in Seq(Pieces), Holds(text, Prompt)
  PROVE  Asked(text)
<1>1. Len(text) \in Nat /\ Len(Prompt) = 2
  BY LenProperties DEF Prompt
<1>2. PICK i \in 0..Len(text) :
        i + 2 <= Len(text) /\ SubSeq(text, i + 1, i + 2) = Prompt
  BY <1>1 DEF Holds
<1>3. SubSeq(text, i + 1, i + 2)[2] = text[i + 2]
  <2>1. /\ i + 1 \in Int /\ i + 2 \in Int
        /\ \A j \in (i + 1)..(i + 2) : text[j] \in Pieces
    BY <1>1, <1>2, LenProperties
  <2>2. \A j \in 1..((i + 2) - (i + 1) + 1) :
          SubSeq(text, i + 1, i + 2)[j] = text[i + 1 + j - 1]
    BY <2>1, SubSeqProperties
  <2>3. 2 \in 1..((i + 2) - (i + 1) + 1) /\ i + 1 + 2 - 1 = i + 2
    BY <1>2
  <2>4. SubSeq(text, i + 1, i + 2)[2] = text[i + 1 + 2 - 1]
    BY <2>2, <2>3, Zenon
  <2> QED
    BY <2>3, <2>4
<1>4. Prompt[2] = "n]" /\ i + 2 \in 1..Len(text)
  BY <1>1, <1>2 DEF Prompt
<1>5. text[i + 2] = "n]"
  BY <1>2, <1>3, <1>4
<1> QED
  BY <1>4, <1>5 DEF Asked

\* Reading loses nothing.
LEMMA ReadingKeeps ==
  ASSUME NEW s \in Seq(Pieces), NEW t \in Seq(Pieces)
  PROVE  /\ s \o t \in Seq(Pieces)
         /\ Heard(s) \/ Heard(t) => Heard(s \o t)
<1>1. /\ s \o t \in Seq(Pieces)
      /\ Len(s \o t) = Len(s) + Len(t)
      /\ \A i \in 1..(Len(s) + Len(t)) :
           (s \o t)[i] = IF i <= Len(s) THEN s[i] ELSE t[i - Len(s)]
  BY ConcatProperties
<1>2. Len(s) \in Nat /\ Len(t) \in Nat
  BY LenProperties
<1>3. ASSUME NEW i \in 1..Len(s), s[i] = Confirmation
      PROVE  Heard(s \o t)
  BY <1>1, <1>2, <1>3 DEF Heard
<1>4. ASSUME NEW i \in 1..Len(t), t[i] = Confirmation
      PROVE  Heard(s \o t)
  <2>1. Len(s) + i \in 1..(Len(s) + Len(t)) /\ ~(Len(s) + i <= Len(s))
    BY <1>2
  <2>2. (s \o t)[Len(s) + i] = t[i]
    BY <1>1, <1>2, <2>1
  <2> QED
    BY <1>1, <1>4, <2>1, <2>2 DEF Heard
<1> QED
  BY <1>1, <1>3, <1>4 DEF Heard

\* The child writes at the end.
LEMMA WritingAdds ==
  ASSUME NEW t \in Seq(Pieces), NEW piece \in Pieces
  PROVE  /\ Append(t, piece) \in Seq(Pieces)
         /\ piece = Confirmation => Heard(Append(t, piece))
         /\ piece # "n]" /\ ~Asked(t) => ~Asked(Append(t, piece))
<1>1. /\ Append(t, piece) \in Seq(Pieces)
      /\ Len(Append(t, piece)) = Len(t) + 1
      /\ \A i \in 1..Len(t) : Append(t, piece)[i] = t[i]
      /\ Append(t, piece)[Len(t) + 1] = piece
  BY AppendProperties
<1>2. Len(t) \in Nat
  BY LenProperties
<1>3. piece = Confirmation => Heard(Append(t, piece))
  BY <1>1, <1>2 DEF Heard
<1>4. ASSUME piece # "n]", ~Asked(t), NEW i \in 1..(Len(t) + 1)
      PROVE  Append(t, piece)[i] # "n]"
  <2>1. CASE i = Len(t) + 1
    BY <1>1, <1>4, <2>1
  <2>2. CASE i # Len(t) + 1
    <3>1. i \in 1..Len(t)
      BY <1>2, <2>2
    <3> QED
      BY <1>1, <1>4, <3>1 DEF Asked
  <2> QED
    BY <2>1, <2>2
<1> QED
  BY <1>1, <1>3, <1>4 DEF Asked

-----------------------------------------------------------------------------
(* The type invariant.                                                     *)

USE DEF Labels, Lifecycle, Failures, Exited

LEMMA TypeInit == Init => TypeOK
<1> SUFFICES ASSUME Init
             PROVE  TypeOK
  OBVIOUS
<1>1. << >> \in Seq(Pieces)
  OBVIOUS
<1>2. tries \in 0..Idle /\ runs \in 1..MaxRuns /\ faults \in 0..MaxFaults
  BY BoundsAssumption DEF Init
<1> QED
  BY <1>1, <1>2 DEF Init, TypeOK

LEMMA TypeStep == TypeOK /\ [Next]_vars => TypeOK'
<1> SUFFICES ASSUME TypeOK, [Next]_vars
             PROVE  TypeOK'
  OBVIOUS
<1> USE BoundsAssumption DEF TypeOK, GoTo, Quit, UseFault, loop, history,
                             child, backend
<1>1. CASE Bootstrap
  <2>1. database' \in BOOLEAN
    BY <1>1 DEF Bootstrap
  <2> QED
    BY <1>1, <2>1 DEF Bootstrap, Retry
<1>2. CASE DownloadDynein
  BY <1>2 DEF DownloadDynein
<1>3. CASE WaitForProxy
  BY <1>3 DEF WaitForProxy, Retry
<1>4. ASSUME NEW op \in Lifecycle, RunDy(op)
      PROVE  TypeOK'
  <2>1. /\ After[op] \in Labels
        /\ Leaves(op) \in {"none", "empty", "item", "deleting"}
    BY DEF After, Leaves
  <2>2. \A o \in {x \in {op} : Works(x)} : Leaves(o) = Leaves(op)
    OBVIOUS
  <2> QED
    BY <1>4, <2>1, <2>2 DEF RunDy
<1>5. CASE SpawnDelete
  BY <1>5 DEF SpawnDelete
<1>6. CASE SelectAndRead
  <2>1. output' \in Seq(Pieces) /\ tty' \in Seq(Pieces)
    BY <1>6, ReadingKeeps DEF SelectAndRead
  <2>2. answered' \in BOOLEAN
    BY <1>6 DEF SelectAndRead
  <2> QED
    BY <1>6, <2>1, <2>2 DEF SelectAndRead
<1>7. CASE SelectNothing
  BY <1>7 DEF SelectNothing
<1>8. CASE PollChild
  <2>1. << >> \in Seq(Pieces) /\ output \o tty \in Seq(Pieces)
    BY ReadingKeeps
  <2>2. output' \in Seq(Pieces) /\ tty' \in Seq(Pieces)
    BY <1>8, <2>1 DEF PollChild
  <2> QED
    BY <1>8, <2>2 DEF PollChild
<1>9. CASE Deadline
  BY <1>9 DEF Deadline, Deleted
<1>10. CASE WaitChild
  <2>1. verdict' \in {"pass", "assert_exit", "assert_not_started"}
    BY <1>10 DEF WaitChild
  <2>2. /\ pc' = "end"
        /\ UNCHANGED << tries, loop, history, child, backend, faults >>
    BY <1>10 DEF WaitChild
  <2> QED
    BY <2>1, <2>2
<1>11. CASE DyAsks
  <2>1. tty' \in Seq(Pieces)
    BY <1>11, WritingAdds DEF DyAsks, Write, Pieces, Prompt
  <2> QED
    BY <1>11, <2>1 DEF DyAsks
<1>12. CASE DyReadsAnswer
  BY <1>12 DEF DyReadsAnswer
<1>13. CASE DyDeletes
  BY <1>13 DEF DyDeletes, Deleted
<1>14. CASE DyConfirms
  <2>1. tty' \in Seq(Pieces)
    BY <1>14, WritingAdds DEF DyConfirms, Write, Pieces
  <2>2. /\ dy' = "exit0"
        /\ UNCHANGED << pc, tries, loop, verdict, history, backend, faults >>
    BY <1>14 DEF DyConfirms
  <2> QED
    BY <2>1, <2>2
<1>15. CASE ServiceStarts
  <2>1. cosmosUp' \in BOOLEAN /\ proxyUp' \in BOOLEAN
    BY <1>15 DEF ServiceStarts
  <2> QED
    BY <1>15, <2>1 DEF ServiceStarts
<1>16. CASE RunAgain
  <2>1. << >> \in Seq(Pieces)
    OBVIOUS
  <2>2. runs' \in 1..MaxRuns /\ tries' \in 0..Idle
    BY <1>16 DEF RunAgain
  <2> QED
    BY <1>16, <2>1, <2>2 DEF RunAgain
<1>17. CASE DeletionEnds
  BY <1>17 DEF DeletionEnds
<1>18. CASE UNCHANGED vars
  BY <1>18 DEF vars
<1> QED
  BY <1>1, <1>2, <1>3, <1>4, <1>5, <1>6, <1>7, <1>8, <1>9, <1>10, <1>11,
     <1>12, <1>13, <1>14, <1>15, <1>16, <1>17, <1>18
  DEF Next, Script, Child, Finished

\* Every variable of Dynein keeps its type.
THEOREM TypeCorrect == Spec => []TypeOK
BY TypeInit, TypeStep, PTL DEF Spec

-----------------------------------------------------------------------------
(* The invariant.                                                          *)

LEMMA InvInit == Init => IInv
<1> SUFFICES ASSUME Init
             PROVE  IInv
  OBVIOUS
<1>1. ~Asked(tty)
  BY DEF Init, Asked
<1> QED
  BY <1>1, TypeInit
  DEF Init, IInv, Staged, Said, Clean, Unused, Before, AnsweredAfterAsked,
      ConfirmationNotLost

LEMMA InvStep == IInv /\ [Next]_vars => IInv'
<1> SUFFICES ASSUME IInv, [Next]_vars
             PROVE  IInv'
  OBVIOUS
<1>0. TypeOK'
  BY TypeStep DEF IInv
<1> USE DEF GoTo, Quit, UseFault, loop, history, child, backend,
            AnsweredAfterAsked, ConfirmationNotLost, Leaving, Deleted
<1>1. CASE Bootstrap
  <2>1. Staged'
    BY <1>1
    DEF IInv, TypeOK, Staged, Before, Bootstrap, Retry
  <2>2. Said'
    BY <1>1
    DEF IInv, TypeOK, Staged, Said, Before, Bootstrap, Retry
  <2>3. Clean'
    BY <1>1
    DEF IInv, TypeOK, Staged, Clean, Before, Unused, Bootstrap, Retry
  <2>4. Unused'
    BY <1>1
    DEF IInv, TypeOK, Staged, Unused, Before, Bootstrap, Retry
  <2> QED
    BY <1>0, <2>1, <2>2, <2>3, <2>4 DEF IInv
<1>2. CASE DownloadDynein
  <2>1. Staged'
    BY <1>2
    DEF IInv, TypeOK, Staged, Before, DownloadDynein
  <2>2. Said'
    BY <1>2
    DEF IInv, TypeOK, Staged, Said, Before, DownloadDynein
  <2>3. Clean'
    BY <1>2
    DEF IInv, TypeOK, Staged, Clean, Before, Unused, DownloadDynein
  <2>4. Unused'
    BY <1>2
    DEF IInv, TypeOK, Staged, Unused, Before, DownloadDynein
  <2> QED
    BY <1>0, <2>1, <2>2, <2>3, <2>4 DEF IInv
<1>3. CASE WaitForProxy
  <2>1. Staged'
    BY <1>3
    DEF IInv, TypeOK, Staged, Before, WaitForProxy, Retry
  <2>2. Said'
    BY <1>3
    DEF IInv, TypeOK, Staged, Said, Before, WaitForProxy, Retry
  <2>3. Clean'
    BY <1>3
    DEF IInv, TypeOK, Staged, Clean, Before, Unused, WaitForProxy, Retry
  <2>4. Unused'
    BY <1>3
    DEF IInv, TypeOK, Staged, Unused, Before, WaitForProxy, Retry
  <2> QED
    BY <1>0, <2>1, <2>2, <2>3, <2>4 DEF IInv
<1>4. ASSUME NEW op \in Lifecycle, RunDy(op)
      PROVE  IInv'
  <2>1. /\ pc = op
        /\ \/ pc' = After[op] /\ verdict' = verdict
           \/ pc' = "end" /\ verdict' = "assert_step"
        /\ UNCHANGED << loop, history, child >>
    BY <1>4 DEF RunDy
  <2>2. /\ op \in Before
        /\ After[op] \in Before \ {"bootstrap", "download", "proxy", "create"}
    BY DEF After, Before
  <2>3. Staged'
    BY <1>4, <2>1, <2>2
    DEF IInv, TypeOK, Staged, Before
  <2>4. Said'
    BY <1>4, <2>1, <2>2
    DEF IInv, TypeOK, Staged, Said, Before
  <2>5. Clean'
    BY <1>4, <2>1, <2>2
    DEF IInv, TypeOK, Staged, Clean, Before, Unused
  <2>6. Unused'
    BY <1>4, <2>1, <2>2
    DEF IInv, TypeOK, Staged, Unused, Before
  <2> QED
    BY <1>0, <2>3, <2>4, <2>5, <2>6 DEF IInv
<1>5. CASE SpawnDelete
  <2>1. ~Asked(tty')
    BY <1>5 DEF SpawnDelete, IInv, Staged, Before, Asked
  <2>2. Staged'
    BY <1>5, <2>1
    DEF IInv, TypeOK, Staged, Before, SpawnDelete
  <2>3. Said'
    BY <1>5, <2>1
    DEF IInv, TypeOK, Staged, Said, Before, SpawnDelete
  <2>4. Clean'
    BY <1>5, <2>1
    DEF IInv, TypeOK, Staged, Clean, Before, Unused, SpawnDelete
  <2>5. Unused'
    BY <1>5, <2>1
    DEF IInv, TypeOK, Staged, Unused, Before, SpawnDelete
  <2> QED
    BY <1>0, <2>2, <2>3, <2>4, <2>5 DEF IInv
<1>6. CASE SelectAndRead
  <2>1. Holds(tty, Prompt) => Asked(tty)
    BY PromptAsked DEF IInv, TypeOK
  <2>2. Heard(output) \/ Heard(tty) => Heard(output')
    BY <1>6, ReadingKeeps DEF SelectAndRead, IInv, TypeOK
  <2>3. ~Asked(tty')
    BY <1>6 DEF SelectAndRead, Asked
  <2>4. Staged'
    BY <1>6, <2>1, <2>2, <2>3
    DEF IInv, TypeOK, Staged, Before, SelectAndRead
  <2>5. Said'
    BY <1>6, <2>1, <2>2, <2>3
    DEF IInv, TypeOK, Staged, Said, Before, SelectAndRead
  <2>6. Clean'
    BY <1>6, <2>1, <2>2, <2>3
    DEF IInv, TypeOK, Staged, Clean, Before, Unused, SelectAndRead
  <2>7. Unused'
    BY <1>6, <2>1, <2>2, <2>3
    DEF IInv, TypeOK, Staged, Unused, Before, SelectAndRead
  <2> QED
    BY <1>0, <2>4, <2>5, <2>6, <2>7 DEF IInv
<1>7. CASE SelectNothing
  <2>1. Staged'
    BY <1>7
    DEF IInv, TypeOK, Staged, Before, SelectNothing
  <2>2. Said'
    BY <1>7
    DEF IInv, TypeOK, Staged, Said, Before, SelectNothing
  <2>3. Clean'
    BY <1>7
    DEF IInv, TypeOK, Staged, Clean, Before, Unused, SelectNothing
  <2>4. Unused'
    BY <1>7
    DEF IInv, TypeOK, Staged, Unused, Before, SelectNothing
  <2> QED
    BY <1>0, <2>1, <2>2, <2>3, <2>4 DEF IInv
<1>8. CASE PollChild
  <2>1. Heard(output) \/ Heard(tty) => Heard(output') \/ Heard(tty')
    BY <1>8, ReadingKeeps DEF PollChild, IInv, TypeOK
  <2>2. Staged'
    BY <1>8, <2>1
    DEF IInv, TypeOK, Staged, Before, PollChild
  <2>3. Said'
    BY <1>8, <2>1
    DEF IInv, TypeOK, Staged, Said, Before, PollChild
  <2>4. Clean'
    BY <1>8, <2>1
    DEF IInv, TypeOK, Staged, Clean, Before, Unused, PollChild
  <2>5. Unused'
    BY <1>8, <2>1
    DEF IInv, TypeOK, Staged, Unused, Before, PollChild
  <2> QED
    BY <1>0, <2>2, <2>3, <2>4, <2>5 DEF IInv
<1>9. CASE Deadline
  <2>1. Staged'
    BY <1>9
    DEF IInv, TypeOK, Staged, Before, Deadline
  <2>2. Said'
    BY <1>9
    DEF IInv, TypeOK, Staged, Said, Before, Deadline
  <2>3. Clean'
    BY <1>9
    DEF IInv, TypeOK, Staged, Clean, Before, Unused, Deadline
  <2>4. Unused'
    BY <1>9
    DEF IInv, TypeOK, Staged, Unused, Before, Deadline
  <2> QED
    BY <1>0, <2>1, <2>2, <2>3, <2>4 DEF IInv
<1>10. CASE WaitChild
  <2>1. dy = "exit0" /\ ~timedOut => Holds(output, << "has been started" >>)
    <3> SUFFICES ASSUME dy = "exit0", ~timedOut
                 PROVE  Holds(output, << Confirmation >>)
      BY DEF Confirmation
    <3>1. tty = << >> /\ (Heard(output) \/ Heard(tty))
      BY <1>10 DEF WaitChild, IInv, Said
    <3>2. Heard(output)
      BY <3>1 DEF Heard
    <3> QED
      BY <3>2, HeardHolds DEF IInv, TypeOK
  <2>2. Staged'
    BY <1>10, <2>1
    DEF IInv, TypeOK, Staged, Before, WaitChild
  <2>3. Said'
    BY <1>10, <2>1
    DEF IInv, TypeOK, Staged, Said, Before, WaitChild
  <2>4. Clean'
    BY <1>10, <2>1
    DEF IInv, TypeOK, Staged, Clean, Before, Unused, WaitChild
  <2>5. Unused'
    BY <1>10, <2>1
    DEF IInv, TypeOK, Staged, Unused, Before, WaitChild
  <2> QED
    BY <1>0, <2>2, <2>3, <2>4, <2>5 DEF IInv
<1>11. CASE DyAsks
  <2>1. dy' = "asking2" => ~Asked(tty')
    BY <1>11, WritingAdds DEF DyAsks, Write, Prompt, Pieces, IInv, TypeOK, Said
  <2>2. Staged'
    BY <1>11, <2>1
    DEF IInv, TypeOK, Staged, Before, DyAsks, Write, Prompt
  <2>3. Said'
    BY <1>11, <2>1
    DEF IInv, TypeOK, Staged, Said, Before, DyAsks, Write, Prompt
  <2>4. Clean'
    BY <1>11, <2>1
    DEF IInv, TypeOK, Staged, Clean, Before, Unused, DyAsks, Write, Prompt
  <2>5. Unused'
    BY <1>11, <2>1
    DEF IInv, TypeOK, Staged, Unused, Before, DyAsks, Write, Prompt
  <2> QED
    BY <1>0, <2>2, <2>3, <2>4, <2>5 DEF IInv
<1>12. CASE DyReadsAnswer
  <2>1. Staged'
    BY <1>12
    DEF IInv, TypeOK, Staged, Before, DyReadsAnswer
  <2>2. Said'
    BY <1>12
    DEF IInv, TypeOK, Staged, Said, Before, DyReadsAnswer
  <2>3. Clean'
    BY <1>12
    DEF IInv, TypeOK, Staged, Clean, Before, Unused, DyReadsAnswer
  <2>4. Unused'
    BY <1>12
    DEF IInv, TypeOK, Staged, Unused, Before, DyReadsAnswer
  <2> QED
    BY <1>0, <2>1, <2>2, <2>3, <2>4 DEF IInv
<1>13. CASE DyDeletes
  <2>1. Staged'
    BY <1>13
    DEF IInv, TypeOK, Staged, Before, DyDeletes
  <2>2. Said'
    BY <1>13
    DEF IInv, TypeOK, Staged, Said, Before, DyDeletes
  <2>3. Clean'
    BY <1>13
    DEF IInv, TypeOK, Staged, Clean, Before, Unused, DyDeletes
  <2>4. Unused'
    BY <1>13
    DEF IInv, TypeOK, Staged, Unused, Before, DyDeletes
  <2> QED
    BY <1>0, <2>1, <2>2, <2>3, <2>4 DEF IInv
<1>14. CASE DyConfirms
  <2>1. Heard(tty')
    BY <1>14, WritingAdds
    DEF DyConfirms, Write, Pieces, Confirmation, IInv, TypeOK
  <2>2. Staged'
    BY <1>14, <2>1
    DEF IInv, TypeOK, Staged, Before, DyConfirms, Write
  <2>3. Said'
    BY <1>14, <2>1
    DEF IInv, TypeOK, Staged, Said, Before, DyConfirms, Write
  <2>4. Clean'
    BY <1>14, <2>1
    DEF IInv, TypeOK, Staged, Clean, Before, Unused, DyConfirms, Write
  <2>5. Unused'
    BY <1>14, <2>1
    DEF IInv, TypeOK, Staged, Unused, Before, DyConfirms, Write
  <2> QED
    BY <1>0, <2>2, <2>3, <2>4, <2>5 DEF IInv
<1>15. CASE ServiceStarts
  <2>1. Staged'
    BY <1>15
    DEF IInv, TypeOK, Staged, Before, ServiceStarts
  <2>2. Said'
    BY <1>15
    DEF IInv, TypeOK, Staged, Said, Before, ServiceStarts
  <2>3. Clean'
    BY <1>15
    DEF IInv, TypeOK, Staged, Clean, Before, Unused, ServiceStarts
  <2>4. Unused'
    BY <1>15
    DEF IInv, TypeOK, Staged, Unused, Before, ServiceStarts
  <2> QED
    BY <1>0, <2>1, <2>2, <2>3, <2>4 DEF IInv
<1>16. CASE RunAgain
  <2>1. Staged'
    BY <1>16
    DEF IInv, TypeOK, Staged, Before, RunAgain
  <2>2. Said'
    BY <1>16
    DEF IInv, TypeOK, Staged, Said, Before, RunAgain
  <2>3. Clean'
    BY <1>16
    DEF IInv, TypeOK, Staged, Clean, Before, Unused, RunAgain
  <2>4. Unused'
    BY <1>16
    DEF IInv, TypeOK, Staged, Unused, Before, RunAgain
  <2> QED
    BY <1>0, <2>1, <2>2, <2>3, <2>4 DEF IInv
<1>17. CASE DeletionEnds
  <2>1. Staged'
    BY <1>17
    DEF IInv, TypeOK, Staged, Before, DeletionEnds
  <2>2. Said'
    BY <1>17
    DEF IInv, TypeOK, Staged, Said, Before, DeletionEnds
  <2>3. Clean'
    BY <1>17
    DEF IInv, TypeOK, Staged, Clean, Before, Unused, DeletionEnds
  <2>4. Unused'
    BY <1>17
    DEF IInv, TypeOK, Staged, Unused, Before, DeletionEnds
  <2> QED
    BY <1>0, <2>1, <2>2, <2>3, <2>4 DEF IInv
<1>18. CASE UNCHANGED vars
  <2>1. Staged'
    BY <1>18
    DEF IInv, TypeOK, Staged, Before, vars
  <2>2. Said'
    BY <1>18
    DEF IInv, TypeOK, Staged, Said, Before, vars
  <2>3. Clean'
    BY <1>18
    DEF IInv, TypeOK, Staged, Clean, Before, Unused, vars
  <2>4. Unused'
    BY <1>18
    DEF IInv, TypeOK, Staged, Unused, Before, vars
  <2> QED
    BY <1>0, <2>1, <2>2, <2>3, <2>4 DEF IInv
<1> QED
  BY <1>0, <1>1, <1>2, <1>3, <1>4, <1>5, <1>6, <1>7, <1>8, <1>9,
     <1>10, <1>11, <1>12, <1>13, <1>14, <1>15, <1>16, <1>17, <1>18
  DEF Next, Script, Child, Finished, IInv

\* The five parts hold together in every behaviour: every step, the script's,
\* the child's or the next run's, preserves them.
THEOREM Invariance == Spec => []IInv
BY InvInit, InvStep, PTL DEF Spec

-----------------------------------------------------------------------------
(* The properties.                                                         *)

\* PASS means that the child has exited with success, and it does so only
\* after DeleteTable was answered: the table is gone then, or on its way out
\* where the proxy answers first, and no later step brings it back.
THEOREM NothingLeft == Spec => []PassLeavesNothing
<1>1. IInv => PassLeavesNothing
  BY DEF IInv, Clean, PassLeavesNothing, GoneAfterPass, RepeatableAfterPass
<1> QED
  BY <1>1, Invariance, PTL

\* No way out of delete_table_via_pty leaves the child running.
THEOREM NeverOrphaned == Spec => []NoOrphan
<1>1. IInv => NoOrphan
  BY DEF IInv, Staged, NoOrphan
<1> QED
  BY <1>1, Invariance, PTL

\* The confirmation of a child that was not cut off is in the output main
\* looks at.
THEOREM NeverLost == Spec => []ConfirmationNotLost
<1>1. IInv => ConfirmationNotLost
  BY DEF IInv, Said
<1> QED
  BY <1>1, Invariance, PTL

\* A download that went wrong is met before the stack was used.
THEOREM NeverBrokenLater == Spec => []BrokenBeforeUse
<1>1. IInv => BrokenBeforeUse
  BY DEF IInv, Unused, BrokenBeforeUse
<1> QED
  BY <1>1, Invariance, PTL

-----------------------------------------------------------------------------
(* Every run ends after a bounded number of steps.                         *)

\* Pieces the child has still to write, and those nobody has read yet.
Unwritten ==
  CASE dy = "asking1" -> 3
    [] dy = "asking2" -> 2
    [] dy \in {"asked", "deleting", "deleted"} -> 1
    [] OTHER -> 0

Unread == Len(tty) + Unwritten

\* The stages that lie ahead.
Stage ==
  CASE pc = "bootstrap" -> 13
    [] pc = "download" -> 12
    [] pc = "proxy" -> 11
    [] pc = "create" -> 10
    [] pc = "put" -> 9
    [] pc = "get" -> 8
    [] pc = "query" -> 7
    [] pc = "scan" -> 6
    [] pc = "del" -> 5
    [] pc = "gone" -> 4
    [] pc = "spawn" -> 3
    [] pc \in {"pty", "poll"} -> 2
    [] pc = "wait" -> 1
    [] OTHER -> 0

\* The attempts left of a retry loop; in the loop over the terminal, a select
\* and a poll for each empty select before the deadline and for each piece
\* that can still arrive.
Within ==
  CASE pc \in {"bootstrap", "proxy"} -> Attempts - 1 - tries
    [] pc = "pty" -> 2 * (Idle - tries + Unread)
    [] pc = "poll" -> 2 * (Idle - tries + Unread) + 1
    [] OTHER -> 0

Width == Attempts + 2 * (Idle + 3) + 2

Remaining == Left(Stage, Width, Within)
MostSteps == Left(13, Width, Width)

\* The loops keep to their bounds, and the child to its three pieces.
Tally ==
  /\ pc \in {"bootstrap", "proxy"} => tries <= Attempts - 1
  /\ pc \in {"pty", "poll"} => tries <= Idle
  /\ Unread <= 3

Placed ==
  /\ Stage \in 0..13
  /\ Within \in 0..(Width - 1)
  /\ Stage = 0 <=> pc = "end"
  /\ Stage = 0 => Within = 0

LEMMA Bounds ==
  /\ Attempts \in Nat /\ Attempts > 0
  /\ Idle \in Nat /\ Idle > 0
BY BoundsAssumption

\* The length of a terminal nobody has read, and of one that is written to.
LEMMA TtyLengths ==
  ASSUME TypeOK
  PROVE  /\ Len(tty) \in Nat /\ (tty # << >> => Len(tty) > 0)
         /\ Len(<< >>) = 0
         /\ \A piece \in Pieces : Len(Append(tty, piece)) = Len(tty) + 1
<1>1. tty \in Seq(Pieces) BY DEF TypeOK
<1>2. Len(tty) \in Nat /\ (tty # << >> => Len(tty) > 0)
  BY <1>1, EmptySeq, LenProperties
<1> QED BY <1>1, <1>2, AppendProperties

\* The child only writes what it had still to write.
LEMMA ChildTally ==
  ASSUME TypeOK, Child
  PROVE  /\ Unread' <= Unread
         /\ UNCHANGED << pc, tries, verdict >>
<1>0. /\ Len(tty) \in Nat
      /\ \A piece \in Pieces : Len(Append(tty, piece)) = Len(tty) + 1
  BY TtyLengths
<1>1. CASE DyAsks
  BY <1>0, <1>1 DEF DyAsks, Write, Prompt, Pieces, Unread, Unwritten
<1>2. CASE DyReadsAnswer
  BY <1>0, <1>2 DEF DyReadsAnswer, Unread, Unwritten
<1>3. CASE DyDeletes
  BY <1>0, <1>3 DEF DyDeletes, Unread, Unwritten
<1>4. CASE DyConfirms
  <2>1. /\ dy = "deleted" /\ dy' = "exit0"
        /\ tty' = Append(tty, "has been started")
        /\ UNCHANGED << pc, tries, verdict >>
    BY <1>4 DEF DyConfirms, Write
  <2>2. Len(tty') = Len(tty) + 1
    BY <1>0, <2>1 DEF Pieces
  <2>3. Unwritten = 1 /\ Unwritten' = 0
    BY <2>1 DEF Unwritten
  <2>4. Unread' <= Unread
    BY <1>0, <2>2, <2>3 DEF Unread
  <2> QED BY <2>1, <2>4
<1> QED BY <1>1, <1>2, <1>3, <1>4 DEF Child

LEMMA TallyStep ==
  ASSUME IInv, Tally, [Next]_vars
  PROVE  Tally'
<1> USE Bounds DEF GoTo, Quit, loop, history, child, backend
<1>0. /\ TypeOK /\ Staged /\ tries \in Nat
      /\ Len(tty) \in Nat /\ Len(<< >>) = 0
      /\ Unwritten \in 0..3 /\ Unread <= 3
  BY TtyLengths DEF IInv, Tally, TypeOK, Unwritten
<1>1. CASE Bootstrap \/ DownloadDynein \/ WaitForProxy
  BY <1>0, <1>1 DEF Bootstrap, DownloadDynein, WaitForProxy, Retry, Tally,
                    Unread, Unwritten
<1>2. ASSUME NEW op \in Lifecycle, RunDy(op)
      PROVE  Tally'
  <2>1. After[op] \notin {"bootstrap", "proxy", "pty", "poll"}
    BY DEF After
  <2>2. pc' \in {After[op], "end"} /\ UNCHANGED << dy, tty >>
    BY <1>2 DEF RunDy
  <2> QED BY <1>0, <2>1, <2>2 DEF Tally, Unread, Unwritten
<1>3. CASE SpawnDelete
  BY <1>0, <1>3 DEF SpawnDelete, Tally, Staged, Before, Unread, Unwritten
<1>4. CASE SelectAndRead
  BY <1>0, <1>4 DEF SelectAndRead, Tally, Unread, Unwritten
<1>5. CASE SelectNothing
  BY <1>0, <1>5 DEF SelectNothing, Tally, Unread, Unwritten
<1>6. CASE PollChild
  BY <1>0, <1>6 DEF PollChild, Tally, Unread, Unwritten
<1>7. CASE Deadline
  BY <1>0, <1>7 DEF Deadline, Tally, Unread, Unwritten
<1>8. CASE WaitChild \/ DeletionEnds \/ ServiceStarts \/ UNCHANGED vars
  BY <1>0, <1>8 DEF WaitChild, DeletionEnds, ServiceStarts, vars, Tally,
                    Unread, Unwritten
<1>9. CASE Child
  <2>1. Unread' \in Int
    <3>1. TypeOK' BY TypeStep DEF IInv
    <3>2. tty' \in Seq(Pieces) BY <3>1 DEF TypeOK
    <3>3. Len(tty') \in Nat BY <3>2, LenProperties
    <3>4. Unwritten' \in Nat BY DEF Unwritten
    <3> QED BY <3>3, <3>4 DEF Unread
  <2>2. Unread \in Int BY <1>0 DEF Unread
  <2> QED BY <1>0, <1>9, <2>1, <2>2, ChildTally DEF Tally
<1>10. CASE RunAgain
  BY <1>0, <1>10 DEF RunAgain, Tally, Unread, Unwritten
<1> QED BY <1>1, <1>2, <1>3, <1>4, <1>5, <1>6, <1>7, <1>8, <1>9, <1>10
        DEF Next, Script, Finished

LEMMA Places ==
  ASSUME TypeOK, Tally
  PROVE  Placed
<1>1. tries \in Nat /\ Unread \in 0..3
  <2>1. tries \in Nat BY Bounds DEF TypeOK
  <2>2. Len(tty) \in Nat /\ Unwritten \in Nat BY TtyLengths DEF Unwritten
  <2> QED BY <2>1, <2>2 DEF Tally, Unread
<1>2. Stage \in 0..13 /\ (Stage = 0 <=> pc = "end")
  BY DEF Stage, TypeOK
<1>3. Within \in 0..(Width - 1) /\ (Stage = 0 => Within = 0)
  BY <1>1, <1>2, Bounds DEF Within, Width, Tally
<1> QED BY <1>2, <1>3 DEF Placed

\* Every step of the script takes it to a later stage or nearer to the end of
\* the present one: what it reads from the terminal is not written again.
LEMMA ScriptAdvances ==
  ASSUME IInv, Tally, Script
  PROVE  \/ Stage' < Stage
         \/ Stage' = Stage /\ Within' < Within
<1> USE Bounds DEF GoTo, Quit, loop, history, child, backend
<1>0. /\ TypeOK /\ tries \in Nat
      /\ Len(tty) \in Nat /\ (tty # << >> => Len(tty) > 0)
      /\ Len(<< >>) = 0 /\ Unwritten \in 0..3
  BY TtyLengths DEF IInv, TypeOK, Unwritten
<1>1. CASE Bootstrap \/ DownloadDynein \/ WaitForProxy
  BY <1>0, <1>1 DEF Bootstrap, DownloadDynein, WaitForProxy, Retry, Stage,
                    Within
<1>2. ASSUME NEW op \in Lifecycle, RunDy(op)
      PROVE  Stage' < Stage
  BY <1>2 DEF RunDy, After, Stage
<1>3. CASE SpawnDelete \/ Deadline \/ WaitChild
  <2>1. CASE SpawnDelete BY <2>1 DEF SpawnDelete, Stage
  <2>2. CASE Deadline BY <2>2 DEF Deadline, Stage
  <2>3. CASE WaitChild
    <3>1. pc = "wait" /\ pc' = "end" BY <2>3 DEF WaitChild
    <3> QED BY <3>1 DEF Stage
  <2> QED BY <1>3, <2>1, <2>2, <2>3
<1>4. CASE SelectAndRead
  <2>1. pc = "pty" /\ pc' = "poll" /\ UNCHANGED << tries, dy >>
        /\ tty # << >> /\ tty' = << >>
    BY <1>4 DEF SelectAndRead
  <2>2. Unread' <= Unread - 1 /\ Unread \in Nat /\ Unread' \in Nat
    BY <1>0, <2>1 DEF Unread, Unwritten
  <2> QED BY <1>0, <2>1, <2>2 DEF Stage, Within
<1>5. CASE SelectNothing
  <2>1. UNCHANGED << dy, tty >> BY <1>5 DEF SelectNothing
  <2>2. Unread' = Unread /\ Unread \in Nat
    BY <1>0, <2>1 DEF Unread, Unwritten
  <2> QED BY <1>0, <1>5, <2>2 DEF SelectNothing, Stage, Within
<1>6. CASE PollChild
  <2>1. CASE dy \in Exited
    BY <1>6, <2>1 DEF PollChild, Stage
  <2>2. CASE dy \notin Exited
    <3>1. UNCHANGED << dy, tty >> BY <1>6, <2>2 DEF PollChild
    <3>2. Unread' = Unread /\ Unread \in Nat
      BY <1>0, <3>1 DEF Unread, Unwritten
    <3> QED BY <1>0, <1>6, <2>2, <3>2 DEF PollChild, Stage, Within
  <2> QED BY <2>1, <2>2
<1> QED BY <1>1, <1>2, <1>3, <1>4, <1>5, <1>6 DEF Script

\* The child and the services add nothing to what the script has still to do.
LEMMA OthersAddNothing ==
  ASSUME IInv, Next, ~Script, ~RunAgain
  PROVE  Stage' = Stage /\ Within' <= Within
<1>0. /\ TypeOK /\ tries \in Nat /\ Len(tty) \in Nat /\ Unwritten \in 0..3
  BY Bounds, TtyLengths DEF IInv, TypeOK, Unwritten
<1>1. Unread \in Nat /\ Unread' \in Nat
  <2>1. TypeOK' BY TypeStep DEF IInv
  <2>2. tty' \in Seq(Pieces) BY <2>1 DEF TypeOK
  <2>3. Len(tty') \in Nat BY <2>2, LenProperties
  <2>4. Unwritten' \in Nat BY DEF Unwritten
  <2> QED BY <1>0, <2>3, <2>4 DEF Unread
<1>2. /\ UNCHANGED << pc, tries >>
      /\ Unread' <= Unread
  <2>1. CASE Child BY <1>0, <2>1, ChildTally
  <2>2. CASE DeletionEnds \/ ServiceStarts \/ Finished
    BY <1>1, <2>2 DEF DeletionEnds, ServiceStarts, Finished, vars, child,
                      Unread, Unwritten
  <2> QED BY <2>1, <2>2 DEF Next
<1> QED BY <1>0, <1>1, <1>2, Bounds DEF Stage, Within

\* A run ends after at most MostSteps steps of the script, whatever dynein
\* writes, when it writes it, and whether it ever exits: every step takes at
\* least one from what remains, only a new run adds to it, and the verdict is
\* reached exactly when nothing remains.
THEOREM RunsAreBounded ==
  Spec => /\ [](/\ Remaining \in 0..MostSteps
                /\ Remaining = 0 <=> verdict # "none")
          /\ [][/\ ~RunAgain => Remaining' <= Remaining
                /\ Script => Remaining' < Remaining]_vars
<1>0. Width \in Nat \ {0} /\ 13 \in Nat
  BY Bounds DEF Width
<1>1. Init => Tally
  BY Bounds DEF Init, Tally, Unread, Unwritten
<1>2. IInv /\ Tally /\ [Next]_vars => Tally'
  BY TallyStep
<1>3. IInv /\ Tally => Placed
  BY Places DEF IInv
<1>4. IInv /\ Placed =>
        Remaining \in 0..MostSteps /\ (Remaining = 0 <=> verdict # "none")
  <2> SUFFICES ASSUME IInv, Placed
               PROVE  /\ Remaining \in 0..MostSteps
                      /\ Remaining = 0 <=> verdict # "none"
    OBVIOUS
  <2>1. Stage \in 0..13 /\ Within \in 0..Width
    BY <1>0 DEF Placed
  <2>2. Remaining \in 0..MostSteps
    BY <1>0, <2>1, LeftBounds DEF Remaining, MostSteps
  <2>3. Remaining = 0 <=> Stage = 0 /\ Within = 0
    BY <1>0, <2>1, LeftIsNone DEF Remaining
  <2> QED BY <2>2, <2>3 DEF Placed, IInv, Staged
<1>5. IInv /\ Tally /\ Placed /\ Placed' /\ [Next]_vars =>
        [/\ ~RunAgain => Remaining' <= Remaining
         /\ Script => Remaining' < Remaining]_vars
  <2> SUFFICES ASSUME IInv, Tally, Placed, Placed', Next
               PROVE  /\ ~RunAgain => Remaining' <= Remaining
                      /\ Script => Remaining' < Remaining
    OBVIOUS
  <2>1. /\ Stage \in Nat /\ Within \in Nat /\ Within \in 0..Width
        /\ Stage' \in Nat /\ Within' \in Nat /\ Within' \in 0..(Width - 1)
        /\ Width' = Width
    BY <1>0 DEF Placed, Width
  <2>2. Remaining \in Nat /\ Remaining' \in Nat
    BY <1>0, <2>1, LeftType DEF Remaining
  <2>3. CASE Script
    <3>1. Remaining' < Remaining
      BY <1>0, <2>1, <2>3, ScriptAdvances, LeftFalls DEF Remaining
    <3> QED BY <2>2, <3>1
  <2>4. ASSUME ~Script, ~RunAgain PROVE Remaining' <= Remaining
    <3>1. Stage' = Stage /\ Within' <= Within
      BY <2>4, OthersAddNothing
    <3>2. CASE Within' < Within
      <4>1. Remaining' < Remaining
        BY <1>0, <2>1, <3>1, <3>2, LeftFalls DEF Remaining
      <4> QED BY <2>2, <4>1
    <3>3. CASE Within' = Within
      BY <2>1, <2>2, <3>1, <3>3 DEF Remaining
    <3> QED BY <2>1, <3>1, <3>2, <3>3
  <2> QED BY <2>3, <2>4
<1> QED BY Invariance, <1>1, <1>2, <1>3, <1>4, <1>5, PTL DEF Spec
=============================================================================
