----------------------------- MODULE LaunchProofs -----------------------------
(***************************************************************************)
(* Proofs about Launch, for a pipe of any capacity and an application that *)
(* prints any number of lines.                                             *)
(***************************************************************************)
EXTENDS Launch, TLAPS

(* A handle taken after the process id had changed hands stays one of a    *)
(* process that is not the application.                                    *)
WaitedFor ==
  /\ pc = "handleOther" => target # "running"
  /\ pc \in Watching \cup Stopping \cup {"returned"} /\ target = "running"
       => setting.name = "hidden" \/ (~setting.windows /\ setting.name = "Z")

(* A process is watched and stopped only once it has been started, and     *)
(* the helper settles on the marker it has just got.                       *)
Started ==
  /\ pc \in {"watch", "head", "get", "settle", "returned"} \cup Stopping => app # "none"
  /\ pc = "settle" => setting.at \in 1 .. taken

(* No line is taken from the queue before the launch, and none that is     *)
(* taken while the helper looks for the marker is the marker.              *)
MarkerAhead ==
  /\ pc \in Waiting \cup {"launch"} => taken = 0
  /\ MarkerIsNotMissed

Inv == WaitedFor /\ Started /\ MarkerAhead

-----------------------------------------------------------------------------
LEMMA InitOK == Init => TypeOK /\ Inv
<1> SUFFICES ASSUME Init PROVE TypeOK /\ Inv
  OBVIOUS
<1>1. Inv
  BY DEF Init, Inv, WaitedFor, Started, MarkerAhead, MarkerIsNotMissed, Watching, Stopping
<1>2. pc \in Waiting \cup Watching \cup Stopping \cup Answered
  BY DEF Init, Waiting
<1>3. /\ setting \in Setting /\ late \in BOOLEAN
      /\ target \in {"running", "zombie", "gone", "reused"}
      /\ app \in {"none", "alive", "done", "failed"}
  BY DEF Init
<1>4. /\ taken \in Nat /\ read \in taken .. MaxLines /\ written \in read .. MaxLines
      /\ lost \in 0 .. written - read /\ written - read - lost <= Capacity
  BY ConstantsAssumption DEF Init, ConstantsAssumption
<1> QED BY <1>1, <1>2, <1>3, <1>4 DEF TypeOK

(* What the thread loses when it dies was in the pipe. *)
LEMMA LossIsBounded ==
  ASSUME NEW r \in Int, NEW w \in Int, NEW b \in Int, NEW l \in Int, w - r <= Capacity,
         b \in r + 1 .. w, l \in b - r .. w - r
  PROVE  l \in 0 .. w - r /\ w - r - l <= Capacity
  BY ConstantsAssumption DEF ConstantsAssumption

(* Every step of the helper, of time and of the applications keeps types   *)
(* and invariant.                                                          *)
LEMMA NextOK == TypeOK /\ Inv /\ [Next]_vars => TypeOK' /\ Inv'
<1> SUFFICES ASSUME TypeOK, Inv, [Next]_vars PROVE TypeOK' /\ Inv'
  OBVIOUS
<1> USE ConstantsAssumption
      DEF TypeOK, Inv, WaitedFor, Started, MarkerAhead, MarkerIsNotMissed, Waiting, Watching, Stopping, Answered, Exited,
          Goto, Await, Output, ConstantsAssumption
<1>1. CASE TargetGone \/ StatUnreadable \/ LookAtOther
  <2>1. CASE TargetGone
    BY <2>1 DEF TargetGone, Looking
  <2>2. CASE StatUnreadable
    BY <2>2 DEF StatUnreadable, Looking
  <2>3. CASE LookAtOther
    BY <2>3 DEF LookAtOther, Looking
  <2> QED BY <1>1, <2>1, <2>2, <2>3
<1>2. CASE OpenTarget
  BY <1>2 DEF OpenTarget
<1>3. CASE HandleSignalled
  BY <1>3 DEF HandleSignalled
<1>4. CASE WaitTimeout \/ WaitFails
  BY <1>4 DEF WaitTimeout, WaitFails
<1>5. CASE Spawn
  <2>1. UNCHANGED <<setting, target, Output>> /\ pc = "launch" /\ taken = 0
    BY <1>5 DEF Spawn
  <2>2. \/ pc' = "raised" /\ UNCHANGED <<late, app>>
        \/ pc' \in {"head", "watch"} /\ late' = FALSE /\ app' = "alive"
    BY <1>5 DEF Spawn
  <2>3. 1 .. 0 = {}
    OBVIOUS
  <2> QED BY <2>1, <2>2, <2>3
<1>6. CASE Watch
  BY <1>6 DEF Watch
<1>7. CASE Look
  BY <1>7 DEF Look
<1>8. CASE Get
  <2>1. setting.at \in Int
    BY DEF Setting
  <2>2. CASE taken < read
    BY <1>8, <2>1, <2>2 DEF Get
  <2>3. CASE ~(taken < read)
    BY <1>8, <2>3 DEF Get
  <2> QED BY <2>2, <2>3
<1>9. CASE Settle
  BY <1>9 DEF Settle
<1>10. CASE Stop
  BY <1>10 DEF Stop
<1>11. CASE RecordFails \/ HelperExits
  BY <1>11 DEF RecordFails, HelperExits
<1>12. CASE Reader
  <2>1. CASE ReadOutput
    BY <2>1 DEF ReadOutput, Reading
  <2>2. CASE ReaderDies
    <3>1. setting.bad \in Int /\ lost' \in setting.bad - read .. written - read
      BY <2>2 DEF ReaderDies, Setting
    <3>2. setting.bad \in read + 1 .. written /\ lost = 0
      BY <2>2 DEF ReaderDies, Reading
    <3>3. written \in Int /\ read \in Int /\ lost' \in Int /\ written - read <= Capacity
      BY <3>1, <3>2
    <3>4. lost' \in 0 .. written - read /\ written - read - lost' <= Capacity
      BY <3>1, <3>2, <3>3, LossIsBounded
    <3> QED BY <2>2, <3>2, <3>4 DEF ReaderDies
  <2> QED BY <1>12, <2>1, <2>2 DEF Reader
<1>13. CASE Clock
  BY <1>13 DEF Clock
<1>14. CASE TargetChanges
  BY <1>14 DEF TargetChanges
<1>15. CASE PrintLine
  BY <1>15 DEF PrintLine
<1>16. CASE ApplicationExits
  BY <1>16 DEF ApplicationExits
<1>17. CASE UNCHANGED vars
  BY <1>17 DEF vars
<1> QED
  BY <1>1, <1>2, <1>3, <1>4, <1>5, <1>6, <1>7, <1>8, <1>9, <1>10, <1>11, <1>12, <1>13,
     <1>14, <1>15, <1>16, <1>17 DEF Next, MainThread

(* In every reachable state the variables have their types and Inv holds. *)
THEOREM Invariance == Spec => [](TypeOK /\ Inv)
  BY InitOK, NextOK, PTL DEF Spec

-----------------------------------------------------------------------------
(* The variables of the helper and of the processes around it keep their   *)
(* types, and no line is read that has not been printed.                   *)
THEOREM TypeCorrectness == Spec => []TypeOK
  BY Invariance, PTL

(* wait_for_exit lets the helper go on while the application runs only if  *)
(* it may not look at the process, or takes the second word of its command *)
(* name for the state letter Z.                                            *)
THEOREM LaunchIsLate == Spec => []LaunchAfterExit
<1>1. Inv => LaunchAfterExit
  BY DEF Inv, WaitedFor, LaunchAfterExit
<1> QED BY <1>1, Invariance, PTL

(* The marker is never missed: as long as _launch_and_verify looks for it, *)
(* no line that it has got from the queue was the marker, however many     *)
(* lines the application prints around it.                                 *)
THEOREM MarkerIsSeen == Spec => []MarkerIsNotMissed
<1>1. Inv => MarkerIsNotMissed
  BY DEF Inv, MarkerAhead
<1> QED BY <1>1, Invariance, PTL

(* _launch_and_verify and _stop return only what is so. *)
THEOREM AnswersAreSound == Spec => AnswersAreTrue
<1> DEFINE A == /\ pc = "settle" /\ pc' = "returned" => app = "alive" /\ setting.at \in 1 .. taken
                /\ pc \in Stopping /\ pc' = "stopped" => Exited
<1>1. ASSUME TypeOK, Inv, [Next]_vars PROVE A
  <2> USE DEF TypeOK, Inv, Started, Stopping, Goto, Await, Exited
  <2>1. CASE pc = "settle" /\ pc' = "returned"
    <3>1. Settle
      BY <1>1, <2>1 DEF Next, MainThread, vars, TargetGone, StatUnreadable, LookAtOther, OpenTarget, HandleSignalled,
           WaitTimeout, WaitFails, Spawn, Watch, Look, Get, Stop, RecordFails, HelperExits,
           Reader, ReadOutput, ReaderDies, Clock, TargetChanges, PrintLine, ApplicationExits
    <3> QED BY <1>1, <2>1, <3>1 DEF Settle
  <2>2. CASE pc \in Stopping /\ pc' = "stopped"
    <3>1. Stop
      BY <1>1, <2>2 DEF Next, MainThread, vars, TargetGone, StatUnreadable, LookAtOther, OpenTarget, HandleSignalled,
           WaitTimeout, WaitFails, Spawn, Watch, Look, Get, Settle, RecordFails, HelperExits,
           Reader, ReadOutput, ReaderDies, Clock, TargetChanges, PrintLine, ApplicationExits
    <3> QED BY <1>1, <2>2, <3>1 DEF Stop
  <2> QED BY <2>1, <2>2
<1>2. TypeOK /\ Inv /\ [Next]_vars => [A]_vars
  BY <1>1
<1> QED BY <1>2, Invariance, PTL DEF Spec, AnswersAreTrue

-----------------------------------------------------------------------------
(* The steps that the main thread can still take after the deadline of its *)
(* wait, at most.                                                          *)
Looks ==
  CASE pc = "wait"                           -> 3
    [] pc \in {"handle", "handleOther", "get"} -> 2
    [] pc \in Answered                       -> 0
    [] OTHER                                 -> 1

(* Each of them answers, begins another wait or leaves fewer. *)
LEMMA LooksRunOut ==
  ASSUME TypeOK, late, pc \notin Answered, MainThread \/ WaitFails
  PROVE  ~late' \/ Looks' < Looks
<1>1. \/ ~late' \/ pc' \in Answered
      \/ pc = "wait" /\ pc' \in {"launch", "handle", "handleOther"}
      \/ pc \in {"handle", "handleOther"} /\ pc' = "launch"
      \/ pc = "get" /\ pc' \in {"settle", "head"}
  <2> USE DEF Goto, Await, Answered
  <2>1. CASE TargetGone \/ StatUnreadable \/ OpenTarget \/ HandleSignalled \/ WaitTimeout \/ WaitFails
    BY <2>1 DEF TargetGone, StatUnreadable, Looking, OpenTarget, HandleSignalled, WaitTimeout, WaitFails
  <2>2. CASE Spawn \/ Watch \/ Look \/ Settle
    BY <2>2 DEF Spawn, Watch, Look, Settle
  <2>3. CASE Get
    BY <2>3 DEF Get
  <2>4. CASE Stop
    BY <2>4 DEF Stop
  <2> QED BY <2>1, <2>2, <2>3, <2>4 DEF MainThread
<1> QED BY <1>1 DEF Looks, Answered

(* A deadline is final: once it has passed, the helper has three steps at  *)
(* most before it answers or begins another wait, and nothing that its     *)
(* reading thread or the two applications do gives it more.  (That it      *)
(* takes them is the fairness under which TLC checks DeadlineEndsWait.)    *)
THEOREM DeadlinesAreFinal ==
  Spec =>
    /\ [](Looks \in 0 .. 3 /\ (Looks = 0 <=> pc \in Answered))
    /\ [][late /\ pc \notin Answered =>
            \/ (MainThread \/ WaitFails) /\ (~late' \/ Looks' < Looks)
            \/ /\ Reader \/ TargetChanges \/ PrintLine \/ ApplicationExits
               /\ late' /\ Looks' = Looks]_vars
<1> DEFINE I == Looks \in 0 .. 3 /\ (Looks = 0 <=> pc \in Answered)
           A == late /\ pc \notin Answered =>
                  \/ (MainThread \/ WaitFails) /\ (~late' \/ Looks' < Looks)
                  \/ /\ Reader \/ TargetChanges \/ PrintLine \/ ApplicationExits
                     /\ late' /\ Looks' = Looks
<1>1. I
  BY DEF Looks, Answered
<1>2. TypeOK /\ Inv /\ [Next]_vars => [A]_vars
  <2> SUFFICES ASSUME TypeOK, Next, late, pc \notin Answered PROVE A
    OBVIOUS
  <2>1. CASE MainThread \/ WaitFails
    BY <2>1, LooksRunOut
  <2>2. CASE Reader \/ TargetChanges \/ PrintLine \/ ApplicationExits
    BY <2>2 DEF Reader, ReadOutput, ReaderDies, TargetChanges, PrintLine, ApplicationExits, Looks
  <2>3. ~(LookAtOther \/ RecordFails \/ HelperExits \/ Clock)
    BY DEF LookAtOther, Looking, RecordFails, HelperExits, Clock, Answered
  <2> HIDE DEF A
  <2> QED BY <2>1, <2>2, <2>3 DEF Next
<1> HIDE DEF A, I
<1>3. Spec => []I /\ [][A]_vars
  BY <1>1, <1>2, Invariance, PTL DEF Spec
<1> QED BY <1>3 DEF A, I
=============================================================================
