-------------------------------- MODULE Launch --------------------------------
(***************************************************************************)
(* The processes around one helper run (helper/main.py): the application   *)
(* wait_for_exit waits for, the one _launch_and_verify starts, the pipe    *)
(* its output goes through, the thread that reads it, the queue between    *)
(* that thread and the main loop, and the deadlines.  HelperReplace has    *)
(* the trees; here they do not occur.                                      *)
(*                                                                         *)
(* Lines are numbered as the application prints them.  written, read and   *)
(* taken count those it has printed, the thread has put into the queue and *)
(* the main loop has got out of it; lost counts those the thread had taken *)
(* from the pipe when a line that is not text ended it.  The pipe holds    *)
(* written - read - lost lines and the queue read - taken.                 *)
(***************************************************************************)
EXTENDS Integers

CONSTANTS
  Capacity,  \* lines the pipe holds
  MaxLines   \* lines the application prints in its life

ASSUME ConstantsAssumption == Capacity \in Nat \ {0} /\ MaxLines \in Nat

VARIABLES
  setting,  \* the platform, the two applications and the plan; never changes
  target,   \* what the process id of wait_pid names
  pc,       \* the next step of the helper
  late,     \* the deadline of the wait the helper is in has passed
  app,      \* the launched process
  written, read, taken, lost

vars == <<setting, target, pc, late, app, written, read, taken, lost>>

(* What /proc/<pid>/stat has to say of the process that is waited for: its *)
(* command name is one word; more words, which shift the state letter; has *)
(* the second word Z; is not text.  hidden: the helper may not even signal *)
(* or open the process.                                                    *)
Names == {"plain", "words", "Z", "garbled", "hidden"}

(* marker: the plan has a ready marker.  It is in line number `at' of the  *)
(* output, and line number `bad' does not decode; 0 when there is no such  *)
(* line, and when there is no marker, so that nobody reads.                *)
Setting ==
  {s \in [windows : BOOLEAN, name : Names, marker : BOOLEAN, at : 0 .. MaxLines, bad : 0 .. MaxLines] :
     /\ s.windows => s.name \in {"plain", "hidden"}
     /\ ~s.marker => s.at = 0 /\ s.bad = 0}

Waiting  == {"wait", "handle", "handleOther"}
Watching == {"launch", "watch", "head", "get", "settle"}
Stopping == {"stop", "terminated", "killed"}
Answered == {"refused", "returned", "raised", "stopped", "ended"}

Exited == app \in {"done", "failed"}

-----------------------------------------------------------------------------
Init ==
  /\ setting \in Setting
  /\ target \in {"running", "zombie", "gone", "reused"}
  /\ pc = "wait"
  /\ late = FALSE
  /\ app = "none"
  /\ written = 0 /\ read = 0 /\ taken = 0 /\ lost = 0

Output == <<written, read, taken, lost>>

\* A step of the main thread that only decides what comes next.
Goto(step) ==
  /\ pc' = step
  /\ UNCHANGED <<setting, target, late, app, Output>>

(* A wait with a deadline of its own begins. *)
Await(step) ==
  /\ pc' = step
  /\ late' = FALSE
  /\ UNCHANGED <<setting, target, Output>>

\* One look of the POSIX loop, which the deadline ends.
Looking == pc = "wait" /\ ~setting.windows /\ ~late

\* Mutant: `or' for `and', so that a stat file of three words is enough.
TargetHasStat ==
  /\ Looking
  /\ target = "gone" \/ setting.name # "garbled"
  /\ Goto("launch")

(* kill(pid, 0) fails, or the third word of /proc/<pid>/stat is Z: the     *)
(* state letter, if the name of the command is one word.                   *)
TargetGone ==
  /\ Looking
  /\ \/ target = "gone"
     \/ target = "zombie" /\ setting.name = "plain"
     \/ target \in {"running", "zombie"} /\ setting.name \in {"Z", "hidden"}
  /\ Goto("launch")

(* A stat file that does not decode raises out of the loop. *)
StatUnreadable ==
  /\ Looking
  /\ target \in {"running", "zombie"} /\ setting.name = "garbled"
  /\ Goto("refused")

(* The process that has been given the id has a name and an owner of its   *)
(* own, so that any look at it may end the wait either way.                *)
LookAtOther ==
  /\ Looking
  /\ target = "reused"
  /\ \E step \in {"launch", "refused"} : Goto(step)

(* OpenProcess gives no handle, or one for the process of that id by now.  *)
OpenTarget ==
  /\ pc = "wait" /\ setting.windows
  /\ Goto(IF target = "gone" \/ setting.name = "hidden" THEN "launch"
          ELSE IF target = "reused" THEN "handleOther"
          ELSE "handle")

HandleSignalled ==
  /\ \/ pc = "handle" /\ target # "running"
     \/ pc = "handleOther" /\ target # "reused"
  /\ Goto("launch")

(* The deadline passes, or WaitForSingleObject fails. *)
WaitTimeout ==
  /\ \/ pc = "wait" /\ ~setting.windows /\ late
     \/ pc = "handle" /\ target = "running" /\ late
     \/ pc = "handleOther" /\ target = "reused" /\ late
  /\ Goto("refused")

WaitFails == pc \in {"handle", "handleOther"} /\ Goto("refused")

-----------------------------------------------------------------------------
Spawn ==
  /\ pc = "launch"
  /\ \/ app' = "alive" /\ Await(IF setting.marker THEN "head" ELSE "watch")
     \/ Goto("raised")

(* Without a marker: the application lives till the deadline, or exits     *)
(* with code 0.                                                            *)
Watch ==
  /\ pc = "watch"
  /\ \/ late /\ Goto("returned")
     \/ ~late /\ app = "done" /\ Goto("returned")
     \/ ~late /\ app = "failed" /\ Goto("raised")

(* With a marker: the deadline and the process are looked at ...           *)
Look ==
  /\ pc = "head"
  /\ Goto(IF late \/ Exited THEN "raised" ELSE "get")

(* Mutants of what follows: a line is got to be looked at and another one  *)
(* to be logged; the queue is emptied and its last line is looked at; the  *)
(* queue is waited for as long as it takes.                                *)
GetTwice ==
  /\ pc = "get"
  /\ IF taken < read
       THEN /\ taken' = taken + 2
            /\ pc' = IF setting.at = taken + 1 THEN "settle" ELSE "head"
            /\ UNCHANGED <<setting, target, late, app, written, read, lost>>
       ELSE Goto("head")

GetNewest ==
  /\ pc = "get"
  /\ taken' = read
  /\ pc' = IF read > taken /\ setting.at = read THEN "settle" ELSE "head"
  /\ UNCHANGED <<setting, target, late, app, written, read, lost>>

GetBlocking ==
  /\ pc = "get" /\ taken < read
  /\ taken' = taken + 1
  /\ pc' = IF setting.at = taken + 1 THEN "settle" ELSE "head"
  /\ UNCHANGED <<setting, target, late, app, written, read, lost>>

(* ... and a line is got from the queue, if one comes in time.             *)
Get ==
  /\ pc = "get"
  /\ IF taken < read
       THEN /\ taken' = taken + 1
            /\ pc' = IF setting.at = taken + 1 THEN "settle" ELSE "head"
            /\ UNCHANGED <<setting, target, late, app, written, read, lost>>
       ELSE Goto("head")

(* A moment after the marker the process must still be there. *)
Settle ==
  /\ pc = "settle"
  /\ Goto(IF Exited THEN "raised" ELSE "returned")

-----------------------------------------------------------------------------
(* The COMMITTED record fails to be written, and the handler stops what    *)
(* _launch_and_verify has returned.                                        *)
RecordFails == pc = "returned" /\ Goto("stop")

\* Mutant: terminate() is taken to have worked.
StopPolitely ==
  \/ pc = "stop" /\ Exited /\ Goto("stopped")
  \/ pc = "stop" /\ ~Exited /\ Await("terminated") /\ UNCHANGED app
  \/ pc = "terminated" /\ Goto("stopped")

(* terminate(), and after a wait kill(), which may itself raise            *)
(* TimeoutExpired out of the handler.                                      *)
Stop ==
  \/ pc \in Stopping /\ Exited /\ Goto("stopped")
  \/ pc = "stop" /\ ~Exited /\ Await("terminated") /\ UNCHANGED app
  \/ pc = "terminated" /\ ~Exited /\ late /\ Await("killed") /\ UNCHANGED app
  \/ pc = "killed" /\ ~Exited /\ late /\ Goto("raised")

(* The helper process ends with what the call it was started for returns   *)
(* or raises, and with it its end of the pipe and its thread.              *)
HelperExits == pc \in {"refused", "returned", "raised", "stopped"} /\ Goto("ended")

(* The thread lives, unless the plan has no marker. *)
Reading == setting.marker /\ pc # "ended" /\ lost = 0

\* Mutant: the thread reads one line and is done.
ReadOneLine ==
  /\ Reading
  /\ read < written /\ read = 0 /\ setting.bad # 1
  /\ read' = read + 1
  /\ UNCHANGED <<setting, target, pc, late, app, written, taken, lost>>

ReadOutput ==
  /\ Reading
  /\ read < written /\ read + 1 # setting.bad
  /\ read' = read + 1
  /\ UNCHANGED <<setting, target, pc, late, app, written, taken, lost>>

(* Popen with text=True decodes what it has found in the pipe at once, and *)
(* strictly: a bad line ends the thread, and with it the lines around it   *)
(* are lost that were in the pipe.                                         *)
ReaderDies ==
  /\ Reading
  /\ setting.bad \in read + 1 .. written
  /\ lost' \in setting.bad - read .. written - read
  /\ UNCHANGED <<setting, target, pc, late, app, written, read, taken>>

Clock ==
  /\ pc \notin Answered /\ ~late
  /\ late' = TRUE
  /\ UNCHANGED <<setting, target, pc, app, Output>>

-----------------------------------------------------------------------------
(* The process the helper waits for exits, is reaped by its parent, and    *)
(* leaves its id to another one, which exits as well.                      *)
TargetChanges ==
  /\ pc \in Waiting
  /\ \E fate \in {"zombie", "gone", "reused"} :
       /\ <<target, fate>> \in {<<"running", "zombie">>, <<"running", "gone">>, <<"zombie", "gone">>,
                                <<"gone", "reused">>, <<"reused", "gone">>}
       /\ target' = fate
  /\ UNCHANGED <<setting, pc, late, app, Output>>

(* A line fits into the pipe, and ends the application when the helper has *)
(* gone: nobody is left to read it.                                        *)
PrintLine ==
  /\ app = "alive" /\ written < MaxLines
  /\ IF pc = "ended" THEN app' = "failed" /\ UNCHANGED written
     ELSE written - read - lost < Capacity /\ written' = written + 1 /\ UNCHANGED app
  /\ UNCHANGED <<setting, target, pc, late, read, taken, lost>>

ApplicationExits ==
  /\ app = "alive"
  /\ app' \in {"done", "failed"}
  /\ UNCHANGED <<setting, target, pc, late, Output>>

MainThread ==
  \/ TargetGone \/ StatUnreadable \/ OpenTarget \/ HandleSignalled \/ WaitTimeout
  \/ Spawn \/ Watch \/ Look \/ Get \/ Settle \/ Stop

Reader == ReadOutput \/ ReaderDies

Next ==
  \/ MainThread \/ LookAtOther \/ WaitFails \/ RecordFails \/ HelperExits \/ Reader \/ Clock
  \/ TargetChanges \/ PrintLine \/ ApplicationExits

Spec == Init /\ [][Next]_vars

(* Both threads of the helper run; the two applications do what they like. *)
(* Time is not fair: what the helper does before a deadline it must do     *)
(* also when the deadline is far.                                          *)
FairSpec == Spec /\ WF_vars(MainThread) /\ WF_vars(Reader)

-----------------------------------------------------------------------------
(* Every variable keeps its type: no line is taken that has not been read, *)
(* none read or lost that has not been printed, and the pipe is bounded.   *)
TypeOK ==
  /\ setting \in Setting
  /\ target \in {"running", "zombie", "gone", "reused"}
  /\ pc \in Waiting \cup Watching \cup Stopping \cup Answered
  /\ late \in BOOLEAN
  /\ app \in {"none", "alive", "done", "failed"}
  /\ taken \in Nat /\ read \in taken .. MaxLines /\ written \in read .. MaxLines
  /\ lost \in 0 .. written - read
  /\ written - read - lost <= Capacity

(* The helper goes on to replace the tree of a running application only in *)
(* two cases: it may not look at the process, or, on POSIX, the second     *)
(* word of its command name is Z, so that the code takes it for a zombie   *)
(* (helper/main.py:74).  Every other name, a zombie, a failing read and a  *)
(* process id given to another process do not mislead it.                  *)
LaunchAfterExit ==
  pc \in Watching \cup Stopping /\ target = "running"
    => setting.name = "hidden" \/ (~setting.windows /\ setting.name = "Z")

(* Told to wait for a marker, _launch_and_verify only returns a process    *)
(* that has printed it and lives, and _stop only returns when the process  *)
(* is dead.                                                                *)
AnswersAreTrue ==
  [][/\ pc = "settle" /\ pc' = "returned" => app = "alive" /\ setting.at \in 1 .. taken
     /\ pc \in Stopping /\ pc' = "stopped" => Exited]_vars

(* As long as _launch_and_verify looks for the marker, no line it has got  *)
(* from the queue was the marker, however many lines come around it.       *)
MarkerIsNotMissed == pc \in {"head", "get"} => setting.at \notin 1 .. taken

(* A marker printed by an application that lives on is noticed, unless the *)
(* deadline passes first or the thread has died with it unread.            *)
ReadyIsNoticed ==
  setting.at > 0 /\ written >= setting.at /\ pc \in {"head", "get"}
    ~> \/ pc \in {"settle", "returned"} \/ late \/ Exited
       \/ lost > 0 /\ read < setting.at

(* A deadline that has passed ends the wait it belongs to, whatever the    *)
(* processes do: the helper answers, or begins another wait.               *)
DeadlineEndsWait == late /\ pc \notin Answered ~> ~late \/ pc \in Answered
=============================================================================
