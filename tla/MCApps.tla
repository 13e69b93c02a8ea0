------------------------------- MODULE MCApps -------------------------------
(* Three applications of user/, each under every interleaving of the timer. *)
EXTENDS UserApp

CONSTANTS
  Commands,   \* bound: length of the script that app_shell.c runs
  Rounds      \* bound: rounds of app_semaphore_challengex.c (10)

I(op, arg, to) == [op |-> op, arg |-> arg, to |-> to]

(* user/app_wait_challengex.c: main() *)
AppWait ==
  << I("fork", 0, 0),              \* 1
     I("save", 0, 0),              \* 2
     I("if_child", 0, 7),          \* 3
     I("wait_any", 0, 0),          \* 4
     I("print", "Parent", 0),      \* 5
     I("exit", 0, 0),              \* 6
     I("fork", 0, 0),              \* 7
     I("save", 0, 0),              \* 8
     I("if_child", 0, 13),         \* 9
     I("wait_pid", 0, 0),          \* 10
     I("print", "Child", 0),       \* 11
     I("goto", 0, 6),              \* 12
     I("print", "Grandchild", 0),  \* 13
     I("goto", 0, 6) >>            \* 14

(* user/app_shell.c: the loop of main(), and the main() of a command such as *)
(* app_echo.c.                                                              *)
AppShell ==
  << I("fork", 0, 0),          \* 1
     I("save", 0, 0),          \* 2
     I("if_child", 0, 8),      \* 3
     I("wait_pid", 0, 0),      \* 4
     I("print", "End", 0),     \* 5
     I("loop", Commands, 1),   \* 6
     I("exit", 0, 0),          \* 7
     I("exec", 0, 9),          \* 8
     I("print", "Output", 0),  \* 9
     I("exit", 0, 0) >>        \* 10

(* user/app_semaphore_challengex.c: main().  Semaphore 1 is main_sem, 2 and  *)
(* 3 are child_sem[0] and [1].                                              *)
AppSemaphore ==
  << I("sem_new", 1, 0),        \* 1
     I("sem_new", 0, 0),        \* 2
     I("sem_new", 0, 0),        \* 3
     I("fork", 0, 0),           \* 4
     I("save", 0, 0),           \* 5
     I("if_child", 0, 12),      \* 6
     I("P", 1, 0),              \* 7
     I("print", "Parent", 0),   \* 8
     I("V", 2, 0),              \* 9
     I("loop", Rounds, 7),      \* 10
     I("exit", 0, 0),           \* 11
     I("fork", 0, 0),           \* 12
     I("save", 0, 0),           \* 13
     I("if_child", 0, 20),      \* 14
     I("P", 2, 0),              \* 15
     I("print", "Child0", 0),   \* 16
     I("V", 3, 0),              \* 17
     I("loop", Rounds, 15),     \* 18
     I("exit", 0, 0),           \* 19
     I("P", 3, 0),              \* 20
     I("print", "Child1", 0),   \* 21
     I("V", 1, 0),              \* 22
     I("loop", Rounds, 20),     \* 23
     I("exit", 0, 0) >>         \* 24

Programs == [wait |-> AppWait, shell |-> AppShell, semaphore |-> AppSemaphore]

Times(tag) == Len(SelectSeq(printed, LAMBDA x : x = tag))

(***************************************************************************)
(* "every process waits for its own child exit then prints"                *)
(* (app_wait_challengex.c:3), wherever the timer interrupts: nobody prints *)
(* before the process below it in the family.                              *)
(***************************************************************************)
ChildrenPrintFirst ==
  app = "wait" =>
    \E n \in 0 .. 3 : printed = SubSeq(<<"Grandchild", "Child", "Parent">>, 1, n)

(***************************************************************************)
(* wait() and exit() never leave the family stuck: everybody prints and    *)
(* the machine shuts down (schedule(), sched.c:193-195).                   *)
(***************************************************************************)
FamilyTerminates ==
  app = "wait" => <>(machine = "shutdown" /\ Len(printed) = 3)

(***************************************************************************)
(* However the timer interleaves the shell and its commands, wait, exec    *)
(* and exit strand nobody: every command runs to its end, the shell goes   *)
(* through its whole script and the machine shuts down.                    *)
(***************************************************************************)
ScriptCompletes ==
  app = "shell" =>
    <>(machine = "shutdown" /\ Times("End") = Commands /\ Times("Output") = Commands)

(***************************************************************************)
(* "Use semaphores to control the order of the main process and two child  *)
(* processes print info" (app_semaphore_challengex.c:3-4): they print in   *)
(* turn, wherever the timer interrupts them.                               *)
(***************************************************************************)
PrintInTurn ==
  app = "semaphore" =>
    \A n \in 1 .. Len(printed) :
      printed[n] = <<"Parent", "Child0", "Child1">>[((n - 1) % 3) + 1]

(***************************************************************************)
(* P and V lose no wake-up that this application needs: all of them print  *)
(* in every round and the machine shuts down.                              *)
(***************************************************************************)
RoundsComplete ==
  app = "semaphore" => <>(machine = "shutdown" /\ Len(printed) = 3 * Rounds)
=============================================================================
