------------------------------ MODULE UserApp ------------------------------
(***************************************************************************)
(* Applications on top of process management: Sched, with the system calls *)
(* issued by a program instead of arbitrarily.  A program is a sequence of *)
(* instructions; user memory is the program counter and the two variables  *)
(* the applications have, kept per context because fork copies the stack.  *)
(* The timer may interrupt between any two instructions.                   *)
(***************************************************************************)
EXTENDS Sched

CONSTANT Program   \* for each application its instructions, records
                   \* [op, arg, to]; main() starts at label 1

VARIABLES
  app,     \* the application that runs
  pc,      \* label of the next instruction of each context
  saved,   \* the variable `pid` of the applications
  count,   \* the variable `i`
  printed  \* what printu has printed

user == <<app, pc, saved, count, printed>>
appVars == <<vars, user>>

me == ctx[current]
instr == Program[app][pc[me]]
Is(op) == InUser /\ instr.op = op

Goto(label) == pc' = [pc EXCEPT ![me] = label]
Advance == Goto(pc[me] + 1)

AppInit ==
  /\ Init
  /\ app \in DOMAIN Program
  /\ pc = [k \in Slot |-> 1]
  /\ saved = [k \in Slot |-> 0]
  /\ count = [k \in Slot |-> 0]
  /\ printed = <<>>

-----------------------------------------------------------------------------
(* Instructions that make no system call. *)

(* printu: the text is printed in one system call that changes no process. *)
Printu ==
  /\ Is("print")
  /\ printed' = Append(printed, instr.arg)
  /\ Advance
  /\ UNCHANGED <<vars, app, saved, count>>

(* pid = fork(), after the call. *)
Save ==
  /\ Is("save")
  /\ saved' = [saved EXCEPT ![me] = a0[me]]
  /\ Advance
  /\ UNCHANGED <<vars, app, count, printed>>

(* if (pid == 0) ... else ... *)
IfChild ==
  /\ Is("if_child")
  /\ Goto(IF saved[me] = 0 THEN instr.to ELSE pc[me] + 1)
  /\ UNCHANGED <<vars, app, saved, count, printed>>

Jump ==
  /\ Is("goto")
  /\ Goto(instr.to)
  /\ UNCHANGED <<vars, app, saved, count, printed>>

(* for (i = 0; i < arg; i++): at the end of the body. *)
Loop ==
  /\ Is("loop")
  /\ count' = [count EXCEPT ![me] = @ + 1]
  /\ Goto(IF count[me] + 1 < instr.arg THEN instr.to ELSE pc[me] + 1)
  /\ UNCHANGED <<vars, app, saved, printed>>

-----------------------------------------------------------------------------
(* System calls. *)

AppFork ==
  /\ Is("fork")
  /\ Fork
  /\ \E child \in Slot :
       /\ FirstFree(child)
       /\ pc' = [pc EXCEPT ![me] = @ + 1, ![ctx[child]] = pc[me] + 1]
       /\ saved' = [saved EXCEPT ![ctx[child]] = saved[me]]
       /\ count' = [count EXCEPT ![ctx[child]] = count[me]]
  /\ UNCHANGED <<app, printed>>

(* exec: the new image starts at its own main(). *)
AppExec ==
  /\ Is("exec")
  /\ Exec(TRUE)
  /\ pc' = [pc EXCEPT ![ctx'[current]] = instr.to]
  /\ UNCHANGED <<app, saved, count, printed>>

SystemCall(op, Call) ==
  /\ Is(op)
  /\ Call
  /\ Advance
  /\ UNCHANGED <<app, saved, count, printed>>

AppWaitAny == SystemCall("wait_any", Wait(-1))
AppWaitPid == SystemCall("wait_pid", Wait(saved[me]))
AppExit == SystemCall("exit", Exit)
AppSemNew == Is("sem_new") /\ SystemCall("sem_new", SemNew(instr.arg))
AppSemP == Is("P") /\ SystemCall("P", SemP(instr.arg))
AppSemV == Is("V") /\ SystemCall("V", SemV(instr.arg))

Instruction ==
  \/ Printu \/ Save \/ IfChild \/ Jump \/ Loop
  \/ AppFork \/ AppExec \/ AppWaitAny \/ AppWaitPid \/ AppExit
  \/ AppSemNew \/ AppSemP \/ AppSemV

Interrupt == Tick /\ UNCHANGED user

AppNext == Instruction \/ Interrupt

(***************************************************************************)
(* The hart goes on executing instructions, and the timer goes on firing.  *)
(***************************************************************************)
AppSpec ==
  /\ AppInit
  /\ [][AppNext]_appVars
  /\ WF_appVars(Instruction)
  /\ WF_appVars(Interrupt)
=============================================================================
