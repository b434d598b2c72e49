--------------------------------- MODULE Shell ---------------------------------
(***************************************************************************)
(* The shell sfish (src/hw4/src/main.c): for every command that is not a   *)
(* builtin it blocks SIGCHLD, forks, clears the flag sig and calls         *)
(* sigsuspend until the handler, which reaps children, has set sig.        *)
(*                                                                         *)
(* Processes are numbered in the order of their creation; process 1 is the *)
(* login shell, and a job may be another sfish, which inherits the signal  *)
(* mask it was forked with.  A signal is delivered between any two steps   *)
(* of a shell that does not block it; at most one SIGCHLD is pending.      *)
(*                                                                         *)
(* Builtins but exit, an empty line and the end of the input leave a shell *)
(* at its prompt.  MaxProcs, the only bound, bounds the forks.  The kernel *)
(* side (waitpid, sigsuspend, exec, what SIGCHLD is sent for) is POSIX.    *)
(***************************************************************************)
EXTENDS Integers, FiniteSets

CONSTANTS
    MaxProcs,       \* bound on the processes ever created
    Jobs,           \* what the commands execute: "program", "sfish"
    ForkMayFail     \* whether fork may return -1

Procs == 1 .. MaxProcs
Login == 1

ASSUME MaxProcsAssumption == MaxProcs \in Nat \ {0}
ASSUME JobsAssumption     == Jobs \subseteq {"program", "sfish"}

\* The places of a shell in eval and its handler, those of a job.
EvalPCs == {"fork", "reset", "test", "unblock"}
PCs == EvalPCs \cup {"prompt", "suspended", "handler"}
               \cup {"unborn", "child", "program", "stopped", "zombie", "gone"}

VARIABLES
    pc,             \* where each process is
    parent,         \* its parent
    created,        \* number of processes created
    blocked,        \* whether its signal mask blocks SIGCHLD
    pending,        \* whether a SIGCHLD is pending for it
    prev,           \* the mask eval has saved
    sig,            \* the flag sig
    resume          \* where a shell goes on when its handler returns

vars == <<pc, parent, created, blocked, pending, prev, sig, resume>>

Init ==
    /\ pc = [p \in Procs |-> IF p = Login THEN "prompt" ELSE "unborn"]
    /\ parent = [p \in Procs |-> 0]
    /\ created = 1
    /\ blocked = [p \in Procs |-> FALSE]
    /\ pending = [p \in Procs |-> FALSE]
    /\ prev = [p \in Procs |-> FALSE]
    /\ sig = [p \in Procs |-> 0]
    /\ resume = [p \in Procs |-> "prompt"]

Children(p) == {c \in Procs : parent[c] = p /\ pc[c] \notin {"unborn", "gone"}}

Goto(p, from, to) ==
    /\ pc[p] = from
    /\ pc' = [pc EXCEPT ![p] = to]

-----------------------------------------------------------------------------
(* void eval(char *input), for a command that is not a builtin *)

\* Faulty variant: SIGCHLD is not blocked.
BlockNothing(p) ==
    /\ Goto(p, "prompt", "fork")
    /\ prev' = [prev EXCEPT ![p] = blocked[p]]
    /\ UNCHANGED <<parent, created, blocked, pending, sig, resume>>

\* Sigprocmask(SIG_BLOCK, &mask, &prev)
BlockSigchld(p) ==
    /\ Goto(p, "prompt", "fork")
    /\ prev' = [prev EXCEPT ![p] = blocked[p]]
    /\ blocked' = [blocked EXCEPT ![p] = TRUE]
    /\ UNCHANGED <<parent, created, pending, sig, resume>>

\* The child inherits the mask and no pending signal.
ForkChild(p) ==
    LET c == created + 1 IN
    /\ c \in Procs
    /\ pc[p] = "fork"
    /\ pc' = [pc EXCEPT ![p] = "reset", ![c] = "child"]
    /\ created' = c
    /\ parent' = [parent EXCEPT ![c] = p]
    /\ blocked' = [blocked EXCEPT ![c] = blocked[p]]
    /\ UNCHANGED <<pending, prev, sig, resume>>

\* fork fails: the message is printed and eval goes on as if it had a child.
ForkFails(p) ==
    /\ ForkMayFail
    /\ Goto(p, "fork", "reset")
    /\ UNCHANGED <<parent, created, blocked, pending, prev, sig, resume>>

\* Faulty variant: sig keeps what the last job left in it.
ResetNothing(p) ==
    /\ Goto(p, "reset", "test")
    /\ UNCHANGED <<parent, created, blocked, pending, prev, sig, resume>>

ResetSig(p) ==
    /\ Goto(p, "reset", "test")
    /\ sig' = [sig EXCEPT ![p] = 0]
    /\ UNCHANGED <<parent, created, blocked, pending, prev, resume>>

\* while (!sig) sigsuspend(&prev)
TestSig(p) ==
    /\ Goto(p, "test", IF sig[p] = 0 THEN "suspended" ELSE "unblock")
    /\ UNCHANGED <<parent, created, blocked, pending, prev, sig, resume>>

\* Sigprocmask(SIG_SETMASK, &prev, NULL)
Unblock(p) ==
    /\ Goto(p, "unblock", "prompt")
    /\ blocked' = [blocked EXCEPT ![p] = prev[p]]
    /\ UNCHANGED <<parent, created, pending, prev, sig, resume>>

-----------------------------------------------------------------------------
(* void sigchld_handler(int s) *)

\* sigsuspend waits under the mask prev, atomically.
Masked(p) == IF pc[p] = "suspended" THEN prev[p] ELSE blocked[p]

\* Faulty variant: sigsuspend goes on waiting after a handler.
ResumedInPlace(p) == pc[p]

\* Where the interrupted code goes on: sigsuspend returns.
Resumed(p) == IF pc[p] = "suspended" THEN "test" ELSE pc[p]

\* The handler starts; it runs with SIGCHLD blocked.
Deliver(p) ==
    /\ pc[p] \in EvalPCs \cup {"prompt", "suspended"}
    /\ pending[p] /\ ~Masked(p)
    /\ resume' = [resume EXCEPT ![p] = Resumed(p)]
    /\ pending' = [pending EXCEPT ![p] = FALSE]
    /\ pc' = [pc EXCEPT ![p] = "handler"]
    /\ UNCHANGED <<parent, created, blocked, prev, sig>>

\* waitpid reaps a child that has ended; the loop goes on.
Reap(p) ==
    /\ pc[p] = "handler"
    /\ \E c \in Children(p) :
         /\ Goto(c, "zombie", "gone")
         /\ sig' = [sig EXCEPT ![p] = c]
    /\ UNCHANGED <<parent, created, blocked, pending, prev, resume>>

\* waitpid fails with ECHILD.  While there is a child that has not ended, it
\* blocks the handler.
HandlerReturns(p) ==
    /\ Children(p) = {}
    /\ Goto(p, "handler", resume[p])
    /\ sig' = [sig EXCEPT ![p] = -1]
    /\ UNCHANGED <<parent, created, blocked, pending, prev, resume>>

-----------------------------------------------------------------------------
(* The jobs *)

\* A process of state `from` ends, stops or continues: its parent gets SIGCHLD.
Change(c, from, to) ==
    /\ Goto(c, from, to)
    /\ pending' = [pending EXCEPT ![parent[c]] = TRUE]
    /\ UNCHANGED <<parent, created, blocked, prev, sig, resume>>

\* execvp: the mask survives it; a new sfish starts with its own variables.
ExecProgram(c) ==
    /\ "program" \in Jobs
    /\ Goto(c, "child", "program")
    /\ UNCHANGED <<parent, created, blocked, pending, prev, sig, resume>>

ExecShell(c) ==
    /\ "sfish" \in Jobs
    /\ Goto(c, "child", "prompt")
    /\ UNCHANGED <<parent, created, blocked, pending, prev, sig, resume>>

\* The command is not found, or a redirection goes wrong: exit(0).
ExecFails(c) == Change(c, "child", "zombie")

End(c)      == Change(c, "program", "zombie")
Stop(c)     == Change(c, "program", "stopped")
Continue(c) == Change(c, "stopped", "program")

\* The builtin exit.
Exit(p) ==
    IF p = Login
    THEN /\ Goto(p, "prompt", "gone")
         /\ UNCHANGED <<parent, created, blocked, pending, prev, sig, resume>>
    ELSE Change(p, "prompt", "zombie")

-----------------------------------------------------------------------------
EvalStep(p) ==
    \/ ForkChild(p) \/ ForkFails(p) \/ ResetSig(p) \/ TestSig(p) \/ Unblock(p)

HandlerStep(p) == Deliver(p) \/ Reap(p) \/ HandlerReturns(p)

JobStep(c) ==
    ExecProgram(c) \/ ExecShell(c) \/ ExecFails(c) \/ End(c) \/ Stop(c) \/ Continue(c)

Next ==
    \E p \in Procs :
        BlockSigchld(p) \/ Exit(p) \/ EvalStep(p) \/ HandlerStep(p) \/ JobStep(p)

Spec == Init /\ [][Next]_vars

\* A shell that evaluates a command is scheduled, signals that are not blocked
\* are delivered, and handlers run; jobs and users are free to do nothing.
Fairness == \A p \in Procs : WF_vars(EvalStep(p)) /\ WF_vars(HandlerStep(p))

FairSpec == Spec /\ Fairness
================================================================================
