------------------------------ MODULE ShellProps ------------------------------
(***************************************************************************)
(* What must hold of the shell of main.c.                                  *)
(***************************************************************************)
EXTENDS Shell

\* Every variable has its type; sigsuspend never resumes its wait.
TypeOK ==
    /\ pc \in [Procs -> PCs]
    /\ parent \in [Procs -> Procs \cup {0}]
    /\ created \in Procs
    /\ blocked \in [Procs -> BOOLEAN]
    /\ pending \in [Procs -> BOOLEAN]
    /\ prev \in [Procs -> BOOLEAN]
    /\ sig \in [Procs -> Procs \cup {0, -1}]
    /\ resume \in [Procs -> EvalPCs \cup {"prompt"}]

\* The prompt comes back only when the job is over and reaped (main.c:156-161):
\* no child of a shell that is at its prompt, or was interrupted there, runs, is
\* stopped or is a zombie.  A SIGCHLD left from the last job, or one sent
\* because the job stopped, does not end the wait for the next.
PromptMeansReaped ==
    \A p \in Procs :
        (pc[p] = "prompt" \/ (pc[p] = "handler" /\ resume[p] = "prompt"))
            => Children(p) = {}

\* The end of a job is never missed, whenever it comes (main.c:106-159): the
\* prompt comes back once the job has ended, if the shell was started with
\* SIGCHLD unblocked.
PromptReturns ==
    \A p \in Procs :
        ~prev[p] /\ (\E c \in Children(p) : pc[c] = "zombie") ~> pc[p] = "prompt"

\* main.c:160: "Unblock SIGCHLD": once its job has ended, every shell comes back
\* to its prompt with SIGCHLD unblocked.
SigchldUnblocked ==
    \A p \in Procs :
        (\E c \in Children(p) : pc[c] = "zombie") ~> pc[p] = "prompt" /\ ~blocked[p]
===============================================================================
