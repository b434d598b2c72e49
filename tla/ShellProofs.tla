------------------------------ MODULE ShellProofs ------------------------------
(***************************************************************************)
(* Proofs about the shell, for any number of processes and nested shells.  *)
(***************************************************************************)
EXTENDS ShellProps, TLAPS

\* Processes are created in order, and only created ones have children.
Created ==
    /\ \A p \in Procs : p > created => pc[p] = "unborn"
    /\ \A p \in Procs : parent[p] <= created

\* Inside eval SIGCHLD is blocked, so that the handler interrupts a shell only
\* at its prompt and in sigsuspend.
Guarded ==
    \A p \in Procs :
        /\ pc[p] \in EvalPCs \cup {"suspended"} => blocked[p]
        /\ pc[p] = "handler" => resume[p] = "prompt" \/ (resume[p] = "test" /\ blocked[p])

\* The places where a shell may have a child: between fork and the end of the
\* loop, and sig is 0 wherever the loop tests it.
Attended(p) ==
    \/ pc[p] \in {"reset", "suspended"}
    \/ pc[p] = "test" /\ sig[p] = 0
    \/ pc[p] = "handler" /\ resume[p] = "test"

Alone == \A p \in Procs : Attended(p) \/ Children(p) = {}

IInv == TypeOK /\ Created /\ Guarded /\ Alone

-----------------------------------------------------------------------------
LEMMA InitInvariant == Init => IInv
<1> SUFFICES ASSUME Init PROVE IInv
  OBVIOUS
<1>1. TypeOK
  BY MaxProcsAssumption DEF Init, TypeOK, PCs, EvalPCs, Procs, Login
<1>2. Created
  BY DEF Init, Created, Procs, Login
<1>3. Guarded
  BY DEF Init, Guarded, EvalPCs
<1>4. Alone
  BY DEF Init, Alone, Children, Procs
<1> QED
  BY <1>1, <1>2, <1>3, <1>4 DEF IInv

\* Only fork gives a shell a child: any other step moves a process that exists
\* from one place to another.
LEMMA NoNewChild ==
    ASSUME IInv, NEW q \in Procs, NEW to, pc[q] \notin {"unborn", "gone"},
           to # "unborn", pc' = [pc EXCEPT ![q] = to], parent' = parent, created' = created
    PROVE  Created' /\ \A p \in Procs : Children(p)' \subseteq Children(p)
<1>1. \A p \in Procs : pc'[p] = IF p = q THEN to ELSE pc[p]
  BY DEF IInv, TypeOK
<1>2. \A p \in Procs : Children(p)' \subseteq Children(p)
  BY <1>1 DEF Children
<1>3. Created'
  BY <1>1 DEF IInv, Created
<1> QED
  BY <1>2, <1>3

\* A shell takes a step inside eval; the other processes stay as they are.
LEMMA EvalKeeps ==
    ASSUME IInv, NEW q \in Procs,
           BlockSigchld(q) \/ ForkFails(q) \/ ResetSig(q) \/ TestSig(q) \/ Unblock(q)
    PROVE  IInv'
<1> USE DEF IInv
<1>1. PICK to : /\ pc' = [pc EXCEPT ![q] = to]
                /\ to \in EvalPCs \cup {"suspended", "prompt"}
  BY DEF BlockSigchld, ForkFails, ResetSig, TestSig, Unblock, Goto, EvalPCs
<1>2. pc[q] \in EvalPCs \cup {"prompt"} /\ parent' = parent /\ created' = created
  BY DEF BlockSigchld, ForkFails, ResetSig, TestSig, Unblock, Goto, EvalPCs
<1>3. Created' /\ \A p \in Procs : Children(p)' \subseteq Children(p)
  BY <1>1, <1>2, NoNewChild DEF EvalPCs
<1>4. TypeOK'
  BY <1>1 DEF TypeOK, PCs, BlockSigchld, ForkFails, ResetSig, TestSig, Unblock
<1>5. Guarded'
  BY DEF TypeOK, Guarded, EvalPCs, BlockSigchld, ForkFails, ResetSig, TestSig, Unblock, Goto
<1>6. Alone'
  <2>1. ASSUME NEW p \in Procs, p # q PROVE (Attended(p) \/ Children(p) = {})'
    <3>1. pc'[p] = pc[p] /\ sig'[p] = sig[p] /\ resume'[p] = resume[p]
      BY <2>1, <1>1
         DEF TypeOK, BlockSigchld, ForkFails, ResetSig, TestSig, Unblock
    <3> QED
      BY <3>1, <1>3 DEF Alone, Attended
  <2>2. (Attended(q) \/ Children(q) = {})'
    <3>1. CASE BlockSigchld(q) \/ ForkFails(q) \/ Unblock(q)
      <4>1. ~Attended(q)
        BY <3>1 DEF Attended, BlockSigchld, ForkFails, Unblock, Goto
      <4> QED
        BY <4>1, <1>3 DEF Alone
    <3>2. CASE ResetSig(q)
      BY <3>2 DEF TypeOK, Attended, ResetSig, Goto
    <3>3. CASE TestSig(q)
      BY <3>3, <1>3 DEF TypeOK, Alone, Attended, TestSig, Goto
    <3> QED
      BY <3>1, <3>2, <3>3
  <2> QED
    BY <2>1, <2>2 DEF Alone
<1> QED
  BY <1>3, <1>4, <1>5, <1>6

LEMMA ForkKeeps ==
    ASSUME IInv, NEW q \in Procs, ForkChild(q) PROVE IInv'
<1> USE DEF IInv
<1>1. PICK c \in Procs :
         /\ c = created + 1 /\ pc[q] = "fork" /\ created' = c
         /\ pc' = [pc EXCEPT ![q] = "reset", ![c] = "child"]
         /\ parent' = [parent EXCEPT ![c] = q]
         /\ blocked' = [blocked EXCEPT ![c] = blocked[q]]
         /\ UNCHANGED <<pending, prev, sig, resume>>
  BY DEF ForkChild
<1>2. created \in Procs /\ c = created + 1
  BY <1>1 DEF TypeOK
<1>3. pc[c] = "unborn" /\ c # q
  BY <1>1, <1>2 DEF Created, Procs
<1>4. \A p \in Procs : pc'[p] = IF p = q THEN "reset" ELSE IF p = c THEN "child" ELSE pc[p]
  BY <1>1, <1>3 DEF TypeOK
<1>5. TypeOK'
  BY <1>1 DEF TypeOK, PCs, EvalPCs
<1>6. \A p \in Procs : parent[p] \in Int /\ p \in Int
  BY DEF TypeOK, Procs
<1>7. Created'
  <2>1. \A p \in Procs : parent'[p] = IF p = c THEN q ELSE parent[p]
    BY <1>1 DEF TypeOK
  <2>2. q <= created
    BY <1>1, <1>2, <1>6 DEF Created
  <2>3. \A p \in Procs : parent'[p] <= created'
    BY <1>1, <1>2, <1>6, <2>1, <2>2 DEF Created, Procs
  <2>4. \A p \in Procs : p > created' => pc'[p] = "unborn"
    <3> SUFFICES ASSUME NEW p \in Procs, p > created' PROVE pc'[p] = "unborn"
      OBVIOUS
    <3>1. p > created /\ p # c /\ p # q
      BY <1>1, <1>2, <1>6, <2>2, MaxProcsAssumption DEF Procs
    <3> QED
      BY <1>4, <3>1 DEF Created
  <2> QED
    BY <2>3, <2>4 DEF Created
<1>8. Guarded'
  BY <1>1, <1>4 DEF TypeOK, Guarded, EvalPCs
<1>9. Alone'
  <2>1. ASSUME NEW p \in Procs, p # q, p # c PROVE Children(p)' = Children(p)
    BY <2>1, <1>1, <1>3, <1>4 DEF Children, TypeOK
  <2>2. Children(c)' = {}
    <3>1. ASSUME NEW x \in Procs PROVE parent'[x] # c
      <4>1. parent'[x] = IF x = c THEN q ELSE parent[x]
        BY <1>1 DEF TypeOK
      <4>2. parent[x] <= created /\ parent[x] \in Int /\ created \in Int
        BY <1>2, <1>6 DEF Created, Procs
      <4> QED
        BY <1>2, <1>3, <4>1, <4>2
    <3> QED
      BY <3>1 DEF Children
  <2>3. \A p \in Procs : p # q /\ p # c => (Attended(p) <=> Attended(p)')
    BY <1>1, <1>4 DEF Attended
  <2>4. Attended(q)'
    BY <1>4 DEF Attended
  <2> QED
    <3> SUFFICES ASSUME NEW p \in Procs PROVE Attended(p)' \/ Children(p)' = {}
      BY DEF Alone
    <3>1. CASE p = q
      BY <3>1, <2>4
    <3>2. CASE p = c
      BY <3>2, <2>2
    <3>3. CASE p # q /\ p # c
      BY <3>3, <2>1, <2>3 DEF Alone
    <3> QED
      BY <3>1, <3>2, <3>3
<1> QED
  BY <1>5, <1>7, <1>8, <1>9

\* The handler starts, reaps or returns.
LEMMA HandlerKeeps ==
    ASSUME IInv, NEW q \in Procs, HandlerStep(q) PROVE IInv'
<1> USE DEF IInv
<1>1. CASE Deliver(q)
  <2>1. /\ pc[q] = "prompt" \/ (pc[q] = "suspended" /\ blocked[q])
        /\ pc' = [pc EXCEPT ![q] = "handler"]
        /\ resume' = [resume EXCEPT ![q] = Resumed(q)]
        /\ UNCHANGED <<parent, created, blocked, prev, sig>>
    BY <1>1 DEF Deliver, Masked, Guarded, EvalPCs
  <2>2. Created' /\ \A p \in Procs : Children(p)' \subseteq Children(p)
    BY <2>1, NoNewChild
  <2>3. TypeOK'
    BY <1>1, <2>1 DEF TypeOK, PCs, EvalPCs, Deliver, Resumed
  <2>4. Guarded'
    BY <2>1 DEF TypeOK, Guarded, EvalPCs, Resumed
  <2>5. Alone'
    BY <2>1, <2>2 DEF TypeOK, Alone, Attended, Resumed
  <2> QED
    BY <2>2, <2>3, <2>4, <2>5
<1>2. CASE Reap(q)
  <2>1. PICK c \in Children(q) : Goto(c, "zombie", "gone") /\ sig' = [sig EXCEPT ![q] = c]
    BY <1>2 DEF Reap
  <2>2. /\ pc[q] = "handler" /\ c \in Procs /\ pc[c] = "zombie"
        /\ pc' = [pc EXCEPT ![c] = "gone"]
        /\ UNCHANGED <<parent, created, blocked, pending, prev, resume>>
    BY <1>2, <2>1 DEF Reap, Goto, Children
  <2>3. Created' /\ \A p \in Procs : Children(p)' \subseteq Children(p)
    BY <2>2, NoNewChild
  <2>4. TypeOK'
    BY <2>1, <2>2 DEF TypeOK, PCs
  <2>5. Guarded'
    BY <2>2 DEF TypeOK, Guarded, EvalPCs
  <2>6. \A p \in Procs : Attended(p) => Attended(p)'
    BY <2>1, <2>2 DEF TypeOK, Attended
  <2> QED
    BY <2>3, <2>4, <2>5, <2>6 DEF Alone
<1>3. CASE HandlerReturns(q)
  <2>1. /\ Children(q) = {} /\ pc[q] = "handler" /\ pc' = [pc EXCEPT ![q] = resume[q]]
        /\ sig' = [sig EXCEPT ![q] = -1]
        /\ UNCHANGED <<parent, created, blocked, pending, prev, resume>>
    BY <1>3 DEF HandlerReturns, Goto
  <2>2. resume[q] = "prompt" \/ (resume[q] = "test" /\ blocked[q])
    BY <2>1 DEF Guarded
  <2>3. Created' /\ \A p \in Procs : Children(p)' \subseteq Children(p)
    BY <2>1, <2>2, NoNewChild
  <2>4. TypeOK'
    BY <2>1, <2>2 DEF TypeOK, PCs, EvalPCs
  <2>5. Guarded'
    BY <2>1, <2>2 DEF TypeOK, Guarded, EvalPCs
  <2>6. \A p \in Procs : p # q /\ Attended(p) => Attended(p)'
    BY <2>1 DEF TypeOK, Attended
  <2> QED
    BY <2>1, <2>3, <2>4, <2>5, <2>6 DEF Alone
<1> QED
  BY <1>1, <1>2, <1>3 DEF HandlerStep

\* A job runs, or a shell exits.
LEMMA JobKeeps ==
    ASSUME IInv, NEW q \in Procs, JobStep(q) \/ Exit(q) PROVE IInv'
<1> USE DEF IInv
<1>1. PICK to \in {"program", "prompt", "zombie", "stopped", "gone"} :
         /\ pc' = [pc EXCEPT ![q] = to]
         /\ pc[q] \in {"child", "program", "stopped", "prompt"}
  BY DEF JobStep, Exit, ExecProgram, ExecShell, ExecFails, End, Stop, Continue, Change, Goto
<1>2. /\ UNCHANGED <<parent, created, blocked, prev, sig, resume>>
      /\ pending' = pending \/ pending' = [pending EXCEPT ![parent[q]] = TRUE]
  BY DEF JobStep, Exit, ExecProgram, ExecShell, ExecFails, End, Stop, Continue, Change
<1>3. Created' /\ \A p \in Procs : Children(p)' \subseteq Children(p)
  BY <1>1, <1>2, NoNewChild
<1>4. TypeOK'
  BY <1>1, <1>2 DEF TypeOK, PCs
<1>5. Guarded'
  BY <1>1, <1>2 DEF TypeOK, Guarded, EvalPCs
<1>6. \A p \in Procs : Attended(p) => Attended(p)'
  BY <1>1, <1>2 DEF TypeOK, Attended
<1> QED
  BY <1>3, <1>4, <1>5, <1>6 DEF Alone

LEMMA ShellInvariant == Spec => []IInv
<1>1. IInv /\ [Next]_vars => IInv'
  <2> SUFFICES ASSUME IInv, [Next]_vars PROVE IInv'
    OBVIOUS
  <2>1. CASE UNCHANGED vars
    BY <2>1 DEF vars, IInv, TypeOK, Created, Guarded, Alone, Attended, Children
  <2>2. ASSUME NEW q \in Procs, EvalStep(q) \/ BlockSigchld(q) PROVE IInv'
    BY <2>2, EvalKeeps, ForkKeeps DEF EvalStep
  <2>3. ASSUME NEW q \in Procs, HandlerStep(q) PROVE IInv'
    BY <2>3, HandlerKeeps
  <2>4. ASSUME NEW q \in Procs, JobStep(q) \/ Exit(q) PROVE IInv'
    BY <2>4, JobKeeps
  <2> QED
    BY <2>1, <2>2, <2>3, <2>4 DEF Next
<1> QED
  BY <1>1, InitInvariant, PTL DEF Spec

\* Every variable of the shell keeps its type.
THEOREM ShellTypeCorrect == Spec => []TypeOK
<1>1. IInv => TypeOK
  BY DEF IInv
<1> QED
  BY <1>1, ShellInvariant, PTL

\* The prompt comes back only when the job is over and reaped: neither a stale
\* nor an early SIGCHLD ends the wait, in the login shell and in nested ones.
THEOREM PromptCorrect == Spec => []PromptMeansReaped
<1>1. IInv => PromptMeansReaped
  BY DEF IInv, Alone, Attended, PromptMeansReaped
<1> QED
  BY <1>1, ShellInvariant, PTL
================================================================================
