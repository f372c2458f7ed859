------------------------------ MODULE MCSignal ------------------------------
(***************************************************************************)
(* Model-checking instance of Signal: two single-task user processes, the *)
(* idle kernel thread, and one signal of each default action class.       *)
(***************************************************************************)
EXTENDS Signal, TLC

CONSTANTS t1, t2, idle

MCUserTasks == {t1, t2}
MCKThreads  == {idle}

\* SIGKILL, SIGTERM (terminate), SIGCHLD (ignore), SIGCONT, SIGSTOP.
MCSigs == {9, 15, 17, 18, 19}

\* SIGKILL alone, for the context-switch questions.
MCKillOnly == {9}

\* SIGKILL (rejected), SIGTERM, and _NSIG (out of range).
MCSigactionSigs == {9, 15, 64}

\* The user tasks are interchangeable (safety runs only).
Symmetry == Permutations(MCUserTasks)
=============================================================================
