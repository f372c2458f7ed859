------------------------------ MODULE KThread ------------------------------
(***************************************************************************)
(* The kernel thread factory, kthread_create2() of the riscv arch file    *)
(* (src/unnamed/part_000), with the preemption gate around it.            *)
(*                                                                         *)
(* A kernel context (the caller) creates kernel threads; a created thread *)
(* is published by add_task() and can run only once task switching is    *)
(* enabled again.  The thread's body is abstracted to one step that runs  *)
(* it to kthread_exit(); a zombie is later reaped, freeing its tid.       *)
(*                                                                         *)
(* The preemption-disable depth is one global counter, so the module also *)
(* composes the one signal path whose ASSERT depends on its value at      *)
(* entry: a user task sending itself a terminating signal (send_signal2   *)
(* into action_terminate of kernel/signal.c).                             *)
(***************************************************************************)
EXTENDS Integers

CONSTANTS
    Tids,            \* the kernel tids create_new_kernel_tid() can hand out
    InjectFailures,  \* TRUE: tid exhaustion and allocation failure happen
    MaxDepth         \* bound on the preemption-disable depth of the caller

ASSUME InjectFailures \in BOOLEAN /\ MaxDepth \in Nat \ {0}

NoTid == "none"
ASSUME NoTid \notin Tids

VARIABLES
    disable_count,   \* preemption disable depth (0: task switching enabled)
    kstate,          \* per tid: "free", "runnable" or "zombie"
    ret,             \* the last value kthread_create2() returned
    term_depth       \* history: the depth ASSERT(is_preemption_enabled())
                     \* of action_terminate saw last (NoDepth: not yet run)

vars == <<disable_count, kstate, ret, term_depth>>

NoDepth == -1

Init ==
    /\ disable_count = 0
    /\ kstate = [t \in Tids |-> "free"]
    /\ ret = NoTid
    /\ term_depth = NoDepth

\* create_new_kernel_tid(): a free tid, or -1 when all are in use.
FreeTids == {t \in Tids : kstate[t] = "free"}

\* Mutant: the success path forgets enable_preemption() as well.
PublishNoEnable(tid) ==
    /\ kstate' = [kstate EXCEPT ![tid] = "runnable"]
    /\ disable_count' = disable_count + 1

\* Lines 102-127: the thread is made RUNNABLE with its initial register
\* context (resume at asm_trap_entry_resume, pc = func, a0 = arg,
\* ra = kthread_exit, kernel stack reset), add_task() publishes it, and
\* task switching is enabled again.
Publish(tid) ==
    /\ kstate' = [kstate EXCEPT ![tid] = "runnable"]
    /\ disable_count' = disable_count

\* kthread_create2(func, name, fl, arg), called with task switching
\* enabled.  disable_preemption() first; both error paths jump to "end",
\* which returns without enable_preemption().
KthreadCreate2(allocOk) ==
    /\ disable_count = 0 \/ (InjectFailures /\ disable_count < MaxDepth)
    /\ InjectFailures \/ (FreeTids # {} /\ allocOk)
    /\ IF FreeTids = {}
       THEN /\ ret' = "EAGAIN"
            /\ disable_count' = disable_count + 1
            /\ UNCHANGED kstate
       ELSE \E tid \in FreeTids :
              IF ~allocOk
              THEN /\ ret' = "ENOMEM"
                   /\ disable_count' = disable_count + 1
                   /\ UNCHANGED kstate
              ELSE /\ Publish(tid)
                   /\ ret' = tid
    /\ UNCHANGED term_depth

\* Mutant: action_terminate() forgets enable_preemption() before the ASSERT.
SendSignalTerminateSelfNoEnable ==
    LET inSend   == disable_count + 1
        atAssert == inSend
    IN  /\ term_depth' = atAssert
        /\ disable_count' = atAssert
        /\ UNCHANGED <<kstate, ret>>

\* kill()/tkill() of a user task on itself with a signal whose action is
\* to terminate: send_signal2() calls disable_preemption(), every check
\* passes (own pid and tid, not a kernel thread, signum # 0, not a zombie)
\* and do_send_signal() runs action_terminate() on the current task.
\* There enable_preemption() comes before ASSERT(is_preemption_enabled())
\* and terminate_process(), which does not return: the enable_preemption()
\* at err_end is never reached and the counter stays as the ASSERT saw it.
SendSignalTerminateSelf ==
    LET inSend   == disable_count + 1   \* disable_preemption(), line 267
        atAssert == inSend - 1          \* enable_preemption(), line 103
    IN  /\ term_depth' = atAssert
        /\ disable_count' = atAssert
        /\ UNCHANGED <<kstate, ret>>

\* The scheduler switches to a runnable kernel thread (only when task
\* switching is enabled) and the thread runs until kthread_exit().
RunToExit(t) ==
    /\ disable_count = 0
    /\ kstate[t] = "runnable"
    /\ kstate' = [kstate EXCEPT ![t] = "zombie"]
    /\ UNCHANGED <<disable_count, ret, term_depth>>

\* The zombie is reaped and its tid can be handed out again.
Reap(t) ==
    /\ kstate[t] = "zombie"
    /\ kstate' = [kstate EXCEPT ![t] = "free"]
    /\ UNCHANGED <<disable_count, ret, term_depth>>

Next ==
    \/ \E ok \in BOOLEAN : KthreadCreate2(ok)
    \/ \E t \in Tids : RunToExit(t) \/ Reap(t)
    \/ SendSignalTerminateSelf

Spec == Init /\ [][Next]_vars /\ \A t \in Tids : WF_vars(RunToExit(t))

TypeOK ==
    /\ disable_count \in 0 .. MaxDepth
    /\ kstate \in [Tids -> {"free", "runnable", "zombie"}]
    /\ ret \in Tids \cup {NoTid, "EAGAIN", "ENOMEM"}
    /\ term_depth \in {NoDepth} \cup 0 .. MaxDepth

\* ASSERT(is_preemption_enabled()) in action_terminate() (signal.c:104)
\* holds whenever a task terminates itself with a signal: the preemption
\* depth is back to 0 after its one enable_preemption(), so every earlier
\* kernel path, kthread_create2() and its error returns included (spec
\* 4.2, 7: exhaustion is an error code the caller may retry after), left
\* the global counter as it found it.
TerminateAssertHolds == term_depth \in {NoDepth, 0}

\* Every created kernel thread eventually runs (to completion): creation
\* re-enables task switching after publishing the thread.
CreatedThreadRuns ==
    \A t \in Tids : kstate[t] = "runnable" ~> kstate[t] = "zombie"
=============================================================================
