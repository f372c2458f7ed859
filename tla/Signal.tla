------------------------------- MODULE Signal -------------------------------
(***************************************************************************)
(* Task switching and signal delivery on one CPU: kernel/signal.c         *)
(* (send_signal2, do_send_signal, the default actions, process_signals,   *)
(* sys_rt_sigaction) and the riscv switch_to_task() of the arch file      *)
(* (src/unnamed/part_000).                                                *)
(*                                                                         *)
(* Every code path that runs with preemption disabled is one atomic step. *)
(* The scheduler, the wait objects, vfork, syscall entry/exit and         *)
(* terminate_process() are outside src/ and are modelled from spec.md.    *)
(* User processes are single-threaded (tid == pid), as the "TODO: update  *)
(* this code when thread support is added" of send_signal2 assumes.       *)
(***************************************************************************)
EXTENDS Integers, FiniteSets

CONSTANTS
    UserTasks,        \* tasks of user processes; a task is its own process
    KThreads,         \* kernel threads (tasks of kernel_process)
    Idle,             \* the idle kernel thread, always runnable
    NoTask,           \* a tid no task has; also "no FPU owner", kernel pdir
    Sigs,             \* the signal numbers senders use
    SigactionSigs,    \* the signal numbers sys_rt_sigaction is called with
    FpuUsers,         \* the user tasks that execute FPU instructions
    MaxCalls,         \* bound on send_signal2 + sys_rt_sigaction calls
                      \* + first faults
    FaultSigs,        \* signals the fault handlers send (SIGILL/BUS/SEGV)
    NBITS, MASK_WORDS, NSIG,
    ProcessSignalsOn  \* which task process_signals() examines, see below

(***************************************************************************)
(* switch_to_task() calls process_signals(ti, sig_in_usermode, state) but *)
(* the process_signals() of signal.c takes no argument and examines       *)
(* get_curr_task(), which during the switch is still the OUTGOING task    *)
(* (set_curr_task(ti) comes later).  "curr_task" models the definition,   *)
(* "argument" the call site's intent (the incoming task ti).              *)
(***************************************************************************)
ASSUME ProcessSignalsOn \in {"curr_task", "argument"}

Tasks == UserTasks \cup KThreads
ASSUME Idle \in KThreads /\ NoTask \notin Tasks /\ FpuUsers \subseteq UserTasks
ASSUME MaxCalls \in Nat
ASSUME Sigs \subseteq 1 .. NSIG - 1 /\ SigactionSigs \subseteq 1 .. NSIG

Bits == INSTANCE SignalBits

RUNNABLE == "runnable"
RUNNING  == "running"
SLEEPING == "sleeping"
ZOMBIE   == "zombie"
TaskStates == {RUNNABLE, RUNNING, SLEEPING, ZOMBIE}

\* wobj.type of a sleeping task: mutex, semaphore, or a condition /
\* kernel_sleep() (the waits that action_terminate must wake).
WobjTypes == {"none", "kmutex", "sem", "cond"}

SIG_DFL == "SIG_DFL"
SIG_IGN == "SIG_IGN"
USER_HANDLER == "user"   \* any custom handler address
Handlers == {SIG_DFL, SIG_IGN, USER_HANDLER}

\* The sa_flags a caller may pass (one at a time).
SaFlags == {"none", "SA_RESTART", "SA_NODEFER", "SA_RESETHAND",
            "SA_NOCLDSTOP", "SA_NOCLDWAIT", "SA_SIGINFO", "SA_ONSTACK"}
UnsupportedSaFlags == {"SA_NOCLDSTOP", "SA_NOCLDWAIT", "SA_SIGINFO",
                       "SA_ONSTACK"}

\* Linux generic signal numbers (riscv).
SIGKILL == 9
SIGSTOP == 19

\* signal_default_actions[]: the table of signal.c; a missing entry is "none".
DefaultActionTable(s) ==
    CASE s \in {1, 2, 3, 4, 6, 8, 9, 11, 13, 14, 15, 10, 12,
                7, 29, 27, 31, 5, 26, 24, 25}  -> "terminate"
      [] s \in {17, 23}                         -> "ignore"
      [] s = 18                                 -> "continue"
      [] s \in {19, 20, 21, 22}                 -> "stop"
      [] OTHER                                  -> "none"

NoStatus == <<"none", 0>>

VARIABLES
    state,              \* ti->state
    curr,               \* get_curr_task()
    stopped,            \* ti->stopped
    vfork_stopped,      \* ti->vfork_stopped
    wobj,               \* ti->wobj.type
    pending,            \* ti->pending_signums[] (see SignalBits)
    running_in_kernel,  \* ti->running_in_kernel
    sa_handlers,        \* pi->sa_handlers[] of each user process
    wstatus,            \* ti->wstatus: <<kind, signal>>
    pdir,               \* get_curr_pdir(): the process whose pdir is active
    fs,                 \* SR_FS in the task's saved sstatus
    fpuHw,              \* task whose latest FPU context is in the FPU regs
    fpuSaved,           \* the task's fpu_regs buffer holds its latest context
    sentTerm,           \* history: signals whose action_terminate ran per task
    contAwaited,        \* history: a SIGCONT reached the task while stopped
                        \* and no stop or resume has happened since
    calls,              \* send_signal2 + sys_rt_sigaction calls so far
    faulting            \* the signal the task's next user instruction
                        \* faults with (0: it does not fault)

vars == <<state, curr, stopped, vfork_stopped, wobj, pending,
          running_in_kernel, sa_handlers, wstatus, pdir, fs, fpuHw,
          fpuSaved, sentTerm, contAwaited, calls, faulting>>

sigVars == <<stopped, vfork_stopped, wobj, pending, sa_handlers, wstatus>>
cpuVars == <<curr, pdir, fs, fpuHw, fpuSaved>>

IsKernelThread(t) == t \in KThreads

\* ti->pi->pid of a user task.
PidOf(t) == t

\* Only user tasks get an fpu_regs buffer (arch_specific_new_task_setup).
HasFpuBuf(t) == t \in UserTasks

Init ==
    /\ state = [t \in Tasks |-> IF t = Idle THEN RUNNING ELSE RUNNABLE]
    /\ curr = Idle
    /\ stopped = [t \in Tasks |-> FALSE]
    /\ vfork_stopped = [t \in Tasks |-> FALSE]
    /\ wobj = [t \in Tasks |-> "none"]
    /\ pending = [t \in Tasks |-> Bits!EmptyMask]
    /\ running_in_kernel = [t \in Tasks |-> IsKernelThread(t)]
    /\ sa_handlers = [t \in UserTasks |-> [s \in 1 .. NSIG - 1 |-> SIG_DFL]]
    /\ wstatus = [t \in Tasks |-> NoStatus]
    /\ pdir = NoTask
    /\ fs = [t \in Tasks |-> FALSE]
    /\ fpuHw = NoTask
    /\ fpuSaved = [t \in Tasks |-> TRUE]
    /\ sentTerm = [t \in Tasks |-> {}]
    /\ contAwaited = [t \in Tasks |-> FALSE]
    /\ calls = 0
    /\ faulting = [t \in Tasks |-> 0]

-----------------------------------------------------------------------------
(* terminate_process(0, sig) (outside src/): the task becomes a zombie     *)
(* killed by sig and the CPU reschedules.  st is the task-state function  *)
(* the caller has built so far.                                           *)
TerminateProcess(t, sig, st) ==
    /\ state' = [st EXCEPT ![t] = ZOMBIE]
    /\ wstatus' = [wstatus EXCEPT ![t] = <<"killed", sig>>]

\* Mutant: the pending bit is set but a task sleeping on a condition is
\* not woken.
WakeOnTerminateNoCond(ti) ==
    state[ti] = SLEEPING /\ wobj[ti] \notin {"kmutex", "sem", "cond"}

\* action_terminate(), lines 114-124: the sleeping target is woken unless
\* it waits on a mutex or a semaphore.
WakeOnTerminate(ti) ==
    state[ti] = SLEEPING /\ wobj[ti] \notin {"kmutex", "sem"}

\* action_terminate(): the current task dies now; another task gets the
\* pending bit and, unless vfork-suspended, is woken and un-stopped.
ActionTerminate(ti, s) ==
    IF ti = curr
    THEN /\ TerminateProcess(ti, s, state)
         /\ UNCHANGED <<stopped, vfork_stopped, wobj, pending, sa_handlers>>
    ELSE /\ pending' = [pending EXCEPT ![ti] = Bits!AddPendingSig(@, s)]
         /\ IF ~vfork_stopped[ti]
            THEN /\ state' = IF WakeOnTerminate(ti)
                             THEN [state EXCEPT ![ti] = RUNNABLE] ELSE state
                 /\ stopped' = [stopped EXCEPT ![ti] = FALSE]
            ELSE UNCHANGED <<state, stopped>>
         /\ UNCHANGED <<vfork_stopped, wobj, sa_handlers, wstatus>>

\* action_ignore(): only a warning for init.
ActionIgnore(ti, s) == UNCHANGED <<state, sigVars>>

\* Mutant: the stop is recorded as a task state of its own.
ActionStopStateStopped(ti, s) ==
    /\ stopped' = [stopped EXCEPT ![ti] = TRUE]
    /\ wstatus' = [wstatus EXCEPT ![ti] = <<"stopped", s>>]
    /\ state' = [state EXCEPT ![ti] = "stopped"]
    /\ UNCHANGED <<vfork_stopped, wobj, pending, sa_handlers>>

\* action_stop(): the target is marked stopped; if it is the caller it
\* yields at once (kernel_yield_preempt_disabled: RUNNING -> RUNNABLE).
ActionStop(ti, s) ==
    /\ stopped' = [stopped EXCEPT ![ti] = TRUE]
    /\ wstatus' = [wstatus EXCEPT ![ti] = <<"stopped", s>>]
    /\ state' = IF ti = curr THEN [state EXCEPT ![ti] = RUNNABLE] ELSE state
    /\ UNCHANGED <<vfork_stopped, wobj, pending, sa_handlers>>

\* action_continue(): nothing happens to a vfork-suspended task.
ActionContinue(ti, s) ==
    /\ IF vfork_stopped[ti]
       THEN UNCHANGED <<stopped, wstatus>>
       ELSE /\ stopped' = [stopped EXCEPT ![ti] = FALSE]
            /\ wstatus' = [wstatus EXCEPT ![ti] = <<"continued", 0>>]
    /\ UNCHANGED <<state, vfork_stopped, wobj, pending, sa_handlers>>

\* The action do_send_signal() picks for a SIG_DFL signal.
DefaultAction(s) ==
    IF DefaultActionTable(s) # "none" THEN DefaultActionTable(s)
    ELSE "terminate"

\* do_send_signal() ends in the default action a (history variables only).
ActionChosen(ti, s, a) ==
    sa_handlers[ti][s] = SIG_DFL /\ DefaultAction(s) = a

\* do_send_signal(): SIG_IGN and custom handlers both ignore the signal;
\* SIG_DFL runs the table's action, terminate when the table has none.
DoSendSignal(ti, s) ==
    LET h      == sa_handlers[ti][s]
        action == DefaultAction(s)
    IN  CASE h = SIG_IGN        -> ActionIgnore(ti, s)
          [] h # SIG_DFL        -> ActionIgnore(ti, s)
          [] action = "terminate" -> ActionTerminate(ti, s)
          [] action = "ignore"    -> ActionIgnore(ti, s)
          [] action = "stop"      -> ActionStop(ti, s)
          [] action = "continue"  -> ActionContinue(ti, s)

\* The checks of send_signal2() that lead to err_end (-ESRCH).
SendTargetOk(pid, tid, whole) ==
    /\ tid \in Tasks
    /\ ~IsKernelThread(tid)
    /\ ~(whole /\ PidOf(tid) # tid)
    /\ PidOf(tid) = pid

\* send_signal2(pid, tid, signum, whole_process), called by the running
\* task (kill syscall) or by an interrupt handler interrupting it.
SendSignal2(pid, tid, signum, whole) ==
    /\ state[curr] = RUNNING
    /\ calls < MaxCalls /\ calls' = calls + 1
    /\ IF SendTargetOk(pid, tid, whole) /\ signum # 0
          /\ state[tid] # ZOMBIE
       THEN /\ DoSendSignal(tid, signum)
            /\ sentTerm' = IF ActionChosen(tid, signum, "terminate")
                           THEN [sentTerm EXCEPT ![tid] = @ \cup {signum}]
                           ELSE sentTerm
            /\ contAwaited' =
                 [contAwaited EXCEPT ![tid] =
                    /\ stopped'[tid]
                    /\ \/ ActionChosen(tid, signum, "continue")
                       \/ @ /\ ~ActionChosen(tid, signum, "stop")]
       ELSE UNCHANGED <<state, sigVars, sentTerm, contAwaited>>
    /\ UNCHANGED <<running_in_kernel, cpuVars, faulting>>

-----------------------------------------------------------------------------
(* process_signals(): the first pending signal, if any, kills the task it *)
(* examines.  Called on the kernel -> user return and by switch_to_task.   *)
ProcessSignals(t, st) ==
    LET sig == Bits!GetFirstPendingSig(pending[t])
    IN  /\ sig > 0
        /\ TerminateProcess(t, sig, st)

\* The task the process_signals() call of switch_to_task() examines and
\* kills.  Under "argument" the call site's intent: the incoming task.
\* Under "curr_task" the definition at signal.c:78-93: get_curr_task(),
\* still the outgoing task, which terminate_process(0, sig) ends; the
\* incoming task is then left RUNNING without being current.
SignalVictim(ti) == IF ProcessSignalsOn = "curr_task" THEN curr ELSE ti

\* Mutant: the running_in_kernel test inverted.
ChecksSignalsOnSwitchInverted(ti) ==
    ~IsKernelThread(ti) /\ running_in_kernel[ti]

\* switch_to_task(), line 195: signals are processed when the incoming user
\* task resumes in user mode (SR_SPP clear in its saved sstatus is implied
\* by ~running_in_kernel: its state_regs are then the user trap frame).
ChecksSignalsOnSwitch(ti) ==
    ~IsKernelThread(ti) /\ ~running_in_kernel[ti]

\* is_fpu_enabled_for_task(): an fpu_regs buffer and SR_FS set.
IsFpuEnabledForTask(t) == HasFpuBuf(t) /\ fs[t]

\* Lines 186-187 and save_curr_fpu_ctx_if_enabled(): the FPU registers are
\* stored in the outgoing user task's buffer; they hold its latest context
\* only if it is the one that last loaded them.
SaveCurrFpuCtxIfEnabled(ti, st) ==
    IF ~IsKernelThread(curr) /\ st[curr] # ZOMBIE /\ IsFpuEnabledForTask(curr)
    THEN [fpuSaved EXCEPT ![curr] = (fpuHw = curr)]
    ELSE fpuSaved

\* Mutant: restore_fpu_regs() dropped; the registers keep what they hold.
RestoreFpuSkipped(ti) == fpuHw

\* restore_fpu_regs() for the incoming task (line 198-200): the registers
\* get the buffer, which is the latest context only if it was saved.
RestoreFpu(ti) ==
    IF ~IsKernelThread(ti) /\ IsFpuEnabledForTask(ti)
    THEN IF fpuSaved'[ti] THEN ti ELSE NoTask
    ELSE fpuHw

\* switch_to_task(ti): st is the state function the scheduler left.  The
\* target is made RUNNING first; if process_signals() kills a task, the
\* call does not return and the switch never completes.  The kernel stack
\* reset, the nested-interrupt bookkeeping, the timeslice and timer_ready
\* are not modelled (no property reads them).
SwitchToTask(ti, st) ==
    LET st1    == [st EXCEPT ![ti] = RUNNING]
        victim == SignalVictim(ti)
        sig    == Bits!GetFirstPendingSig(pending[victim])
    IN  /\ fpuSaved' = SaveCurrFpuCtxIfEnabled(ti, st1)
        /\ pdir' = IF IsKernelThread(ti) THEN pdir ELSE PidOf(ti)
        /\ IF ChecksSignalsOnSwitch(ti) /\ sig > 0
           THEN /\ ProcessSignals(victim, st1)
                /\ UNCHANGED <<curr, fpuHw>>
           ELSE /\ state' = st1
                /\ fpuHw' = RestoreFpu(ti)
                /\ curr' = ti
                /\ UNCHANGED wstatus
        /\ UNCHANGED <<stopped, vfork_stopped, wobj, pending, sa_handlers,
                       running_in_kernel, fs, sentTerm, contAwaited, calls, faulting>>

\* The scheduler (outside src/): a running current task is preempted
\* (RUNNING -> RUNNABLE), then a runnable task that is neither stopped nor
\* vfork-suspended is switched to; it may be the current task itself.
Schedule(ti) ==
    LET st == IF state[curr] = RUNNING
              THEN [state EXCEPT ![curr] = RUNNABLE] ELSE state
    IN  /\ st[ti] = RUNNABLE
        /\ ~stopped[ti]
        /\ ~vfork_stopped[ti]
        /\ SwitchToTask(ti, st)

-----------------------------------------------------------------------------
(* Steps of the running user task t (outside src/ except where noted).    *)
UserRunning(t) == t = curr /\ t \in UserTasks /\ state[t] = RUNNING

\* Trap or syscall entry from user mode.
EnterKernel(t) ==
    /\ UserRunning(t) /\ ~running_in_kernel[t] /\ faulting[t] = 0
    /\ running_in_kernel' = [running_in_kernel EXCEPT ![t] = TRUE]
    /\ UNCHANGED <<state, sigVars, cpuVars, sentTerm, contAwaited, calls, faulting>>

\* The task executes FPU instructions in user mode: SR_FS becomes set and
\* the registers now hold its newest context.
UseFpu(t) ==
    /\ t \in FpuUsers
    /\ UserRunning(t) /\ ~running_in_kernel[t] /\ faulting[t] = 0
    /\ fs' = [fs EXCEPT ![t] = TRUE]
    /\ fpuHw' = t
    /\ fpuSaved' = [fpuSaved EXCEPT ![t] = FALSE]
    /\ UNCHANGED <<state, sigVars, curr, pdir, running_in_kernel, sentTerm,
                   contAwaited, calls, faulting>>

\* Kernel -> user return: process_signals() (signal.c) on the way out.
ReturnToUser(t) ==
    /\ UserRunning(t) /\ running_in_kernel[t]
    /\ IF Bits!GetFirstPendingSig(pending[t]) > 0
       THEN /\ ProcessSignals(t, state)
            /\ UNCHANGED running_in_kernel
       ELSE /\ running_in_kernel' = [running_in_kernel EXCEPT ![t] = FALSE]
            /\ UNCHANGED <<state, wstatus>>
    /\ UNCHANGED <<stopped, vfork_stopped, wobj, pending, sa_handlers,
                   cpuVars, sentTerm, contAwaited, calls, faulting>>

\* The task blocks in the kernel on a wait object.  An interruptible wait
\* (condition, kernel_sleep) is not entered with a signal pending.
Sleep(t, kind) ==
    /\ UserRunning(t) /\ running_in_kernel[t]
    /\ kind = "cond" => Bits!GetFirstPendingSig(pending[t]) = -1
    /\ state' = [state EXCEPT ![t] = SLEEPING]
    /\ wobj' = [wobj EXCEPT ![t] = kind]
    /\ UNCHANGED <<stopped, vfork_stopped, pending, sa_handlers, wstatus,
                   running_in_kernel, cpuVars, sentTerm, contAwaited, calls, faulting>>

\* The wait object is signalled (mutex unlock, sem post, condition, timer).
Wake(t) ==
    /\ state[t] = SLEEPING
    /\ state' = [state EXCEPT ![t] = RUNNABLE]
    /\ wobj' = [wobj EXCEPT ![t] = "none"]
    /\ UNCHANGED <<stopped, vfork_stopped, pending, sa_handlers, wstatus,
                   running_in_kernel, cpuVars, sentTerm, contAwaited, calls, faulting>>

\* vfork(): the parent is suspended until the child execs or exits.
VforkSuspend(t) ==
    /\ UserRunning(t) /\ running_in_kernel[t]
    /\ vfork_stopped' = [vfork_stopped EXCEPT ![t] = TRUE]
    /\ state' = [state EXCEPT ![t] = RUNNABLE]
    /\ UNCHANGED <<stopped, wobj, pending, sa_handlers, wstatus,
                   running_in_kernel, cpuVars, sentTerm, contAwaited, calls, faulting>>

VforkResume(t) ==
    /\ vfork_stopped[t]
    /\ vfork_stopped' = [vfork_stopped EXCEPT ![t] = FALSE]
    /\ UNCHANGED <<state, stopped, wobj, pending, sa_handlers, wstatus,
                   running_in_kernel, cpuVars, sentTerm, contAwaited, calls, faulting>>

\* handle_generic_fault_int(), handle_inst_illegal_fault_int() and
\* handle_bus_fault_int() for a user task in user mode: handle_fatal_error()
\* sends the fault's signal to the current task as a whole process,
\* send_signal2(pid, tid, s, TRUE) to itself.  Unless that kills it, the
\* trap returns to the faulting instruction, which faults again.
FaultInt(t, s) ==
    /\ UserRunning(t) /\ ~running_in_kernel[t]
    /\ faulting[t] \in {0, s}
    /\ faulting[t] = 0 => calls < MaxCalls
    /\ calls' = IF faulting[t] = 0 THEN calls + 1 ELSE calls
    /\ faulting' = [faulting EXCEPT ![t] = s]
    /\ DoSendSignal(t, s)
    /\ sentTerm' = IF ActionChosen(t, s, "terminate")
                   THEN [sentTerm EXCEPT ![t] = @ \cup {s}] ELSE sentTerm
    /\ UNCHANGED <<running_in_kernel, cpuVars, contAwaited>>

\* The faulting instruction executed again.
Refault(t) == faulting[t] # 0 /\ FaultInt(t, faulting[t])

-----------------------------------------------------------------------------
\* sigaction_int(): a faulting copy or an unsupported flag is rejected;
\* SA_RESETHAND, SA_NODEFER and SA_RESTART are accepted and ignored.
SigactionInt(t, signum, h, flag, fault) ==
    IF fault \/ flag \in UnsupportedSaFlags
    THEN UNCHANGED sa_handlers
    ELSE sa_handlers' = [sa_handlers EXCEPT ![t][signum] = h]

\* sys_rt_sigaction(signum, act, oldact, sigsetsize) with a non-NULL act;
\* copying oldact out changes only user memory.
SysRtSigaction(t, signum, h, flag, fault, sizeOk) ==
    /\ UserRunning(t) /\ running_in_kernel[t]
    /\ calls < MaxCalls /\ calls' = calls + 1
    /\ IF signum \in 1 .. NSIG - 1 /\ signum \notin {SIGKILL, SIGSTOP}
          /\ sizeOk
       THEN SigactionInt(t, signum, h, flag, fault)
       ELSE UNCHANGED sa_handlers
    /\ UNCHANGED <<state, stopped, vfork_stopped, wobj, pending, wstatus,
                   running_in_kernel, cpuVars, sentTerm, contAwaited,
                   faulting>>

-----------------------------------------------------------------------------
SendOps ==
    \E pid \in UserTasks, tid \in Tasks \cup {NoTask}, s \in {0} \cup Sigs,
       w \in BOOLEAN : SendSignal2(pid, tid, s, w)

Next ==
    \/ \E t \in Tasks : Schedule(t)
    \/ SendOps
    \/ \E t \in UserTasks :
          \/ EnterKernel(t) \/ UseFpu(t) \/ ReturnToUser(t)
          \/ \E k \in WobjTypes \ {"none"} : Sleep(t, k)
          \/ Wake(t) \/ VforkSuspend(t) \/ VforkResume(t)
          \/ \E s \in FaultSigs : FaultInt(t, s)
          \/ \E s \in SigactionSigs, h \in Handlers,
                f \in {"none", "SA_RESTART", "SA_SIGINFO"},
                fault, sizeOk \in BOOLEAN :
                 SysRtSigaction(t, s, h, f, fault, sizeOk)

\* Lock holders release their locks and vfork children exec or exit; the
\* round-robin scheduler runs every runnable task and a task in the kernel
\* gets back to user mode.  Conditions and kernel_sleep() get no fairness.
WakeLock(t) == wobj[t] \in {"kmutex", "sem"} /\ Wake(t)

Fairness ==
    /\ \A t \in Tasks : SF_vars(Schedule(t))
    /\ \A t \in UserTasks :
          /\ SF_vars(ReturnToUser(t))
          /\ WF_vars(WakeLock(t))
          /\ WF_vars(VforkResume(t))
          /\ SF_vars(Refault(t))

Spec == Init /\ [][Next]_vars /\ Fairness

-----------------------------------------------------------------------------
TypeOK ==
    /\ state \in [Tasks -> TaskStates]
    /\ curr \in Tasks
    /\ stopped \in [Tasks -> BOOLEAN]
    /\ vfork_stopped \in [Tasks -> BOOLEAN]
    /\ wobj \in [Tasks -> WobjTypes]
    /\ pending \in [Tasks -> [Bits!Words -> SUBSET Bits!Bit]]
    /\ running_in_kernel \in [Tasks -> BOOLEAN]
    /\ sa_handlers \in [UserTasks -> [1 .. NSIG - 1 -> Handlers]]
    /\ pdir \in UserTasks \cup {NoTask}
    /\ fs \in [Tasks -> BOOLEAN]
    /\ fpuHw \in Tasks \cup {NoTask}
    /\ fpuSaved \in [Tasks -> BOOLEAN]
    /\ calls \in 0 .. MaxCalls
    /\ faulting \in [Tasks -> {0} \cup FaultSigs]

\* A user task never executes in user mode with a signal pending: every
\* kernel -> user transition (syscall return, switch_to_task into a task
\* preempted in user mode) delivers pending signals first (spec 4.3, 5).
NoPendingInUserMode ==
    \A t \in UserTasks :
        (t = curr /\ state[t] = RUNNING /\ ~running_in_kernel[t])
            => Bits!GetFirstPendingSig(pending[t]) = -1

\* The running user task, when it executes in user mode with the FPU
\* enabled, finds its latest FPU context in the registers, whatever kernel
\* threads and other FPU users ran in between: the lazy save of the
\* outgoing task and the restore of the incoming one in switch_to_task.
RunnerContextLoaded ==
    \A t \in UserTasks :
        (t = curr /\ state[t] = RUNNING /\ ~running_in_kernel[t] /\ fs[t])
            => fpuHw = t

\* A task killed by a signal is reported killed by a signal that was sent
\* to it and reached action_terminate: the pending-bit arithmetic of
\* add_pending_sig / get_first_pending_sig loses or invents no signal.
ExitSignalWasSent ==
    \A t \in UserTasks :
        wstatus[t][1] = "killed" => wstatus[t][2] \in sentTerm[t]

\* A terminating signal pending on a task that is not stopped eventually
\* kills it, unless it is stopped again first: action_terminate wakes a
\* task sleeping on a condition and clears the stop, and process_signals
\* runs on the task's way back to user mode.
PendingSignalDelivered ==
    \A t \in UserTasks :
        (Bits!GetFirstPendingSig(pending[t]) > 0 /\ ~stopped[t])
            ~> (state[t] = ZOMBIE \/ stopped[t])

\* A SIGCONT that reaches a stopped task is not lost: the task eventually
\* resumes (or dies), unless a later stop signal supersedes it.  Spec 4.1:
\* while the task is vfork-suspended the continue is deferred; the code's
\* action_continue() returns without recording it.
ContinueTakesEffect ==
    \A t \in UserTasks :
        contAwaited[t] ~> (~stopped[t] \/ state[t] = ZOMBIE \/ ~contAwaited[t])

\* A user task whose instruction faults does not stay alive at that
\* instruction: the fault's signal (spec 4.4) ends the refaults, as it
\* does under POSIX, where a SIGSEGV, SIGILL or SIGBUS from a fault that
\* is ignored or handled and returned from cannot let the task go on.
FaultingTaskDies ==
    \A t \in UserTasks : faulting[t] # 0 ~> state[t] = ZOMBIE

\* The refinement mapping: the pending words are read as the signal
\* numbers of their set bits, a zombie is a dead task.
Abs == INSTANCE SignalAbstract WITH
           Tasks   <- UserTasks,
           SigNums <- 1 .. NSIG - 1,
           alive   <- [t \in UserTasks |-> state[t] # ZOMBIE],
           pend    <- [t \in UserTasks |-> Bits!SetBitSigs(pending[t])],
           stop    <- [t \in UserTasks |-> stopped[t]],
           status  <- [t \in UserTasks |-> wstatus[t]],
           running <- IF curr \in UserTasks THEN curr ELSE NoTask,
           sent    <- [t \in UserTasks |-> sentTerm[t]],
           calls   <- calls

\* Every step of the detailed model is a step of SignalAbstract or leaves
\* its state alone: a signal sent to another task stays pending until the
\* task dies; a kill outside send_signal2() (process_signals() on the
\* kernel -> user return or in switch_to_task) is by the lowest pending
\* signal; a sender or faulting task killing itself dies by the signal it
\* sent in that call; and nothing touches a zombie's pending set, stop
\* flag or status.
AbstractSignalSpec == Abs!Spec
=============================================================================
