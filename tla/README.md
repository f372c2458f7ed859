# TLA+ models of Tilck's signal delivery, task switch and kernel-thread creation

This directory holds TLA+ specifications of the parts of Tilck under `src/`
that have state and concurrency:

- `src/kernel/signal.c`: signal sending, default actions, delivery and the
  sigaction/sigprocmask syscalls;
- `src/unnamed/part_000`: the riscv architecture code, which covers kernel
  thread creation, `switch_to_task`, the FPU helpers and the fault handlers;
- `src/include/tilck/common/utils.h`: the bit-scan, log2 and round-up helpers.
- `src/modules/debugpanel/termutil.c`: the debug panel's scrolled text
  output and rectangle drawing.

It also holds the TLC configurations that check these specifications.
`PROJECT.json` lists the components, runs, mutants, the mapping from each
definition to source lines, the findings and the hazards.

## 1. Inventory

### Components, their state and operations

**Pending-signal bitmask** (`signal.c:20-76`, `utils.h:68-104`)
- **State:** `ti->pending_signals[K_SIGACTION_MASK_WORDS]`, an array of ulong words.
- **Operations:**
  - `add_pending_sig`, `del_pending_sig`, `is_pending_sig`;
  - `get_first_pending_sig`, which uses `get_first_set_bit_index{,64}`.
- Signal `s` is stored at bit `(s-1) % NBITS` of word `(s-1) / NBITS`.
- The mask is built as `1 << index`, where `1` is an `int`.

**Signal delivery engine** (`signal.c:78-297`)
- **State per task:**
  - `state`: RUNNABLE / RUNNING / SLEEPING / ZOMBIE;
  - `stopped` and `vfork_stopped`;
  - `wobj.type`: what a sleeping task waits on;
  - the pending mask;
  - `running_in_kernel`.
- **State per process:** `sa_handlers[]`.
- **Operations:**
  - `send_signal2`, which validates the target and then calls `do_send_signal`;
  - `do_send_signal`, which treats SIG_IGN and custom handlers as ignore, and otherwise runs the default-action table entry (terminate if the entry is missing);
  - `action_terminate`, `action_ignore`, `action_stop`, `action_continue`;
  - `process_signals`, which kills the current task with its first pending signal.

**Signal syscall surface** (`signal.c:305-478`)
- `sys_rt_sigaction` / `sigaction_int`: validation, copy-in, rejection of unsupported flags, installing the handler, copying `oldact` out.
- `sys_rt_sigprocmask`: copies out the old mask, then applies the new one word by word with BLOCK / UNBLOCK / SETMASK.
- `sa_mask` is stored but never consulted by delivery.

**Context switch engine** (`part_000:149-218`)
- `switch_to_task(ti)` does these steps in order:
  1. marks `ti` RUNNING;
  2. lazily saves the outgoing user task's FPU registers;
  3. switches the page directory for user tasks;
  4. runs `process_signals` for a task resuming in user mode;
  5. restores the incoming task's FPU registers;
  6. resets the kernel stack and the nested-interrupt bookkeeping, calls `set_curr_task`, and calls `context_switch`.

**Kernel thread factory** (`part_000:70-131`)
- `kthread_create2` proceeds as follows:
  1. disables preemption and takes a kernel tid;
  2. allocates the task;
  3. builds the initial register frame;
  4. publishes the task with `add_task`;
  5. re-enables preemption.
- The preemption-disable depth is one global counter. `KThread` therefore also composes the signal path whose ASSERT reads it: a user task that sends itself a terminating signal. In that path, `send_signal2` disables preemption, and `action_terminate` re-enables it, asserts that it is enabled (`signal.c:104`) and calls `terminate_process`. The history variable `term_depth` records the depth that ASSERT saw.

**Register context and FPU setup** (`part_000:40-68`, `133-162`, `220-297`)
- `setup_sig_handler`, `setup_usermode_task_regs`.
- `arch_specific_new_task_setup` copies no FPU state:
  - With `FORK_NO_COW`, it zeroes a forked task's arch fields. It clears an existing FPU buffer, or allocates one for a user task; kernel threads get none.
  - Without `FORK_NO_COW`, it zeroes the arch fields on fork (leaving no buffer) and frees the buffer on execve. The buffer then comes from code outside `src/`.
  - `Signal`'s `HasFpuBuf` (every user task has a buffer) is the `FORK_NO_COW` case.
- The free and process-setup hooks.

**Fault bridge** (`part_000:299-330`)
- A fault in a kernel thread panics.
- A fault in a user task sends SIGSEGV, SIGILL or SIGBUS through `handle_fatal_error`.

**Bit helpers** (`utils.h:12-92`)
- `log2_for_power_of_2`, `roundup_next_power_of_2`, `get_first_zero_bit_index{,64}`: pure functions of a word, with 32-bit literals and `#ifdef BITS64` lines.
- `pow2_round_up_at` and `round_up_at` (and their 64-bit twins) round up with uptr arithmetic that wraps at the word width.

**Debug panel terminal utilities** (`src/modules/debugpanel/termutil.c`)
- `dp_write(row, col, ...)` first raises `dp_ctx->row_max` to the row. It then drops a row scrolled off the top (`relrow < row_off`) or past `dp_end_row - 2`, shifts the row up by `row_off`, moves the cursor and writes the text.
- `dp_draw_rect_raw` draws a border with cursor moves and glyphs and does no scrolling. `dp_draw_rect` draws it through `dp_write`, so it is scrolled and clipped, and writes its label after `GFX_OFF`.
- The other helpers write one escape sequence each (cursor moves, colours, screen buffers).

### How they interact

- Delivery writes the pending mask, the task state and the stop flags of a target task.
- The context switch and the syscall-return path read the mask through `process_signals`. A pending signal is acted upon only there, so delivery and consumption are separated by scheduling.
- The fault bridge is a sender of signals.
- The thread factory feeds the scheduler and the context switch.
- Sigaction decides which branch of `do_send_signal` a later signal takes.

### Hard behaviours

- Signals sent by other tasks or by interrupt handlers interleave with preemption, sleeping on mutexes, semaphores and conditions, vfork suspension, stop and continue.
- `switch_to_task` can be diverted halfway: `process_signals` does not return when it kills.
- The lazy FPU save/restore depends on which tasks and kernel threads ran in between.
- Error paths that skip the cleanup of a lock-like counter (preemption).
- Integer width in the bitmask.

### Correctness properties per component

**Bitmask**
- The signals the mask reports are exactly those added and not removed.
- The first pending signal is the lowest one.

**Delivery**
- No user task runs in user mode with a signal pending.
- A killed task was killed by a signal that was sent to it.
- A pending kill is eventually delivered.
- A continue is not lost.

**Context switch**
- The running user task finds its own latest FPU context in the registers.

**Thread factory**
- Preemption is restored on every return. This is checked by its consequence: the ASSERT of `action_terminate` holds on a later self-kill.
- A created thread eventually runs.

**Signal syscalls**
- The mask update and the handler install are all-or-nothing and have POSIX meaning, whatever the caller passes.
- The oldset and oldact hold the values from before the call, and the part of a wider oldset reads as zero.

**Debug panel** (`termutil.c`)
- Both rectangle functions draw the border: corners last on their cells, line-drawing set off afterwards, clipped rows hidden.
- Scrolling can always reach a clipped row.

**Bit helpers** (`utils.h`)
- `log2_for_power_of_2` and `roundup_next_power_of_2` match their definitions at every bit boundary of the word, on 32-bit and 64-bit builds.
- The assertion of `get_first_zero_bit_index64` admits exactly the words that have a zero bit.
- The round-up helpers return the least multiple of the unit that is at least n, within each one's range.

**Fault bridge**
- A task whose user instruction faults eventually dies.

**The whole delivery engine against its promise**
- Every step refines `SignalAbstract`.

## 2. Modules

| module | models | composes |
|---|---|---|
| `SignalBits` | the pending-mask operators as pure operators. A word is the set of its 1-bits; `IntShiftMask` is what the build computes for `1 << index`. | — |
| `MCSignalBits` | checks `SignalBits` against a reference set over every sequence of add/del calls, and the `BitUtils` helpers on an input word `arg` fixed in the initial state. The other initial states each draw one rectangle `rect` of `RectInputs` with `TermUtil`, which is checked against the reference `BorderRef`. | `SignalBits`, `BitUtils`, `TermUtil` |
| `Signal` | tasks, signal delivery, sigaction, `switch_to_task` with lazy FPU/pdir, and the environment: scheduler, syscall entry and return, sleep/wake, vfork | `SignalBits` (`Bits == INSTANCE SignalBits`) |
| `MCSignal` | model values for two user tasks and the idle kernel thread; the symmetry of the user tasks, for the runs that treat them alike | `Signal` |
| `KThread` | `kthread_create2` with tid exhaustion, allocation failure and the preemption gate; the created threads run to exit and are reaped | — |
| `MCKThread` | four kernel tids | `KThread` |
| `SignalAbstract` | what delivery promises: per task a set of pending signal numbers, a stop flag, a status and the terminating signals sent to it, plus a count of calls; death in the call that signals the running task, by that signal, or outside any call by the lowest pending signal | — |
| `SignalSyscalls` | the user-memory side of both signal syscalls for one process and one valid signal. `sys_rt_sigprocmask`: `sa_mask`, the caller's oldset buffer, copy faults per set word, `sigsetsize`, invalid `how`, set and oldset naming one buffer. `sys_rt_sigaction`: the disposition `handler`, the snapshot of the old one, `sigaction_int` (act copy fault, unsupported flags), the oldact copy-out. `refMask`, `refHandler`, `refOld` and `refOldact` are history variables holding the all-or-nothing POSIX result | `SignalBits` |
| `MCSignalSyscalls` | word values over one or two bits; the handlers SIG_DFL, SIG_IGN and one user handler | `SignalSyscalls` |
| `TermUtil` | `dp_write`, `dp_write_internal`, `dp_move_cursor`, `dp_draw_rect_raw` and `dp_draw_rect` as sequences of operations folded over the output state: the written cells (glyph and line-drawing flag), the cursor, the character set and `row_max`. A label of n characters fills n+4 cells. | — |
| `BitUtils` | `log2_for_power_of_2`, `roundup_next_power_of_2` and `get_first_zero_bit_index64` as operators over words as sets of bits; each unsuffixed hex literal is a 32-bit set. The round_up_at family is modelled on numbers of a w-bit word, with every sum taken modulo 2^w and `-u` as 2^w - u. | — |

### How the state of `Signal` corresponds to the code

| variable | code |
|---|---|
| `state`, `stopped`, `vfork_stopped`, `wobj`, `running_in_kernel` | fields of `struct task` |
| `pending` | `pending_signals`, as one `SignalBits` mask per task |
| `sa_handlers` | `pi->sa_handlers`; processes are single-threaded, so pid = tid |
| `curr` | `get_curr_task()` |
| `pdir` | `get_curr_pdir()` |
| `fs` | SR_FS in the task's saved `sstatus` |
| `fpuHw` | whose FPU context the FPU registers hold |
| `fpuSaved[t]` | whether `t`'s `fpu_regs` buffer holds its latest context |
| `wstatus` | the exit and stop status |
| `sentTerm`, `contAwaited` | history variables: the terminating signals sent, and a SIGCONT not yet superseded |
| `calls` | a bound on the number of syscalls (`MaxCalls`) |

The operations map to the code as follows:
- `SendSignal2` is the whole of `send_signal2`, including `do_send_signal` and the chosen action.
- `SwitchToTask` is the whole of `switch_to_task`. The kernel stack, nested interrupts, the timeslice and `timer_ready` are left out because no property reads them.
- `SysRtSigaction` covers both `sys_rt_sigaction` and `sigaction_int`.
- `ProcessSignals` is `process_signals`.
- `FaultInt(t, s)` is a user-mode fault of the running task: `handle_*_fault_int` calling `handle_fatal_error`, which sends `s` with `send_signal`. The variable `faulting` records that the task's next user instruction faults again; `EnterKernel` and `UseFpu` are disabled while it does. `Refault` is the same fault taken again when the trap returns to the instruction.

Modelled from the spec, because their code is not under `src/`:
- the scheduler (`Schedule`);
- `terminate_process`;
- syscall entry and return;
- sleep and wake;
- vfork;
- `Refault`: re-executing the faulting instruction is the trap-return path, outside `src/`.

### The refinement of `SignalAbstract`

`Signal.tla` ends with `Abs == INSTANCE SignalAbstract WITH ...` and checks `AbstractSignalSpec == Abs!Spec`. The mapping:
- `alive[t]` is `state[t] # ZOMBIE`;
- `pend[t]` is `Bits!SetBitSigs(pending[t])`, the signals whose bits are set;
- `stop` is `stopped`, and `status` is `wstatus`;
- `running` is `curr` when it is a user task, and `NoTask` otherwise;
- `sent` is the history `sentTerm`, and `calls` is `calls`.

The call count ties each abstract step to the detailed one. A kill in a step that makes no call (`ReturnToUser`, or `switch_to_task` diverted by `process_signals`) can only be `Deliver`, so it must use the lowest pending signal. A kill in a step that makes a call (a self-kill or a first fault) can only be `KillNow`, so it must use the signal that call sent. A call that changes nothing abstract (an ignored signal, a bad target, a continue to a vfork-suspended task, a sigaction) is `NoEffect`.

The mapping uses the physical bits, not `PendingSet`. On a 64-bit build `is_pending_sig(41)` is true whenever signal 9 is pending, because of the int shift of finding 1. So `PendingSet` reports signals nobody sent, while the bits are what `get_first_pending_sig` scans.

### Two readings of the `process_signals` call

`switch_to_task` calls `process_signals(ti, sig_in_usermode, state)`, but `signal.c` defines `bool process_signals(void)`, which looks at `get_curr_task()`. The constant `ProcessSignalsOn` selects the reading:
- `"argument"`: the incoming task is checked, which is what the call site intends;
- `"curr_task"`: the outgoing task is checked, which is what the definition does.

The passing runs use `"argument"`. Under `"argument"` a diverted switch kills the incoming task, so no task is left RUNNING without being current. Under `"curr_task"`, `terminate_process(0, sig)` ends the outgoing task and the incoming one stays RUNNING while `curr` is the zombie (reported with finding 2).

## 3. Runs

| run | cfg | expect | what it shows |
|---|---|---|---|
| bits_i386 | `MCSignalBits_i386.cfg` | pass | With a 32-bit ulong and 2 words, every add/del sequence over signals {1,2,9,31,32,33,63} keeps the mask equal to the reference set, and `get_first_pending_sig` returns the lowest. On a 32-bit uptr, **Log2Correct** and **RoundupCorrect**: both helpers agree with their definitions on every power of two, run of low ones and 2^k+1. **RectDrawMatchesBorder**: for every rectangle, label and scroll offset, `dp_draw_rect_raw` draws exactly the reference border and `dp_draw_rect` draws its scrolled, clipped view with the label on top. **RowMaxCoversRect**: `row_max` reaches the bottom row even when it is clipped. **RoundUpAtCorrect**: on a 6-bit word, `pow2_round_up_at` returns the least multiple whenever it fits; `round_up_at` does so only while `n + unit - 1` fits. |
| bits_rv64 | `MCSignalBits_rv64.cfg` | violation | With a 64-bit ulong and 1 word, `Add(33)` sets bit 0, so signal 1 is reported (finding 1). |
| signal_delivery | `MCSignal.cfg` | pass | Over all interleavings of kill (including signal 0, bad targets and zombies), sigaction (including faults, unsupported flags and SIGKILL/SIGSTOP rejection), user faults, sleep on the three wait kinds, vfork, stop/continue and preemption, with both user tasks using the FPU and the idle thread running in between: **NoPendingInUserMode**, **ExitSignalWasSent** and **RunnerContextLoaded** hold, every step refines `SignalAbstract` (**AbstractSignalSpec**), and **PendingSignalDelivered**: a pending kill on an unstopped task eventually makes it a zombie, unless it is stopped again. |
| process_signals_curr_task | `MCSignal_currtask.cfg` | violation | With the signal.c definition, a task preempted in user mode is switched back in with a kill pending (finding 2). |
| continue_lost | `MCSignal_cont.cfg` | violation | **ContinueTakesEffect** is violated: vfork, then SIGSTOP to the vfork-suspended task, then SIGCONT (dropped at `signal.c:172`), then the vfork ends, and the task is stopped forever (finding 3). |
| bit_helpers_64 | `MCSignalBits_utils64.cfg` | violation | **WideHelpersMatchReference**: on a 64-bit word `log2_for_power_of_2(2^33)` is 32, and the assertion of `get_first_zero_bit_index64` admits all-ones (finding 8). |
| kthread_create | `MCKThread.cfg` | pass | With creation succeeding, **CreatedThreadRuns** holds, and **TerminateAssertHolds**: a task that kills itself finds the depth back at 0 at `signal.c:104`. |
| kthread_fail_preemption | `MCKThread_fail.cfg` | violation | A failed `kthread_create2` leaks a disable level. The next self-kill then reaches the ASSERT at `signal.c:104` with depth 1 (finding 4). |
| fault_livelock | `MCSignal_fault.cfg` | violation | **FaultingTaskDies**: a task that set SIGSEGV to SIG_IGN and then faults refaults forever (finding 7). |
| signal_syscalls | `MCSignalSyscalls.cfg` | pass | Every sigprocmask call (BLOCK, UNBLOCK, SETMASK, invalid how; set and oldset present or NULL; sigsetsize 2 or 3 words; a fault on the oldset copy or on set word 0) and every sigaction call (act and oldact present or NULL; act copy fault; unsupported flags; bad sigsetsize) leaves **StateAsRequested** and **OldValuesAsRequested** true. |
| sigprocmask_partial | `MCSignalSyscalls_partial.cfg` | violation | A fault on set word 1 returns -EFAULT with word 0 applied; a fault on the oldact copy returns -EFAULT with act installed (finding 5). TLC reports the sigprocmask trace; the sigaction one is at the same depth. |
| sigprocmask_alias | `MCSignalSyscalls_alias.cfg` | violation | With set == oldset the old mask is written over the set before it is read (finding 6). |

Every property of a passing run has a mutant in `PROJECT.json`. A mutant replaces one mapped definition with a plausible bug, and TLC then finds that property violated. The mutants:
- an off-by-one in the sign extension;
- a missing `signum--`;
- a bit scan from the top;
- a stop recorded as a state;
- an inverted `running_in_kernel` test;
- `restore_fpu_regs` dropped for the incoming task;
- a condition sleeper not woken;
- `enable_preemption` dropped on success;
- `enable_preemption` dropped in `action_terminate`;
- SIG_UNBLOCK intersecting instead of removing;
- two shift amounts of `log2_for_power_of_2` swapped;
- the `v--` of `roundup_next_power_of_2` left out;
- the oldset's zero padding skipped;
- the top-right corner drawn before the top edge loop in `dp_draw_rect`;
- `row_max` raised only for rows `dp_write` draws;
- the `- 1` left out of `pow2_round_up_at`.

The bit scan from the top also breaks the refinement.

### Findings

1. **`1 << index` is an int shift** (`signal.c:31`, also lines 43 and 57). On a 64-bit build:
   - signals 33–63 alias signals 1–31;
   - signal 32 sets bits 31..63.

   On i386 the model shows the arithmetic is exact. The aliasing also makes `is_pending_sig(41)` true once signal 9 is pending.
2. **`process_signals` signature mismatch** (`part_000:196` against `signal.c:78`). The definition in `src/` examines the outgoing task. So a task switched to with a kill pending runs in user mode with it (**NoPendingInUserMode** is violated). When the outgoing task has a kill pending, the switch ends the outgoing task and leaves the incoming one RUNNING without being current.
3. **SIGCONT to a vfork-suspended task is dropped** (`signal.c:172`). spec.md §4.1 says it is deferred. A stopped task is never scheduled, so it cannot vfork; the trace is: the task vforks, a SIGSTOP reaches it while it is vfork-suspended, the SIGCONT is dropped, the vfork ends, and the task stays stopped forever.
4. **`kthread_create2` error paths leak a preemption-disable level** (`part_000:89`, `:95`). Both jump to `end:` past `enable_preemption()`. Because the counter is global, the next task that sends itself a terminating signal fails `ASSERT(is_preemption_enabled())` at `signal.c:104`. In a release build it terminates with preemption disabled instead.
5. **The signal syscalls apply part of a failed call** (`signal.c:439`, `:389`). sigprocmask applies each set word as soon as it is copied in, so a fault on a later word returns -EFAULT with the earlier words applied. sigaction installs act (line 382) before it copies oldact out, so a fault there returns -EFAULT with the new handler in place. spec.md §7 says a fault during user memory access turns the whole operation into that error rather than partially applying it; §9 leaves the sigprocmask policy open. The run's trace shows the sigprocmask case. The sigaction case is reached one step from Init once the set-word faults are turned off (`FaultWords = {}`).
6. **sigprocmask with set == oldset ignores the set** (`signal.c:405-437`). The old mask is copied out before the set is read, so the call applies the old mask. Linux reads the set first; the spec does not say.
7. **A fault whose signal is ignored livelocks** (`part_000:302`). `handle_fatal_error` only sends the signal. If the process set SIGSEGV to SIG_IGN, or installed a handler (which `do_send_signal` treats as ignore), the trap returns to the instruction and it faults again forever. spec.md §4.4 only says the signal is sent; Linux forces the default action.
8. **The 64-bit bit helpers use 32-bit literals** (`utils.h:16-25`, `:85`). On a BITS64 build `log2_for_power_of_2` masks with `0xAAAAAAAA` etc., which are zero-extended, so powers of two above 2^32 get a wrong log2 (2^33 gives 32). `get_first_zero_bit_index64` asserts `num != ~0U`, which is 0xFFFFFFFF: it rejects a valid word and admits all-ones, for which it returns 64. No caller under `src/` uses them. The run's trace shows the log2 case. With `Log2Correct` left out of the property, TLC reports the assertion rejecting 0xFFFFFFFF.

## 4. Bounds, fairness and assumptions

**Bitmask runs**
- They explore every sequence over 7 signals (i386) or 4 signals (rv64).
- The signals are chosen at the word and sign boundaries: 31, 32, 33 and 63.
- The reference set makes the i386 result complete for those signals.

**`MCSignal*` task set**
- Two user tasks and the idle kernel thread.
- Two tasks are enough for every sender/target pair: self, other, and the kernel-thread target that is rejected.
- Two tasks are also enough for a vfork parent with a concurrent sender.

**`MCSignal*` signals**
- The signals are 9, 15, 17, 18 and 19: one for each default action (terminate, terminate-by-table-fallback, ignore, continue, stop).
- The sigaction signals are 9 (rejected), 15 and 64 (out of range).

**`MaxCalls`**
- `MaxCalls` (2 for `MCSignal.cfg`, which also has two FPU users, the refinement and liveness; 3 for `continue_lost`; 2 for `fault_livelock`; 4 for `process_signals_curr_task`) bounds kill and sigaction syscalls together. This is enough for the sequences in the counterexamples: stop, kill, continue, and handler changes. Two calls give two pending signals, which the lowest-first delivery of the refinement needs. User faults are not counted after the first.
- The scheduler, sleep/wake and vfork steps are unbounded.

**Symmetry**
- Symmetry over the user tasks is used only in safety runs that treat t1 and t2 alike. `MCSignal.cfg` uses none, because it checks liveness.

**Fairness** (in `Signal`)
- The round-robin scheduler gives every runnable task the CPU: `SF` on `Schedule(t)`. It is strong because preemption can disable the target in between.
- A task in the kernel gets back to user mode: `SF` on `ReturnToUser`.
- Mutex and semaphore holders release them: `WF` on `WakeLock`.
- A vfork child eventually execs or exits: `WF` on `VforkResume`.
- A faulting instruction is executed again: `SF` on `Refault(t)`. The CPU runs the running task's next instruction whenever it is in user mode, and the task is in user mode infinitely often under the scheduler fairness.
- Conditions and `kernel_sleep` get no fairness, because nothing in the code guarantees their wake-up.
- In `KThread`, `WF` on `RunToExit`: a runnable kernel thread is eventually scheduled when switching is enabled.
- `MCKThread.cfg` sets `CHECK_DEADLOCK FALSE`. The kernel always has the idle task to run, so a state with no modelled step is the idle loop, not a halt.

**`MCSignalBits` helper inputs**
- `arg` ranges over every power of two, every run of low one bits `0..k-1` (0, ~0U and all-ones among them) and every `2^k+1`, at each bit position of the word: every boundary of the three helpers.

**`MCSignalBits` round-up inputs**
- `unit` ranges over 1..63, and every n of a 6-bit word is checked against it. The wrap behaves the same at every width, and 6 bits keep `Bitwise`'s `&` cheap.
- The range of `round_up_at` is narrower than the range of its result. With a unit that is not a power of two, an n within unit-1 of the top makes the sum wrap, and the result is 0. On 32 bits, `round_up_at(2^32-2, 3)` returns 0 instead of 2^32-1. TLC finds this at unit 3, n = 62 when the precondition is dropped. No caller under `src/` uses these helpers, so this is recorded as a hazard, not a finding.

**`MCSignalBits` rectangles**
- The panel spans screen rows 1-5, so rows 1-3 are shown, and it starts at column 1.
- `RectInputs` combines:
  - labels: none, or of length 0 or 1;
  - rows 1-3 and columns 1-2;
  - sizes 2-4 by 2-4;
  - scroll offsets 0-2.
- The rectangles therefore start and end above, inside and below the window. There are rectangles with no sides (h = 2) or no edge glyphs (w = 2), and labels that run past the right corner.
- Column 0 is left out. The cursor escapes are 1-based, and `dp_write` reads col 0 as "the panel's text column".

**`MCSignalSyscalls*`**
- i386 layout: 32-bit words, 2 mask words, so the loop, the fault on a later word and the wider oldset all occur.
- Word values {} and {1} in the passing run (with mask {1}, BLOCK, UNBLOCK and SETMASK already differ), {}, {1} and {1,2} in the violation runs. One bit keeps the passing run small: the oldact buffer holds a copy of the whole mask.
- `sigsetsize` of 2 words (exact) or 3 (wider than `sa_mask`); the oldset buffer has 3 words.

**Assumptions about code outside `src/`**
- `_NSIG = 64` and `K_SIGACTION_MASK_WORDS = _NSIG / (8 * sizeof(ulong))`, from the Linux ABI headers.
- An interruptible wait (condition, `kernel_sleep`) is not entered with a signal pending. It returns `-EINTR` instead, as the kernel's wait code does.
- `terminate_process` makes the task a zombie with status "killed by sig".

## 5. Not modelled, and plan for later work

- **The preemption depth in `Signal`**: `Signal` runs every preemption-disabled path as one atomic step. The depth is modelled only in `KThread`, on the kill-self path from a syscall. The fault path enters `send_signal` from trap-entry code that is not under `src/`.
- **Kernel-thread faults**: they panic and halt the machine.
- **The blocked mask at delivery** (`signal.c:84`): neither `process_signals` nor spec.md §4.5 consults `sa_mask`, so `SignalSyscalls` and `Signal` are not composed.
- **SIGKILL against a later SIGSTOP:** a liveness property on the precedence between them.
- **`setup_sig_handler`**, **`setup_usermode_task_regs`** (SR_FS not set) and the buffer lifecycle of `arch_specific_new_task_setup` / `arch_specific_free_task` across fork and execve. Without `FORK_NO_COW` the buffer a task uses is allocated by code outside `src/`, so the lifecycle cannot be told from the sources here.
- **The rest of `termutil.c`**: `rev_colors` (reverse video through the colour argument on a video tty, or through escapes on a serial one), the one-line escape helpers and `vsnprintk` formatting. They are terminal output with no kernel state behind them.
- **`get_first_zero_bit_index`**: its loop is its own reference; **`crc32`**: only declared.
