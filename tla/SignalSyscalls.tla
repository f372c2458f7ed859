---------------------------- MODULE SignalSyscalls --------------------------
(***************************************************************************)
(* The two signal syscalls of kernel/signal.c that copy to and from user *)
(* memory, for one process and one valid signal number:                    *)
(*  - sys_rt_sigprocmask(): the blocked mask pi->sa_mask,                  *)
(*    K_SIGACTION_MASK_WORDS words, queried into the caller's oldset       *)
(*    buffer and updated from its set buffer one word at a time;           *)
(*  - sys_rt_sigaction(): the disposition pi->sa_handlers[signum - 1],     *)
(*    queried into the caller's oldact buffer and replaced by act.         *)
(* The validation of signum is modelled in Signal.                        *)
(*                                                                         *)
(* Words are abstracted as in SignalBits (the set of their 1-bits).  User *)
(* memory is the oldset buffer, BufWords words long; the set buffer's     *)
(* contents are an input of each call.  A copy from or to user memory may *)
(* fault; FaultWords are the set words whose copy may fault.              *)
(*                                                                         *)
(* refMask, refHandler, refOld and refOldact are history variables: what *)
(* an all-or-nothing implementation with POSIX semantics would leave.     *)
(***************************************************************************)
EXTENDS Integers

CONSTANTS
    NBITS, MASK_WORDS, NSIG,
    WordVals,      \* the word values a set buffer may hold
    Sizes,         \* sigsetsize values passed, in words
    FaultWords,    \* indexes of set words whose copy_from_user may fault
    AliasSetOld,   \* TRUE: the caller may pass the same buffer as set and oldset
    Junk,          \* kernel bytes that follow pi->sa_mask in struct process
    Handlers,      \* the handler values act may carry (SIG_DFL among them)
    OldactFaults   \* TRUE: the copy of oldact out to the caller may fault

Bits == INSTANCE SignalBits

BufWords == 0 .. MASK_WORDS    \* the oldset buffer, one word wider than sa_mask
NoFault == -1
Hows == {"SIG_BLOCK", "SIG_UNBLOCK", "SIG_SETMASK", "invalid"}

ASSUME /\ \A n \in Sizes : n \in MASK_WORDS .. MASK_WORDS + 1
       /\ FaultWords \subseteq Bits!Words
       /\ AliasSetOld \in BOOLEAN /\ OldactFaults \in BOOLEAN
       /\ "SIG_DFL" \in Handlers

\* The caller's oldact buffer before any call writes it.
Garbage == "garbage"

VARIABLES sa_mask, handler, uold, uoldact, ret,
          refMask, refHandler, refOld, refOldact

vars == <<sa_mask, handler, uold, uoldact, ret,
          refMask, refHandler, refOld, refOldact>>

Init ==
    /\ sa_mask = Bits!EmptyMask
    /\ uold \in [BufWords -> WordVals]
    /\ handler = "SIG_DFL"
    /\ uoldact = Garbage
    /\ ret = "OK"
    /\ refMask = sa_mask
    /\ refHandler = handler
    /\ refOld = uold
    /\ refOldact = uoldact

\* The oldset buffer after copy_to_user(user_oldset, pi->sa_mask,
\* sigsetsize) (lines 405-410): sigsetsize words are read from sa_mask on,
\* the ones past its end from the rest of struct process.
CopyOldOut(size) ==
    [i \in BufWords |-> IF i < MASK_WORDS THEN sa_mask[i]
                        ELSE IF i < size THEN Junk ELSE uold[i]]

\* Mutant: the zero padding of the excess is skipped.
PadOldsetNoPad(buf, size) == buf

\* Lines 412-424: the part of a wider oldset past sa_mask is overwritten
\* with zero_page (this copy covers bytes the first one already wrote, so
\* it cannot fault when that one did not).
PadOldset(buf, size) ==
    IF size > MASK_WORDS
    THEN [i \in BufWords |-> IF i >= MASK_WORDS /\ i < size THEN {} ELSE buf[i]]
    ELSE buf

\* Mutant: SIG_UNBLOCK clears the bits the caller did not name.
ApplyWordUnblockNoNegate(how, m, w) ==
    CASE how = "SIG_BLOCK"   -> m \cup w
      [] how = "SIG_UNBLOCK" -> m \cap w
      [] how = "SIG_SETMASK" -> w

\* Lines 442-458: the switch on how for one word.
ApplyWord(how, m, w) ==
    CASE how = "SIG_BLOCK"   -> m \cup w
      [] how = "SIG_UNBLOCK" -> m \ w
      [] how = "SIG_SETMASK" -> w

\* Lines 427-460: the loop over the set words.  Word i is copied in, then
\* applied; a faulting copy returns -EFAULT and an invalid how -EINVAL,
\* leaving the words before i updated.  faultAt is the first word whose
\* copy faults (NoFault: none).
ApplySetWords(how, src, faultAt) ==
    LET stop == IF faultAt = NoFault THEN MASK_WORDS ELSE faultAt
    IN  IF how = "invalid" /\ stop > 0
        THEN <<sa_mask, "EINVAL">>
        ELSE << [i \in Bits!Words |->
                   IF i < stop THEN ApplyWord(how, sa_mask[i], src[i])
                   ELSE sa_mask[i]],
                IF faultAt = NoFault THEN "OK" ELSE "EFAULT" >>

\* The POSIX result of a successful call: BLOCK adds, UNBLOCK removes,
\* SETMASK replaces, whole-mask at once.
PosixMask(how, m, s) ==
    [i \in Bits!Words |-> CASE how = "SIG_BLOCK"   -> m[i] \cup s[i]
                            [] how = "SIG_UNBLOCK" -> m[i] \ s[i]
                            [] how = "SIG_SETMASK" -> s[i]]

\* sys_rt_sigprocmask(how, user_set, user_oldset, sigsetsize).  hasSet and
\* hasOld: the pointers are non-NULL; alias: both name the oldset buffer,
\* otherwise set holds the set buffer's words.
SysRtSigprocmask(how, set, hasSet, hasOld, alias, size, oldFault, faultAt) ==
    LET old    == PadOldset(CopyOldOut(size), size)
        uold1  == IF hasOld /\ ~oldFault THEN old ELSE uold
        src    == IF alias THEN [i \in Bits!Words |-> uold1[i]] ELSE set
        result == ApplySetWords(how, src, faultAt)
        wanted == IF alias THEN [i \in Bits!Words |-> uold[i]] ELSE set
    IN  /\ alias => hasSet /\ hasOld
        /\ IF hasOld /\ oldFault
           THEN /\ ret' = "EFAULT"
                /\ UNCHANGED <<sa_mask, uold>>
           ELSE /\ uold' = uold1
                /\ IF hasSet
                   THEN /\ sa_mask' = result[1]
                        /\ ret' = result[2]
                   ELSE /\ ret' = "OK"
                        /\ UNCHANGED sa_mask
        /\ refOld' = IF hasOld /\ ret' = "OK"
                     THEN [i \in BufWords |-> IF i < MASK_WORDS THEN sa_mask[i]
                                              ELSE IF i < size THEN {}
                                              ELSE uold[i]]
                     ELSE uold'
        /\ refMask' = IF hasSet /\ ret' = "OK" /\ how # "invalid"
                      THEN PosixMask(how, sa_mask, wanted)
                      ELSE sa_mask
        /\ UNCHANGED <<handler, uoldact, refHandler, refOldact>>

\* sigaction_int(signum, user_act) (lines 306-348): act is copied in (it
\* may fault), the four unsupported flags are rejected, the other flags
\* ignored, and the handler installed.  Returns <<handler, rc>>.
SigactionInt(act, actFault, flagsOk) ==
    CASE actFault -> <<handler, "EFAULT">>
      [] ~flagsOk -> <<handler, "EINVAL">>
      [] OTHER    -> <<act, "OK">>

\* sys_rt_sigaction(signum, user_act, user_oldact, sigsetsize) for a
\* valid signum (lines 350-394): the old disposition is read, then
\* sigaction_int installs act, then the old one is copied out, which may
\* fault after act is installed.
SysRtSigaction(act, hasAct, hasOld, actFault, flagsOk, sizeOk, oldFault) ==
    LET old    == [handler |-> handler, mask |-> sa_mask]
        result == IF hasAct THEN SigactionInt(act, actFault, flagsOk)
                  ELSE <<handler, "OK">>
        copied == result[2] = "OK" /\ hasOld /\ ~oldFault
    IN  /\ oldFault => hasOld /\ OldactFaults
        /\ IF ~sizeOk
           THEN /\ ret' = "EINVAL"
                /\ UNCHANGED <<handler, uoldact>>
           ELSE /\ handler' = result[1]
                /\ uoldact' = IF copied THEN old ELSE uoldact
                /\ ret' = IF result[2] = "OK" /\ hasOld /\ oldFault
                          THEN "EFAULT" ELSE result[2]
        /\ refHandler' = IF hasAct /\ ret' = "OK" THEN act ELSE handler
        /\ refOldact' = IF hasOld /\ ret' = "OK" THEN old ELSE uoldact'
        /\ UNCHANGED <<sa_mask, uold, refMask, refOld>>

Next ==
    \/ \E how \in Hows, set \in [Bits!Words -> WordVals],
          hasSet, hasOld, oldFault \in BOOLEAN,
          alias \in IF AliasSetOld THEN BOOLEAN ELSE {FALSE},
          size \in Sizes, faultAt \in FaultWords \cup {NoFault} :
           SysRtSigprocmask(how, set, hasSet, hasOld, alias, size, oldFault, faultAt)
    \/ \E act \in Handlers, hasAct, hasOld, actFault, flagsOk, sizeOk, oldFault \in BOOLEAN :
           SysRtSigaction(act, hasAct, hasOld, actFault, flagsOk, sizeOk, oldFault)

Spec == Init /\ [][Next]_vars

TypeOK ==
    /\ sa_mask \in [Bits!Words -> SUBSET (UNION WordVals)]
    /\ uold \in [BufWords -> (SUBSET (UNION WordVals)) \cup {Junk}]
    /\ handler \in Handlers
    /\ uoldact \in {Garbage} \cup
           [handler : Handlers, mask : [Bits!Words -> SUBSET (UNION WordVals)]]
    /\ ret \in {"OK", "EFAULT", "EINVAL"}

\* Each signal syscall changes the process's signal state as one
\* operation: a call that fails leaves the mask and the disposition as
\* they were, and a call that succeeds applies BLOCK, UNBLOCK or SETMASK
\* with the set the caller passed, or installs act (spec 7: a fault
\* during user memory access turns the whole operation into that error
\* rather than partially applying changes).
StateAsRequested == sa_mask = refMask /\ handler = refHandler

\* After a successful query the oldset buffer holds the mask as it was
\* before the call, and the part of a wider buffer past sa_mask reads as
\* zero, never as the kernel bytes the first copy took past sa_mask; the
\* oldact buffer holds the disposition and mask from before the call,
\* not the act that call installed.
OldValuesAsRequested == uold = refOld /\ uoldact = refOldact
=============================================================================
