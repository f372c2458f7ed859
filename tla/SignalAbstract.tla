--------------------------- MODULE SignalAbstract ---------------------------
(***************************************************************************)
(* What the signal delivery engine promises (spec.md 4.5 and 5), with no  *)
(* bitmask, scheduler, wait object or CPU: each task has a set of pending *)
(* signal numbers, a job-control stop flag and a status.                  *)
(*  - every kill(), fault signal or sigaction() is one call, counted;    *)
(*  - a terminating signal a call sends to another task is added to its   *)
(*    pending set (and may end its stop); it is never lost while the      *)
(*    task lives;                                                         *)
(*  - a task dies either in the call that sends a terminating signal to   *)
(*    it while it is the one running, by that very signal, or, in a step  *)
(*    that is no call, by the LOWEST-numbered signal in its pending set;  *)
(*  - stop and continue are calls that change only the stop flag and the  *)
(*    status; any other call changes nothing here;                        *)
(*  - a dead task's state never changes again.                            *)
(***************************************************************************)
EXTENDS Naturals, FiniteSetsExt

CONSTANTS
    Tasks,      \* the user tasks
    SigNums,    \* the signal numbers 1 .. _NSIG-1
    NoTask      \* no user task is the current one

VARIABLES
    alive,      \* the task is not a zombie
    pend,       \* its pending signal numbers
    stop,       \* job-control stop in effect
    status,     \* <<kind, signal>> as a parent's wait would report it
    running,    \* the user task the CPU runs, or NoTask
    sent,       \* the terminating signals sent to the task so far
    calls       \* the calls made so far

vars == <<alive, pend, stop, status, running, sent, calls>>

Init ==
    /\ alive = [t \in Tasks |-> TRUE]
    /\ pend = [t \in Tasks |-> {}]
    /\ stop = [t \in Tasks |-> FALSE]
    /\ status = [t \in Tasks |-> <<"none", 0>>]
    /\ running \in Tasks \cup {NoTask}
    /\ sent = [t \in Tasks |-> {}]
    /\ calls = 0

\* One more call; Sent(t, s) also records that it sent s to t.
Call == calls' = calls + 1
Sent(t, s) == sent' = [sent EXCEPT ![t] = @ \cup {s}]

\* The CPU passes to another task (or to a kernel thread).
Dispatch ==
    /\ running' \in (Tasks \cup {NoTask}) \ {running}
    /\ UNCHANGED <<alive, pend, stop, status, sent, calls>>

\* A call that changes none of the above: an ignored or misdirected
\* signal, a continue that does not apply, a sigaction.
NoEffect ==
    /\ Call
    /\ UNCHANGED <<alive, pend, stop, status, running, sent>>

\* A call posts a terminating signal to a living task; it may clear the
\* stop.
Post(t, s) ==
    /\ Call /\ alive[t] /\ Sent(t, s)
    /\ pend' = [pend EXCEPT ![t] = @ \cup {s}]
    /\ stop' \in {stop, [stop EXCEPT ![t] = FALSE]}
    /\ UNCHANGED <<alive, status, running>>

\* A call sends a terminating signal to the running task: it dies by it.
KillNow(t, s) ==
    /\ Call /\ alive[t] /\ running = t /\ Sent(t, s)
    /\ alive' = [alive EXCEPT ![t] = FALSE]
    /\ status' = [status EXCEPT ![t] = <<"killed", s>>]
    /\ UNCHANGED <<pend, stop, running>>

\* Outside any call, the task dies by its lowest pending signal.
Deliver(t) ==
    /\ UNCHANGED calls
    /\ alive[t] /\ pend[t] # {}
    /\ alive' = [alive EXCEPT ![t] = FALSE]
    /\ status' = [status EXCEPT ![t] = <<"killed", Min(pend[t])>>]
    /\ UNCHANGED <<pend, stop, running, sent>>

Stop(t, s) ==
    /\ Call /\ alive[t]
    /\ stop' = [stop EXCEPT ![t] = TRUE]
    /\ status' = [status EXCEPT ![t] = <<"stopped", s>>]
    /\ UNCHANGED <<alive, pend, running, sent>>

Continue(t) ==
    /\ Call /\ alive[t]
    /\ stop' = [stop EXCEPT ![t] = FALSE]
    /\ status' = [status EXCEPT ![t] = <<"continued", 0>>]
    /\ UNCHANGED <<alive, pend, running, sent>>

Next ==
    \/ Dispatch
    \/ NoEffect
    \/ \E t \in Tasks :
          \/ Deliver(t) \/ Continue(t)
          \/ \E s \in SigNums : Post(t, s) \/ KillNow(t, s) \/ Stop(t, s)

Spec == Init /\ [][Next]_vars
=============================================================================
