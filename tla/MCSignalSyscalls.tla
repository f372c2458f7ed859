--------------------------- MODULE MCSignalSyscalls -------------------------
EXTENDS SignalSyscalls

\* Word values over two bits, so BLOCK, UNBLOCK and SETMASK all differ.
MCWordVals == {{}, {1}, {1, 2}}

\* Word values over one bit: with mask {1} and set {1}, BLOCK, UNBLOCK and
\* SETMASK give {1}, {} and {1}; with set {} they give {1}, {1} and {}.
MCWordVals1 == {{}, {1}}

\* The default disposition, ignore, and one user handler.
MCHandlers == {"SIG_DFL", "SIG_IGN", "handler"}
=============================================================================
