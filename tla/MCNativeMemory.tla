----------------------------- MODULE MCNativeMemory -----------------------------
EXTENDS NativeMemory

CONSTANTS t1, t2, p1, p2

MCThreads == {t1, t2}
MCPages   == {p1, p2}

\* The two signals are handled differently, the second by killing the process.
MCOwn == [SIGSEGV |-> "handler", SIGBUS |-> "default"]

MCFailures == {"first", "second"}
MCRules    == AllRules
================================================================================
