--------------------------- MODULE MCExceptionHandler ---------------------------
(* ExceptionHandler for TLC: both kinds of breakpoint, which share a type, the *)
(* monitor, and a process that had handlers of its own for two signals.         *)
EXTENDS ExceptionHandler

MCSubsystems == {"software", "hardware", "monitor"}

MCHandles == [software |-> <<"Breakpoint">>,
              hardware |-> <<"Breakpoint", "SingleStep">>,
              monitor  |-> <<"AccessViolation", "BusError">>]

MCForgetful == {"hardware"}

MCOriginal == [SIGSEGV |-> "handler", SIGBUS |-> "ignore",
               SIGTRAP |-> "handler", SIGILL |-> "default"]

MCRequestedTypes == {"Breakpoint", "Unknown"}
================================================================================
