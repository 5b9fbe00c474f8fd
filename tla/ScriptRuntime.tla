------------------------------ MODULE ScriptRuntime ------------------------------
(****************************************************************************)
(* script.cc: a runtime owns a JavaScript context; before the context goes,   *)
(* by reset() or with the runtime, cleanup() takes back what its scripts have *)
(* put into the process: breakpoints, hooks, monitors, the exception handler  *)
(* they all count on, and their callbacks.  NativeCallbacks (native_ffi.cc)   *)
(* are what it does not take back.  Of each of the other kinds there is one;  *)
(* how they work is the matter of their own modules.                          *)
(****************************************************************************)
EXTENDS ForeignValues, FiniteSets

CONSTANTS
  Threads,     \* threads of the program, which run into hooks and call callbacks
  Objects,     \* NativeCallback objects of the scripts
  Addresses,   \* places of closures, used again when they are free
  Values,      \* values the program passes to callbacks
  MaxContexts, \* bound on the contexts the runtime goes through
  MaxCalls,    \* bound on the calls of the scripts
  Refusing,    \* kinds whose removal the system may refuse
  Rules        \* the rules the user of the API keeps to

\* What a script installs, in the order cleanup() removes it.
Kinds   == {"monitor", "hw", "sw", "hooks"}
Trapped == {"monitor", "hw", "sw"}   \* kinds that need the exception handler

\* "quiet": no callback runs while its NativeCallback is destroyed or the context goes.
\* "destroyed": scripts destroy their NativeCallbacks before the context goes.
\* "once": a NativeCallback is destroyed once.
\* "no-early-disable": disable() is called when nothing needs the exception handler.
AllRules == {"quiet", "destroyed", "once", "no-early-disable"}

ASSUME RuntimeConstants ==
  /\ MaxContexts \in Nat /\ MaxCalls \in Nat /\ Values \subseteq Int
  /\ Refusing \subseteq {"sw", "hooks"} /\ Rules \subseteq AllRules /\ "none" \notin Objects

VARIABLES
  context,   \* the number of the context, 0 if there is none
  host,      \* the next call of cleanup(), or "running", "clean", "gone", "terminated"
  ending,    \* what cleanup() is for: "reset" or "destructor"
  armed,     \* of each kind: the context whose callback it holds, or 0
  counted,   \* kinds whose handlers are registered and counted by refEnable()
  leaked,    \* references nobody will give back
  enabled,   \* g_enabled of the exception handler
  installed, \* its signal handlers are in place
  listeners, \* contexts whose callbacks addCallback() holds
  object,    \* of each NativeCallback: where it is and what it holds
  callbacks, \* of each address: the NativeCallback whose closure is there, or "none"
  call,      \* what each thread runs of the scripts
  count      \* calls and contexts so far, for the bounds

runtimeVars == <<context, host, ending>>
handlerVars == <<armed, counted, leaked, enabled, installed, listeners>>
ffiVars     == <<object, callbacks>>
vars        == <<runtimeVars, handlerVars, ffiVars, call, count>>

NewObject == [is |-> "new", at |-> "none", of |-> 0, type |-> "none"]
NoCall    == [in |-> "program", of |-> 0, by |-> "none", type |-> "none",
              value |-> 0, data |-> 0]

Init ==
  /\ context = 0 /\ host = "gone" /\ ending = "reset"
  /\ armed = [k \in Kinds |-> 0] /\ counted = {} /\ leaked = 0
  /\ enabled = FALSE /\ installed = FALSE /\ listeners = {}
  /\ object = [o \in Objects |-> NewObject]
  /\ callbacks = [a \in Addresses |-> "none"]
  /\ call = [t \in Threads |-> NoCall]
  /\ count = [calls |-> 0, contexts |-> 0]

References == Cardinality(counted) + leaked

--------------------------------------------------------------------------------
(* The exception handler, by the kinds that count on it *)

\* refEnable() for one more reference.
RefEnable ==
  /\ enabled'   = (enabled \/ References = 0)
  /\ installed' = (installed \/ (References = 0 /\ ~enabled))

Script ==
  /\ host = "running" /\ count.calls < MaxCalls
  /\ count' = [count EXCEPT !.calls = @ + 1]

\* set(), attach() or enable() of a monitor.  The handlers are registered once per kind.
Ensured(k) ==
  IF k \in Trapped \ counted
  THEN counted' = counted \union {k} /\ RefEnable
  ELSE UNCHANGED <<counted, enabled, installed>>

Set(k) ==
  /\ Script /\ armed[k] = 0
  /\ armed' = [armed EXCEPT ![k] = context]
  /\ Ensured(k)
  /\ UNCHANGED <<runtimeVars, leaked, listeners, ffiVars, call>>

\* set() of a breakpoint throws when the code cannot be relocated or the slot is taken:
\* the handlers stay registered, without a breakpoint.
SetThrows(k) ==
  /\ Script /\ k \in {"hw", "sw"}
  /\ Ensured(k)
  /\ UNCHANGED <<runtimeVars, armed, leaked, listeners, ffiVars, call>>

\* enable() of a monitor throws for an address that does not parse: the reference is lost
\* (one such loss is enough here).
WatchThrows ==
  /\ Script /\ leaked = 0
  /\ RefEnable /\ leaked' = leaked + 1
  /\ UNCHANGED <<runtimeVars, armed, counted, listeners, ffiVars, call>>

\* removeAll() that forgets the handlers.
DisarmKeepsHandlers(k) ==
  /\ armed' = [armed EXCEPT ![k] = 0]
  /\ UNCHANGED counted

\* maybeRemoveHandler() and its like: no breakpoint left, no handlers.  refDisable()
\* removes nothing.
Disarm(k) ==
  /\ armed' = [armed EXCEPT ![k] = 0]
  /\ counted' = counted \ {k}

Remove(k) ==
  /\ Script /\ armed[k] # 0
  /\ Disarm(k)
  /\ UNCHANGED <<runtimeVars, leaked, enabled, installed, listeners, ffiVars, call>>

Enable ==
  /\ Script /\ ~enabled
  /\ enabled' = TRUE /\ installed' = TRUE
  /\ UNCHANGED <<runtimeVars, armed, counted, leaked, listeners, ffiVars, call>>

\* disable() of native_exception_handler.cc: only a reference keeps the handlers.
DisableHandler ==
  /\ enabled' = FALSE
  /\ installed' = (installed /\ (~enabled \/ References > 0))

Disable ==
  /\ Script
  /\ "no-early-disable" \in Rules => References = 0
  /\ DisableHandler
  /\ UNCHANGED <<runtimeVars, armed, counted, leaked, listeners, ffiVars, call>>

AddCallback ==
  /\ Script
  /\ listeners' = listeners \union {context}
  /\ UNCHANGED <<runtimeVars, armed, counted, leaked, enabled, installed, ffiVars, call>>

--------------------------------------------------------------------------------
(* NativeCallbacks *)

\* createCallback(): the closure is allocated at a free place.
CreateCallback(o, a, type) ==
  /\ Script /\ object[o].is = "new" /\ callbacks[a] = "none"
  /\ object' = [object EXCEPT ![o] = [is |-> "live", at |-> a, of |-> context, type |-> type]]
  /\ callbacks' = [callbacks EXCEPT ![a] = o]
  /\ UNCHANGED <<runtimeVars, handlerVars, call>>

InUse(a) == \E t \in Threads : call[t].by = a

\* destroyCallback() frees whatever closure is at the address of the object.
DestroyCallback(o) ==
  /\ Script /\ object[o].is # "new" /\ object[o].of = context
  /\ "once" \in Rules => object[o].is = "live"
  /\ "quiet" \in Rules => ~InUse(object[o].at)
  /\ object' = [object EXCEPT ![o].is = "destroyed"]
  /\ callbacks' = [callbacks EXCEPT ![object[o].at] = "none"]
  /\ UNCHANGED <<runtimeVars, handlerVars, call>>

--------------------------------------------------------------------------------
(* Calls of the program into the scripts *)

Outside(t) == call[t].in = "program" /\ host # "terminated"
Quiet      == \A t \in Threads : call[t].in = "program"

\* While the context goes, the program stays out of the hooks if it is quiet.
MayEnter == "quiet" \in Rules => host = "running"

\* A thread hits a breakpoint or a hook, whose callback is of the context armed[k].
Hit(t, k) ==
  /\ Outside(t) /\ MayEnter /\ armed[k] # 0 /\ k # "monitor"
  /\ call' = [call EXCEPT ![t] = [NoCall EXCEPT !.in = "hook", !.of = armed[k]]]
  /\ UNCHANGED <<runtimeVars, handlerVars, ffiVars, count>>

Leave(t) ==
  /\ call[t].in = "hook"
  /\ call' = [call EXCEPT ![t] = NoCall]
  /\ UNCHANGED <<runtimeVars, handlerVars, ffiVars, count>>

TypeAt(a) == object[callbacks[a]].type

\* _call() and callFunction() with the address of a closure: the value as it arrives there.
\* An argument that does not parse is an exception and no call.
CallFunction(t, a, x) ==
  /\ Outside(t) /\ MayEnter /\ callbacks[a] # "none" /\ Faithful(TypeAt(a), x)
  /\ \E parsed \in ParseArg(TypeAt(a), ArgText(TypeAt(a), x)) :
       call' = [call EXCEPT ![t] =
                  [in |-> "closure", of |-> object[callbacks[a]].of, by |-> a,
                   type |-> TypeAt(a), value |-> x, data |-> Register(TypeAt(a), parsed)]]
  /\ UNCHANGED <<runtimeVars, handlerVars, ffiVars, count>>

\* callbackHandler() as far as the handler, which returns what it is given.
CallbackHandler(t) ==
  /\ call[t].in = "closure"
  /\ LET type == call[t].type
     IN call' = [call EXCEPT ![t].in = "handler",
                             ![t].data = HandlerArg(type, HandlerText(type, call[t].data))]
  /\ UNCHANGED <<runtimeVars, handlerVars, ffiVars, count>>

\* The rest of callbackHandler(): the result for the native caller.  It throws into native
\* code when the text does not parse.
HandlerReturns(t) ==
  /\ call[t].in = "handler"
  /\ LET type   == call[t].type
         parsed == ParseAnswer(type, AnswerText(type, call[t].data))
     IN /\ call' = [call EXCEPT
                      ![t].in = "returned",
                      ![t].data = IF parsed = {} THEN @
                                  ELSE Register(type, CHOOSE n \in parsed : TRUE)]
        /\ host' = IF parsed = {} THEN "terminated" ELSE host
  /\ UNCHANGED <<context, ending, handlerVars, ffiVars, count>>

\* callFunction() formats the result and _call() parses it.
FunctionReturns(t) ==
  /\ call[t].in = "returned"
  /\ call' = [call EXCEPT ![t] = [NoCall EXCEPT
                !.value = call[t].value,
                !.data = ParseResult(ResultText(call[t].type, call[t].data))]]
  /\ UNCHANGED <<runtimeVars, handlerVars, ffiVars, count>>

--------------------------------------------------------------------------------
(* The runtime *)

\* reset(), of a new runtime too, and ~runtime() begin with cleanup().
Begin(for) ==
  /\ host = "running" \/ (host = "gone" /\ for = "reset")
  /\ for = "reset" => count.contexts < MaxContexts
  /\ "quiet" \in Rules => Quiet
  /\ "destroyed" \in Rules => \A o \in Objects : object[o].is # "live"
  /\ host' = "monitor" /\ ending' = for
  /\ UNCHANGED <<context, handlerVars, ffiVars, call, count>>

After == [monitor |-> "hw", hw |-> "sw", sw |-> "hooks", hooks |-> "callbacks"]

\* A cleanup() that leaves out detachAll().
TakeBackButHooks(k) ==
  /\ host = k /\ host' = After[k]
  /\ IF k = "hooks" THEN UNCHANGED <<armed, counted>> ELSE Disarm(k)
  /\ UNCHANGED <<context, ending, leaked, enabled, installed, listeners, ffiVars, call, count>>

\* disableAll(), removeAll() twice and detachAll().
TakeBack(k) ==
  /\ host = k /\ host' = After[k]
  /\ Disarm(k)
  /\ UNCHANGED <<context, ending, leaked, enabled, installed, listeners, ffiVars, call, count>>

\* makeWritableAndPatch() throws: the calls that follow are not made.  An exception that
\* leaves the destructor ends the process.
Refused(k) ==
  /\ host = k /\ k \in Refusing /\ armed[k] # 0
  /\ host' = IF ending = "destructor" THEN "terminated" ELSE IF context = 0 THEN "gone"
             ELSE "running"
  /\ UNCHANGED <<context, ending, handlerVars, ffiVars, call, count>>

RemoveAllCallbacks ==
  /\ host = "callbacks" /\ host' = "disable"
  /\ listeners' = {}
  /\ UNCHANGED <<context, ending, armed, counted, leaked, enabled, installed, ffiVars, call, count>>

DisableAtLast ==
  /\ host = "disable" /\ host' = "clean"
  /\ DisableHandler
  /\ UNCHANGED <<context, ending, armed, counted, leaked, listeners, ffiVars, call, count>>

\* reset_runtime() replaces the context; the end of the destructor ends it.
Renew ==
  /\ host = "clean"
  /\ IF ending = "reset"
     THEN /\ host' = "running" /\ context' = count.contexts + 1
          /\ count' = [count EXCEPT !.contexts = @ + 1]
     ELSE host' = "gone" /\ context' = 0 /\ UNCHANGED count
  /\ UNCHANGED <<ending, handlerVars, ffiVars, call>>

Cleanup ==
  \/ \E k \in Kinds : TakeBack(k) \/ Refused(k)
  \/ RemoveAllCallbacks \/ DisableAtLast \/ Renew

ScriptCall ==
  \/ \E k \in Kinds : Set(k) \/ SetThrows(k) \/ Remove(k)
  \/ WatchThrows \/ Enable \/ Disable \/ AddCallback
  \/ \E o \in Objects :
       DestroyCallback(o) \/ \E a \in Addresses, type \in Types : CreateCallback(o, a, type)

ProgramStep(t) ==
  \/ \E k \in Kinds : Hit(t, k)
  \/ Leave(t)
  \/ \E a \in Addresses, x \in Values : CallFunction(t, a, x)
  \/ CallbackHandler(t) \/ HandlerReturns(t) \/ FunctionReturns(t)

Next ==
  \/ \E for \in {"reset", "destructor"} : Begin(for)
  \/ Cleanup \/ ScriptCall
  \/ \E t \in Threads : ProgramStep(t)

Spec == Init /\ [][Next]_vars

--------------------------------------------------------------------------------
(* Properties *)

\* Whatever the program runs of the scripts runs in the context it was made in, while that
\* is there, and through a closure that is still there; and the closure of a
\* NativeCallback nobody destroyed is its own, even where another one was before
\* (script.cc:19-32, native_ffi.cc:247-272).
OnlyLiveCallbacks ==
  /\ \A t \in Threads :
       call[t].in # "program" =>
         /\ call[t].of = context
         /\ call[t].in # "hook" => callbacks[call[t].by] # "none"
  /\ \A o \in Objects : object[o].is = "live" => callbacks[object[o].at] = o

\* The handlers are there as long as they are needed and no longer.  What is armed has
\* them, also between two calls of cleanup() and after one that was refused: a trap or a
\* guarded page nobody answers for kills the process.  And a cleanup() that got to its end
\* has left nothing: no hook, no callback, no signal handler, also after a set() that threw;
\* only a reference lost by the enable() of a monitor keeps them (script.cc:19-28,
\* native_breakpoint.cc:100-117).  The entry hardware breakpoints leave in the chain is the
\* matter of ExceptionHandler.
HandlersWhileNeeded ==
  /\ \A k \in Trapped : armed[k] # 0 => installed /\ k \in counted
  /\ host = "clean" =>
       /\ \A k \in Kinds : armed[k] = 0
       /\ counted = {} /\ listeners = {}
       /\ installed => leaked > 0

\* A value passed through NativeFunction to a NativeCallback that returns it comes back,
\* and no conversion on the way throws into native code (native_ffi.cc:80-124, 150-215).
ValuesSurvive ==
  \A t \in Threads :
    /\ call[t].in = "program" => call[t].data = call[t].value
    /\ call[t].in = "handler" => call[t].data = call[t].value
    /\ host = "terminated" => ending = "destructor"

================================================================================
