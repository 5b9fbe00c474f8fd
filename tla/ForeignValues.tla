------------------------------ MODULE ForeignValues ------------------------------
(****************************************************************************)
(* A value on its way from a script through NativeFunction into a native      *)
(* function, from there through a NativeCallback into the script again, and   *)
(* back: native-function.ts, callFunction() and callbackHandler() of          *)
(* native_ffi.cc, native-callback.ts.  Between the script and the native side *)
(* it is a text.  Widths are scaled down; floats are left out.                *)
(****************************************************************************)
EXTENDS Integers

CONSTANTS
  Size,   \* how many values so many bits have: 2^8, 2^16, 2^32 and 2^64
  Exact   \* a JavaScript number holds integers up to here exactly: 2^53

Half(w) == Size[w] \div 2

ASSUME ForeignConstants ==
  /\ \A w \in {8, 16, 32, 64} : Size[w] \in Nat /\ Size[w] > 0 /\ Size[w] % 2 = 0
  /\ Size[8] < Size[16] /\ Size[16] < Size[32] /\ Size[32] < Size[64]
  /\ Size[16] % Size[8] = 0 /\ Size[32] % Size[16] = 0 /\ Size[64] % Size[32] = 0
  /\ Exact \in Nat /\ Size[32] <= Exact /\ Exact <= Half(64)

\* getFFIType(): bool is passed as a pointer.
FFIType ==
  [int8 |-> "sint8", uint8 |-> "uint8", int16 |-> "sint16", uint16 |-> "uint16",
   int32 |-> "sint32", uint32 |-> "uint32", int64 |-> "sint64", uint64 |-> "uint64",
   pointer |-> "pointer", bool |-> "pointer"]

Types == DOMAIN FFIType

Width ==
  [sint8 |-> 8, uint8 |-> 8, sint16 |-> 16, uint16 |-> 16, sint32 |-> 32, uint32 |-> 32,
   sint64 |-> 64, uint64 |-> 64, pointer |-> 64]

Cut(n, w)      == n % Size[w]
AsSigned(n, w) == IF Cut(n, w) < Half(w) THEN Cut(n, w) ELSE Cut(n, w) - Size[w]

InSigned(n, w) == -Half(w) <= n /\ n < Half(w)

\* libffi widens what is in storage to a register as the type says.
Widened(ffi, n) ==
  IF ffi \in {"sint8", "sint16", "sint32"} THEN Cut(AsSigned(n, Width[ffi]), 64)
  ELSE Cut(n, Width[ffi])

--------------------------------------------------------------------------------
(* Texts *)

Dec(n) == [base |-> 10, of |-> n]
Hex(n) == [base |-> 16, of |-> n]

\* A parser gives the set of its results: none if the number does not fit, which throws.
Stoi(text)   == {n \in {text.of} : InSigned(n, 32)}
Stoll(text)  == {n \in {text.of} : InSigned(n, 64)}
Stoull(text) == {Cut(n, 64) : n \in {m \in {text.of} : -Size[64] < m /\ m < Size[64]}}

\* std::stoull(s, nullptr, 16) takes the digits of a decimal number for hexadecimal ones;
\* two of them are enough here.
ParseHexAddr(text) ==
  IF text.base = 16 THEN {text.of}
  ELSE {Cut(16 * (text.of \div 10) + (text.of % 10), 64)}

\* Number(text): beyond Exact the nearest even integer, ties to a multiple of four.
Number(text) ==
  LET n == text.of
  IN CASE -Exact <= n /\ n <= Exact -> n
       [] n % 2 = 0 -> n
       [] OTHER     -> IF (n + 1) % 4 = 0 THEN n + 1 ELSE n - 1

--------------------------------------------------------------------------------
(* NativeFunction *)

\* _call() serialises an argument ...
ArgText(type, x) == IF type = "pointer" THEN Hex(x) ELSE Dec(x)

\* ... callFunction() parses it, and libffi passes it on in a register ...
ParseArg(type, text) ==
  IF FFIType[type] = "pointer" THEN ParseHexAddr(text) ELSE Stoll(text)

Register(type, parsed) == Widened(FFIType[type], parsed)

\* ... and callFunction() formats what came back for _call() to parse.
ResultText(type, reg) ==
  CASE type = "pointer" -> Hex(reg)
    [] type = "int64"   -> Dec(AsSigned(reg, 64))
    [] type = "uint64"  -> Dec(reg)
    [] OTHER            -> Dec(AsSigned(reg, 32))

ParseResult(text) == text.of

--------------------------------------------------------------------------------
(* NativeCallback *)

\* The handler reading what is of no other type as a short.
HandlerTextOfShort(type, reg) ==
  CASE FFIType[type] = "pointer" -> Hex(reg)
    [] FFIType[type] = "sint64"  -> Dec(AsSigned(reg, 64))
    [] FFIType[type] = "uint64"  -> Dec(reg)
    [] OTHER                     -> Dec(AsSigned(reg, 16))

\* callbackHandler() formats the argument; what is of no other type is read as an int ...
HandlerText(type, reg) ==
  CASE FFIType[type] = "pointer" -> Hex(reg)
    [] FFIType[type] = "sint64"  -> Dec(AsSigned(reg, 64))
    [] FFIType[type] = "uint64"  -> Dec(reg)
    [] OTHER                     -> Dec(AsSigned(reg, 32))

\* ... wrappedHandler() makes a JavaScript value of it, and a text of what the handler
\* returns ...
HandlerArg(type, text) == IF type = "pointer" THEN text.of ELSE Number(text)
AnswerText(type, x)    == IF type = "pointer" THEN Hex(x) ELSE Dec(x)

\* ... and callbackHandler() parses that.
ParseAnswer(type, text) ==
  CASE FFIType[type] = "pointer" -> ParseHexAddr(text)
    [] FFIType[type] = "sint64"  -> Stoll(text)
    [] FFIType[type] = "uint64"  -> Stoull(text)
    [] OTHER                     -> Stoi(text)

--------------------------------------------------------------------------------
\* What a type can hold.
Holds(type, n) ==
  CASE FFIType[type] \in {"sint8", "sint16", "sint32", "sint64"} ->
         InSigned(n, Width[FFIType[type]])
    [] type = "bool" -> n \in {0, 1}
    [] OTHER         -> 0 <= n /\ n < Size[Width[FFIType[type]]]

\* The conversions are made for these: no unsigned int from the middle of its range on,
\* and no integer of 64 bits that a JavaScript number rounds.
Faithful(type, n) ==
  /\ Holds(type, n)
  /\ type = "uint32" => InSigned(n, 32)
  /\ type \in {"int64", "uint64"} => -Exact <= n /\ n <= Exact
================================================================================
