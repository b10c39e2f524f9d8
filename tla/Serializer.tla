----------------------------- MODULE Serializer -----------------------------
(***************************************************************************)
(* The Serializer of src/dev/common/include/Serializer.h: typed values are *)
(* stored as a type byte, a length and a payload, and loaded again.  One   *)
(* object writes and another reads the same storage.                       *)
(*                                                                         *)
(* A byte has Base values, 256 in the code: it decides how lengths are     *)
(* stored.  A byte of a value or a payload may be any number, the code of  *)
(* a type too.                                                             *)
(***************************************************************************)
EXTENDS Integers, Sequences

CONSTANTS
    Base,       \* values of a byte
    Items,      \* what the application stores
    Asked,      \* the C++ types the application loads
    MaxItems,   \* bound on the items stored
    Faults      \* "ALLOC": the storage cannot be extended;
                \* "REUSE": a writer is Reset and goes on with its old storage

ASSUME BaseAssumption == Base \in Nat /\ Base > 1
ASSUME MaxItemsAssumption == MaxItems \in Nat
ASSUME SerializerFaultsAssumption == Faults \subseteq {"ALLOC", "REUSE"}

VARIABLES
    storage,    \* the bytes
    writer,     \* the object that stores: m_state and m_offset
    reader,     \* the object that loads
    var,        \* the caller's variable after the last load
    asked,      \* history: the type asked for by the last load
    stored,     \* history: the items that the writer has stored since it began
    loaded,     \* history: how many of them the reader has taken since it began
    stale,      \* history: how many bytes the storage held when the writer began
    astray,     \* history: the reader is not at one of these items, nor at their end
    stores      \* how often the application has stored

vars == <<storage, writer, reader, var, asked, stored, loaded, stale, astray, stores>>

-----------------------------------------------------------------------------
(* Types *)

FixTypes == {"INT8", "UINT8", "INT16", "UINT16", "INT32", "UINT32", "INT64", "UINT64",
             "FLOAT", "DOUBLE"}

FixLen == [INT8 |-> 1, UINT8 |-> 1, INT16 |-> 2, UINT16 |-> 2, INT32 |-> 4,
           UINT32 |-> 4, INT64 |-> 8, UINT64 |-> 8, FLOAT |-> 4, DOUBLE |-> 8]

FixCode == [INT8 |-> 17, UINT8 |-> 18, INT16 |-> 19, UINT16 |-> 20, INT32 |-> 21,
            UINT32 |-> 22, INT64 |-> 23, UINT64 |-> 24, FLOAT |-> 25, DOUBLE |-> 26]

\* The code of an array or counter depends on how many bytes its length takes
VectorCode  == [ZERO |-> 32, BYTE |-> 33, WORD |-> 34, DWORD |-> 36]
StringCode  == [ZERO |-> 48, BYTE |-> 49, WORD |-> 50, DWORD |-> 52]
CounterCode == [ZERO |-> 64, BYTE |-> 65, WORD |-> 66, DWORD |-> 67]

LenClasses == {"ZERO", "BYTE", "WORD", "DWORD"}
Width      == [ZERO |-> 0, BYTE |-> 1, WORD |-> 2, DWORD |-> 4]

\* get_type: a char is stored as a uint8_t
get_type(ctype) == IF ctype = "CHAR" THEN "UINT8" ELSE ctype

Types == FixTypes \cup {"VECTOR", "STRING", "CNT"}

\* What each byte of a number counts for
Place == <<1, Base, Base * Base, Base * Base * Base>>

\* Lengths and counters are below this: 4 GB in the code
Limit == Base * Base * Base * Base

\* Fixed values have the length of their type, and lengths and counters can be
\* stored
ItemOK(it) ==
    /\ it.val \in Seq(Nat)
    /\ it.by \in {"FIX", "VAR", "CNT"}
    /\ it.by = "FIX" /\ get_type(it.type) \in FixTypes => Len(it.val) = FixLen[get_type(it.type)]
    /\ it.by = "VAR" => Len(it.val) < Limit
    /\ it.by = "CNT" => it.type = "CNT" /\ Len(it.val) = 1 /\ it.val[1] < Limit

ASSUME ItemsAssumption == \A it \in Items : ItemOK(it)
ASSUME AskedAssumption == \A type \in Asked : get_type(type) \in Types

\* Seeded fault: the limit of a length of one byte is one too high
LenClassOffByOne(n) ==
    IF n = 0 THEN "ZERO" ELSE IF n <= Base THEN "BYTE"
    ELSE IF n <= Base * Base - 1 THEN "WORD" ELSE "DWORD"

\* How a length is stored
LenClass(n) ==
    IF n = 0 THEN "ZERO" ELSE IF n <= Base - 1 THEN "BYTE"
    ELSE IF n <= Base * Base - 1 THEN "WORD" ELSE "DWORD"

\* The lowest w bytes of n, and back
LowBytes(n, w) == [i \in 1 .. w |-> (n \div Place[i]) % Base]

Number(bytes) ==
    LET part(i) == IF i \in DOMAIN bytes THEN bytes[i] * Place[i] ELSE 0
    IN part(1) + part(2) + part(3) + part(4)

Zeros(n) == [i \in 1 .. n |-> 0]

-----------------------------------------------------------------------------
(* Storing *)

NewObject == [state |-> "OK", offset |-> 0]

\* A writer together with the memory it writes to
Sink == [state |-> writer.state, offset |-> writer.offset, mem |-> storage]

\* The memory, now of n bytes, once "bytes" are written at an offset; what it
\* grew by is zero
Written(mem, offset, bytes, n) ==
    [i \in 1 .. n |-> IF i - offset \in DOMAIN bytes THEN bytes[i - offset]
                      ELSE IF i \in DOMAIN mem THEN mem[i] ELSE 0]

\* Seeded fault: the storage grows only when the value does not fit in it
StoreGrowsToFit(s, bytes, fails) ==
    LET end == s.offset + Len(bytes) IN
    IF s.state # "OK" THEN s
    ELSE [s EXCEPT !.offset = end,
                   !.mem = Written(@, s.offset, bytes, IF end > Len(@) THEN end ELSE Len(@))]

\* store: the storage grows by the length of the value at its end, and the
\* value is written at m_offset.  check_size reports a failure to grow, and
\* the value is written all the same.
store(s, bytes, fails) ==
    LET end == s.offset + Len(bytes) IN
    IF s.state # "OK" THEN s
    ELSE IF fails
    THEN [s EXCEPT !.state = "FAILED", !.offset = end,
                   !.mem = Written(@, s.offset, bytes, Len(@))]
    ELSE [s EXCEPT !.offset = end,
                   !.mem = Written(@, s.offset, bytes, Len(@) + Len(bytes))]

\* A number in as few bytes as its class has
StoreCount(s, code, n, fail) ==
    LET typed == store(s, <<code[LenClass(n)]>>, fail = 1)
    IN IF n = 0 THEN typed ELSE store(typed, LowBytes(n, Width[LenClass(n)]), fail = 2)

StoreFix(s, it, fail) ==
    IF get_type(it.type) \notin FixTypes THEN [s EXCEPT !.state = "FAILED"]
    ELSE store(store(s, <<FixCode[get_type(it.type)]>>, fail = 1), it.val, fail = 2)

StoreVar(s, it, fail) ==
    IF it.type \notin {"VECTOR", "STRING"} THEN [s EXCEPT !.state = "FAILED"]
    ELSE LET counted == StoreCount(s, IF it.type = "VECTOR" THEN VectorCode ELSE StringCode,
                                   Len(it.val), fail)
         IN IF it.val = <<>> THEN counted ELSE store(counted, it.val, fail = 3)

StoreCnt(s, it, fail) == StoreCount(s, CounterCode, it.val[1], fail)

\* What an item is to the one who loads it
Entry(it) == [type |-> get_type(it.type), val |-> it.val]

\* The application stores an item with one of the three; "fail" is the call of
\* store that cannot extend the storage, if any
StoreWith(it, fail) ==
    CASE it.by = "FIX" -> StoreFix(Sink, it, fail)
      [] it.by = "VAR" -> StoreVar(Sink, it, fail)
      [] it.by = "CNT" -> StoreCnt(Sink, it, fail)

Store ==
    /\ stores < MaxItems
    /\ stores' = stores + 1
    /\ writer.state = "OK"
    /\ \E it \in Items, fail \in IF "ALLOC" \in Faults THEN 0 .. 3 ELSE {0} :
         LET s == StoreWith(it, fail) IN
           /\ writer' = [state |-> s.state, offset |-> s.offset]
           /\ storage' = s.mem
           /\ stored' = IF s.state = "OK" THEN Append(stored, Entry(it)) ELSE stored
    /\ UNCHANGED <<reader, var, asked, loaded, stale, astray>>

-----------------------------------------------------------------------------
(* Loading *)

\* A reader together with what it has just read
Source == [state |-> reader.state, offset |-> reader.offset, got |-> <<>>]

\* Seeded fault: the end of the storage is not looked at
load_unchecked(s, n) ==
    IF s.state # "OK" THEN s
    ELSE [s EXCEPT !.offset = @ + n,
                   !.got = [i \in 1 .. n |-> IF s.offset + i <= Len(storage)
                                             THEN storage[s.offset + i] ELSE 0]]

\* load: reading past the end fails and throws, which ends the operation
load(s, n) ==
    IF s.state # "OK" THEN s
    ELSE IF s.offset + n > Len(storage) THEN [s EXCEPT !.state = "FAILED", !.got = <<>>]
    ELSE [s EXCEPT !.offset = @ + n, !.got = SubSeq(storage, s.offset + 1, s.offset + n)]

Fail(s) == [s EXCEPT !.state = "FAILED"]

\* The class whose code was read, if it is one of "code"
ClassRead(s, code) == {c \in LenClasses : s.got = <<code[c]>>}

\* Each gives the reader afterwards and what is left in the caller's variable

LoadFix(type) ==
    LET zero  == Zeros(FixLen[type])
        typed == load(Source, 1)
        value == load(typed, FixLen[type])
    IN IF typed.state = "OK" /\ typed.got # <<FixCode[type]>> THEN [obj |-> Fail(typed), var |-> zero]
       ELSE [obj |-> value, var |-> IF value.state = "OK" THEN value.got ELSE zero]

\* The array is given its announced size before the payload is looked for
LoadVar(type) ==
    LET code  == IF type = "VECTOR" THEN VectorCode ELSE StringCode
        typed == load(Source, 1)
        known == ClassRead(typed, code)
        sized == load(typed, Width[CHOOSE c \in known : TRUE])
        size  == Number(sized.got)
        value == load(sized, size)
    IN IF typed.state # "OK" THEN [obj |-> typed, var |-> <<>>]
       ELSE IF known = {} THEN [obj |-> Fail(typed), var |-> <<>>]
       ELSE IF known = {"ZERO"} THEN [obj |-> typed, var |-> <<>>]
       ELSE IF sized.state # "OK" THEN [obj |-> sized, var |-> <<>>]
       ELSE [obj |-> value, var |-> IF value.state = "OK" THEN value.got ELSE Zeros(size)]

LoadCnt ==
    LET typed == load(Source, 1)
        known == ClassRead(typed, CounterCode)
        count == load(typed, Width[CHOOSE c \in known : TRUE])
    IN IF typed.state # "OK" THEN [obj |-> typed, var |-> <<0>>]
       ELSE IF known = {} THEN [obj |-> Fail(typed), var |-> <<0>>]
       ELSE IF known = {"ZERO"} THEN [obj |-> typed, var |-> <<0>>]
       ELSE [obj |-> count, var |-> IF count.state = "OK" THEN <<Number(count.got)>> ELSE <<0>>]

LoadAs(type) ==
    IF type \in FixTypes THEN LoadFix(type)
    ELSE IF type = "CNT" THEN LoadCnt ELSE LoadVar(type)

\* A load that takes something from behind the items leaves the reader astray
Load ==
    /\ \E type \in Asked :
         LET l == LoadAs(get_type(type))
             took == l.obj.state = "OK" /\ ~astray
         IN
           /\ reader' = [state |-> l.obj.state, offset |-> l.obj.offset]
           /\ var' = l.var
           /\ asked' = get_type(type)
           /\ loaded' = IF took /\ loaded < Len(stored) THEN loaded + 1 ELSE loaded
           /\ astray' = (astray \/ (took /\ loaded = Len(stored)))
    /\ UNCHANGED <<storage, writer, stored, stale, stores>>

ExportStatus == writer.state = "OK"

\* Seeded fault: what was not loaded is not noticed
ImportStatusOfObject == reader.state = "OK"

ImportStatus == reader.state = "OK" /\ Len(storage) = reader.offset

-----------------------------------------------------------------------------
(* The objects and the storage in the hands of the application *)

\* Reset of the reader: the storage is read again
Rewind ==
    /\ reader' = NewObject /\ loaded' = 0 /\ astray' = FALSE
    /\ UNCHANGED <<storage, writer, var, asked, stored, stale, stores>>

\* A fresh storage and both objects reset
Renew ==
    /\ storage' = <<>> /\ writer' = NewObject /\ reader' = NewObject
    /\ stored' = <<>> /\ loaded' = 0 /\ stale' = 0 /\ astray' = FALSE /\ stores' = 0
    /\ UNCHANGED <<var, asked>>

\* Reset of the writer alone, or a new one, the storage being kept; once, as a
\* bound.  A reader on its way is not at an item of the writer any more.
Reuse ==
    /\ "REUSE" \in Faults /\ stale = 0
    /\ writer' = NewObject
    /\ stored' = <<>> /\ loaded' = 0 /\ stale' = Len(storage)
    /\ astray' = (astray \/ loaded # 0)
    /\ UNCHANGED <<storage, reader, var, asked, stores>>

Init ==
    /\ storage = <<>> /\ writer = NewObject /\ reader = NewObject
    /\ var = <<>> /\ asked = "CNT"
    /\ stored = <<>> /\ loaded = 0 /\ stale = 0 /\ astray = FALSE /\ stores = 0

Next == Store \/ Load \/ Rewind \/ Renew \/ Reuse

Spec == Init /\ [][Next]_vars

-----------------------------------------------------------------------------
(* Properties *)

Objects == [state : {"OK", "FAILED"}, offset : Nat]

\* The state has its types, and both objects are inside the storage
TypeOK ==
    /\ storage \in Seq(Nat)
    /\ writer \in Objects /\ reader \in Objects
    /\ writer.state = "OK" => writer.offset <= Len(storage)
    /\ reader.offset <= Len(storage)
    /\ var \in Seq(Nat) /\ asked \in Types
    /\ stored \in Seq([type : Types, val : Seq(Nat)]) /\ loaded \in 0 .. Len(stored)
    /\ stale \in 0 .. Len(storage) /\ astray \in BOOLEAN /\ stores \in 0 .. MaxItems

Queue == INSTANCE TypedQueue WITH
    Entries <- {Entry(it) : it \in Items}, items <- stored, next <- loaded + 1,
    exported <- writer.state = "OK", imported <- reader.state = "OK",
    tail <- stale > 0, lost <- astray

\* What is loaded is what was stored, in order and by its own type; anything
\* else fails for good.  The unit test of Serializer tries a few orders.  Over
\* a storage that was in use the promise ends behind the last item.
KeepsTheQueue == Queue!Spec

\* ImportStatus holds when every item stored was loaded, and only then: the
\* test expects it to fail after too few loads and after too many.  An item
\* that could not be stored whole makes a storage that never imports.
ImportMeansAll ==
    ~astray =>
        /\ ImportStatus => loaded = Len(stored)
        /\ ExportStatus /\ stale = 0 /\ reader.state = "OK" /\ loaded = Len(stored) => ImportStatus

\* A writer that begins over a storage in use leaves bytes behind its items,
\* and a reader that takes these items is told so.  One that reads on may
\* find no fault: what is left may look like items.
ReuseIsNoticed == ~astray /\ ImportStatus => stale = 0

=============================================================================
