---------------------------- MODULE StreamPrefix ----------------------------
(***************************************************************************)
(* The 24-byte prefix of a frame (class hid::stream::Prefix in             *)
(* src/dev/common/include/StreamPrefix.h): what the sender's SetParams and *)
(* SetTimeout write, and what the receiver's Valid, GetParams,             *)
(* ExpirationTimeValid and ExpirationTimeGet read, with words that may be  *)
(* altered on the way.                                                     *)
(*                                                                         *)
(* A prefix is a function from the word offsets 0 .. 5 to 32-bit words; a  *)
(* storage of another size has another domain.  Words are counted modulo   *)
(* M, which is 2^32 in the code.                                           *)
(***************************************************************************)
EXTENDS Integers

CONSTANTS
    M,             \* 2^32: how many values a word has
    PREFIX_MAGIC,
    MaxMs,         \* bound on the timeouts asked for, which are signed
    MaxDamage      \* bound on the words altered

ASSUME MAssumption == M \in Nat \ {0}
ASSUME MagicAssumption == PREFIX_MAGIC \in 0 .. M - 1
ASSUME BoundsAssumption == MaxMs \in Nat /\ MaxDamage \in Nat

Word == 0 .. M - 1

OFFSET_MAGIC == 0
OFFSET_CMD   == 1
OFFSET_CODE  == 2
OFFSET_EXP   == 3
OFFSET_LEN   == 4
OFFSET_CRC   == 5

Offsets == 0 .. 5

\* storage.size () == PrefixSize ()
Sized(storage) == DOMAIN storage = Offsets

Params == [command : Word, code : Word, len : Word]

-----------------------------------------------------------------------------
(* The operations *)

\* Subtraction of uint32_t
Sub(a, b) == IF a >= b THEN a - b ELSE a - b + M

\* Seeded fault: the length is not checked
CrcWithoutLen(storage) ==
    Sub(Sub(Sub(Sub(M - 1, storage[OFFSET_MAGIC]), storage[OFFSET_CMD]),
            storage[OFFSET_CODE]), storage[OFFSET_EXP])

CrcCalc(storage) ==
    Sub(Sub(Sub(Sub(Sub(M - 1, storage[OFFSET_MAGIC]), storage[OFFSET_CMD]),
                storage[OFFSET_CODE]), storage[OFFSET_EXP]), storage[OFFSET_LEN])

CrcSet(storage) == [storage EXCEPT ![OFFSET_CRC] = CrcCalc(storage)]

Valid(storage) == Sized(storage) /\ CrcCalc(storage) = storage[OFFSET_CRC]

\* Seeded fault: the timeout of an older prefix stays
SetParamsOver(params, storage) ==
    CrcSet([i \in Offsets |->
              CASE i = OFFSET_MAGIC -> PREFIX_MAGIC
                [] i = OFFSET_CMD   -> params.command
                [] i = OFFSET_CODE  -> params.code
                [] i = OFFSET_LEN   -> params.len
                [] OTHER -> IF Sized(storage) THEN storage[i] ELSE 0])

\* The buffer may hold an older prefix: every word is written
SetParams(params, storage) ==
    CrcSet([i \in Offsets |->
              CASE i = OFFSET_MAGIC -> PREFIX_MAGIC
                [] i = OFFSET_CMD   -> params.command
                [] i = OFFSET_CODE  -> params.code
                [] i = OFFSET_LEN   -> params.len
                [] i = OFFSET_EXP   -> 0
                [] OTHER -> IF Sized(storage) THEN storage[i] ELSE 0])

\* Seeded fault: the word is not cut
TsSetWhole(ms, storage) == [storage EXCEPT ![OFFSET_EXP] = ms]

\* TsSet keeps the low 32 bits: a negative duration becomes a long one
TsSet(ms, storage) == [storage EXCEPT ![OFFSET_EXP] = ms % M]

\* Seeded fault: the check word is not computed again
SetTimeoutOnly(ms, storage) == IF Sized(storage) THEN TsSet(ms, storage) ELSE storage

SetTimeout(ms, storage) == IF Sized(storage) THEN CrcSet(TsSet(ms, storage)) ELSE storage

NoParams == [command |-> 0, code |-> 0, len |-> 0]

GetParams(storage) ==
    IF Valid(storage)
    THEN [command |-> storage[OFFSET_CMD], code |-> storage[OFFSET_CODE],
          len |-> storage[OFFSET_LEN]]
    ELSE NoParams

ExpirationTimeValid(storage) == Sized(storage) /\ storage[OFFSET_EXP] # 0

ExpirationTimeGet(storage) ==
    IF ExpirationTimeValid(storage) THEN storage[OFFSET_EXP] ELSE 0

-----------------------------------------------------------------------------
VARIABLES
    phase,      \* "new": nothing written; "built": with the sender; "sent"
    params,     \* the parameters given to SetParams
    asked,      \* the last timeout given to SetTimeout since, or 0
    built,      \* the prefix as the sender wrote it
    storage,    \* the prefix as the receiver has it
    damage      \* number of words altered

vars == <<phase, params, asked, built, storage, damage>>

Empty == [i \in {} |-> 0]

Init ==
    /\ phase = "new" /\ params = NoParams /\ asked = 0
    /\ built = Empty /\ storage = Empty /\ damage = 0

\* The sender makes a prefix, in a fresh buffer or over an older prefix
Build(p) ==
    /\ phase \in {"new", "built"}
    /\ phase' = "built"
    /\ params' = p /\ asked' = 0
    /\ built' = SetParams(p, built)
    /\ UNCHANGED <<storage, damage>>

AddTimeout(ms) ==
    /\ phase = "built"
    /\ asked' = ms
    /\ built' = SetTimeout(ms, built)
    /\ UNCHANGED <<phase, params, storage, damage>>

Send ==
    /\ phase = "built"
    /\ phase' = "sent"
    /\ storage' = built
    /\ UNCHANGED <<params, asked, built, damage>>

\* Something else than what was sent arrives in one word
Damage(i, v) ==
    /\ phase = "sent" /\ damage < MaxDamage
    /\ damage' = damage + 1
    /\ storage' = [storage EXCEPT ![i] = v]
    /\ UNCHANGED <<phase, params, asked, built>>

Next ==
    \/ \E p \in Params : Build(p)
    \/ \E ms \in -MaxMs .. MaxMs : AddTimeout(ms)
    \/ Send
    \/ \E i \in Offsets, v \in Word : Damage(i, v)

Spec == Init /\ [][Next]_vars

-----------------------------------------------------------------------------
(* Properties *)

Prefixes == [Offsets -> Word]

TypeOK ==
    /\ phase \in {"new", "built", "sent"}
    /\ params \in Params /\ asked \in -MaxMs .. MaxMs
    /\ phase = "new" => built = Empty
    /\ phase # "new" => built \in Prefixes
    /\ phase = "sent" => storage \in Prefixes
    /\ phase # "sent" => storage = Empty
    /\ damage \in 0 .. MaxDamage

Arrived == phase = "sent"

\* A prefix that arrives as it was sent is accepted and gives the receiver
\* the sender's parameters, however often the sender set its timeout and
\* whatever the buffer held before.
RoundTrip == Arrived /\ storage = built => Valid(storage) /\ GetParams(storage) = params

\* The deadline that reaches the server is never longer than the one the
\* client waits for, unless that is negative, and absent (the server then takes
\* COMM_TIMEOUT) only when the low 32 bits of the client's are zero.
ExpirationNotLonger ==
    Arrived /\ storage = built =>
        /\ asked >= 0 => ExpirationTimeGet(storage) <= asked
        /\ ExpirationTimeValid(storage) <=> asked % M # 0

\* The difference of the words is enough to see any damage to one word, the
\* check word included.
OneWordDamageSeen ==
    \A i \in Offsets :
        Arrived /\ storage[i] # built[i] /\ (\A j \in Offsets \ {i} : storage[j] = built[j])
            => ~Valid(storage)

=============================================================================
