------------------------- MODULE StreamPrefixProofs -------------------------
(* Theorems about StreamPrefix, for words of any size and any magic number *)
EXTENDS StreamPrefix, TLAPS

USE MAssumption, MagicAssumption, BoundsAssumption

LEMMA SubType == ASSUME NEW a \in Word, NEW b \in Word PROVE Sub(a, b) \in Word
BY DEF Sub, Word

LEMMA SubLeft ==
    ASSUME NEW a \in Word, NEW b \in Word, NEW c \in Word, Sub(a, c) = Sub(b, c)
    PROVE  a = b
BY DEF Sub, Word

LEMMA SubRight ==
    ASSUME NEW a \in Word, NEW b \in Word, NEW c \in Word, Sub(c, a) = Sub(c, b)
    PROVE  a = b
BY DEF Sub, Word

\* The check word of five words, without the storage around them
Crc5(m, c, d, e, l) == Sub(Sub(Sub(Sub(Sub(M - 1, m), c), d), e), l)

LEMMA Crc5Type ==
    ASSUME NEW m \in Word, NEW c \in Word, NEW d \in Word, NEW e \in Word, NEW l \in Word
    PROVE  Crc5(m, c, d, e, l) \in Word
<1>1. M - 1 \in Word
  BY DEF Word
<1> QED BY <1>1, SubType DEF Crc5

LEMMA CrcCalcType ==
    ASSUME NEW s \in Prefixes
    PROVE  CrcCalc(s) \in Word /\ CrcSet(s) \in Prefixes
<1>1. CrcCalc(s) \in Word
  BY Crc5Type
     DEF CrcCalc, Crc5, Prefixes, Offsets, OFFSET_MAGIC, OFFSET_CMD, OFFSET_CODE, OFFSET_EXP, OFFSET_LEN
<1> QED BY <1>1 DEF CrcSet, Prefixes, Offsets, OFFSET_CRC

\* CrcSet writes the word that CrcCalc finds, and no other word counts
LEMMA CrcSetValid == ASSUME NEW s \in Prefixes PROVE Valid(CrcSet(s))
<1>1. CrcSet(s) \in Prefixes /\ CrcCalc(s) \in Word
  BY CrcCalcType
<1>2. CrcSet(s)[OFFSET_CRC] = CrcCalc(s)
  BY DEF CrcSet, Prefixes, Offsets, OFFSET_CRC
<1>3. \A i \in {0, 1, 2, 3, 4} : CrcSet(s)[i] = s[i]
  BY DEF CrcSet, Prefixes, Offsets, OFFSET_CRC
<1>4. CrcCalc(CrcSet(s)) = CrcCalc(s)
  BY <1>3 DEF CrcCalc, OFFSET_MAGIC, OFFSET_CMD, OFFSET_CODE, OFFSET_EXP, OFFSET_LEN
<1> QED BY <1>1, <1>2, <1>4 DEF Valid, Sized, Prefixes

\* One word altered, and the check fails
LEMMA OneWord ==
    ASSUME NEW s \in Prefixes, NEW t \in Prefixes, Valid(s), NEW i \in Offsets,
           t[i] # s[i], \A j \in Offsets \ {i} : t[j] = s[j]
    PROVE  ~Valid(t)
<1> SUFFICES ASSUME Valid(t) PROVE FALSE
  OBVIOUS
<1> USE DEF OFFSET_MAGIC, OFFSET_CMD, OFFSET_CODE, OFFSET_EXP, OFFSET_LEN, OFFSET_CRC
<1>1. \A j \in 0 .. 5 : s[j] \in Word /\ t[j] \in Word
  BY DEF Prefixes, Offsets
<1>2. CrcCalc(s) = s[5] /\ CrcCalc(t) = t[5]
  BY DEF Valid
<1> DEFINE d0(x) == Sub(M - 1, x[0])
           d1(x) == Sub(d0(x), x[1])
           d2(x) == Sub(d1(x), x[2])
           d3(x) == Sub(d2(x), x[3])
           d4(x) == Sub(d3(x), x[4])
<1>3. CrcCalc(s) = d4(s) /\ CrcCalc(t) = d4(t)
  BY DEF CrcCalc
<1>4. M - 1 \in Word
  BY DEF Word
<1>5. /\ d0(s) \in Word /\ d0(t) \in Word /\ d1(s) \in Word /\ d1(t) \in Word
      /\ d2(s) \in Word /\ d2(t) \in Word /\ d3(s) \in Word /\ d3(t) \in Word
      /\ d4(s) \in Word /\ d4(t) \in Word
  <2>1. d0(s) \in Word /\ d0(t) \in Word
    BY <1>1, <1>4, SubType
  <2> HIDE DEF d0
  <2>2. d1(s) \in Word /\ d1(t) \in Word
    BY <1>1, <2>1, SubType
  <2> HIDE DEF d1
  <2>3. d2(s) \in Word /\ d2(t) \in Word
    BY <1>1, <2>2, SubType
  <2> HIDE DEF d2
  <2>4. d3(s) \in Word /\ d3(t) \in Word
    BY <1>1, <2>3, SubType
  <2> HIDE DEF d3
  <2>5. d4(s) \in Word /\ d4(t) \in Word
    BY <1>1, <2>4, SubType
  <2> QED BY <2>1, <2>2, <2>3, <2>4, <2>5
<1>6. ASSUME NEW a \in Word, NEW b \in Word, NEW x \in Word, NEW y \in Word,
             a = b \/ x = y, Sub(a, x) = Sub(b, y)
      PROVE  a = b /\ x = y
  BY <1>6, SubLeft, SubRight
<1>7. \A j \in 0 .. 4 : t[j] = s[j] \/ i = j
  BY DEF Offsets
<1>8. CASE i = 5
  BY <1>2, <1>7, <1>8 DEF CrcCalc
<1>9. CASE i # 5
  <2>1. d4(s) = d4(t)
    <3>1. t[5] = s[5]
      BY <1>9 DEF Offsets
    <3> QED BY <1>2, <1>3, <3>1
  <2>2. \A j \in 0 .. 4 : i # j => t[j] = s[j]
    BY <1>7
  <2>3. i \in 0 .. 4
    BY <1>9 DEF Offsets
  <2>4. t[4] = s[4] /\ d3(s) = d3(t)
    <3>1. i # 4 => t[4] = s[4]
      BY <2>2
    <3>2. i = 4 => d3(s) = d3(t)
      BY <2>2
    <3> HIDE DEF d3
    <3> QED BY <1>1, <1>5, <1>6, <2>1, <3>1, <3>2
  <2>5. t[3] = s[3] /\ d2(s) = d2(t)
    <3>1. i # 3 => t[3] = s[3]
      BY <2>2
    <3>2. i = 3 => d2(s) = d2(t)
      BY <2>2
    <3> HIDE DEF d2
    <3> QED BY <1>1, <1>5, <1>6, <2>4, <3>1, <3>2
  <2>6. t[2] = s[2] /\ d1(s) = d1(t)
    <3>1. i # 2 => t[2] = s[2]
      BY <2>2
    <3>2. i = 2 => d1(s) = d1(t)
      BY <2>2
    <3> HIDE DEF d1
    <3> QED BY <1>1, <1>5, <1>6, <2>5, <3>1, <3>2
  <2>7. t[1] = s[1] /\ d0(s) = d0(t)
    <3>1. i # 1 => t[1] = s[1]
      BY <2>2
    <3>2. i = 1 => d0(s) = d0(t)
      BY <2>2
    <3> HIDE DEF d0
    <3> QED BY <1>1, <1>5, <1>6, <2>6, <3>1, <3>2
  <2>8. t[0] = s[0]
    BY <1>1, <1>4, <2>7, SubRight
  <2> QED BY <2>3, <2>4, <2>5, <2>6, <2>7, <2>8
<1> QED BY <1>8, <1>9

-----------------------------------------------------------------------------
(* The state machine *)

Buffer == Prefixes \cup {Empty}

LEMMA SetParamsFacts ==
    ASSUME NEW p \in Params, NEW s \in Buffer
    PROVE  /\ SetParams(p, s) \in Prefixes /\ Valid(SetParams(p, s))
           /\ GetParams(SetParams(p, s)) = p
           /\ SetParams(p, s)[OFFSET_EXP] = 0
<1> USE DEF OFFSET_MAGIC, OFFSET_CMD, OFFSET_CODE, OFFSET_EXP, OFFSET_LEN, OFFSET_CRC
<1> DEFINE b == [i \in Offsets |->
              CASE i = OFFSET_MAGIC -> PREFIX_MAGIC
                [] i = OFFSET_CMD   -> p.command
                [] i = OFFSET_CODE  -> p.code
                [] i = OFFSET_LEN   -> p.len
                [] i = OFFSET_EXP   -> 0
                [] OTHER -> IF Sized(s) THEN s[i] ELSE 0]
<1>1. /\ DOMAIN b = Offsets
      /\ b[0] = PREFIX_MAGIC /\ b[1] = p.command /\ b[2] = p.code
      /\ b[3] = 0 /\ b[4] = p.len /\ b[5] \in Word
  <2>1. (IF Sized(s) THEN s[5] ELSE 0) \in Word
    BY DEF Sized, Buffer, Prefixes, Empty, Offsets, Word
  <2> QED BY <2>1 DEF Offsets
<1>2. b \in Prefixes
  <2>1. \A i \in Offsets : b[i] \in Word
    BY <1>1 DEF Offsets, Params, Word
  <2> QED BY <2>1 DEF Prefixes
<1>3. SetParams(p, s) = CrcSet(b)
  BY DEF SetParams
<1> HIDE DEF b
<1>4. CrcSet(b) \in Prefixes /\ Valid(CrcSet(b))
  BY <1>2, CrcCalcType, CrcSetValid
<1>5. \A i \in 0 .. 4 : CrcSet(b)[i] = b[i]
  BY <1>2 DEF CrcSet, Prefixes, Offsets
<1>6. GetParams(CrcSet(b)) = p
  BY <1>1, <1>4, <1>5 DEF GetParams, Params
<1> QED BY <1>1, <1>3, <1>4, <1>5, <1>6

LEMMA SetTimeoutFacts ==
    ASSUME NEW s \in Prefixes, Valid(s), NEW ms \in Int
    PROVE  /\ SetTimeout(ms, s) \in Prefixes /\ Valid(SetTimeout(ms, s))
           /\ GetParams(SetTimeout(ms, s)) = GetParams(s)
           /\ SetTimeout(ms, s)[OFFSET_EXP] = ms % M
<1> USE DEF OFFSET_MAGIC, OFFSET_CMD, OFFSET_CODE, OFFSET_EXP, OFFSET_LEN, OFFSET_CRC
<1>1. ms % M \in Word
  BY DEF Word
<1>2. TsSet(ms, s) \in Prefixes
  BY <1>1 DEF TsSet, Prefixes, Offsets
<1>3. SetTimeout(ms, s) = CrcSet(TsSet(ms, s))
  BY DEF SetTimeout, Sized, Prefixes
<1>4. CrcSet(TsSet(ms, s)) \in Prefixes /\ Valid(CrcSet(TsSet(ms, s)))
  BY <1>2, CrcCalcType, CrcSetValid
<1>5. /\ TsSet(ms, s)[3] = ms % M
      /\ \A i \in {1, 2, 4} : TsSet(ms, s)[i] = s[i]
  BY DEF TsSet, Prefixes, Offsets
<1>6. \A i \in 0 .. 4 : CrcSet(TsSet(ms, s))[i] = TsSet(ms, s)[i]
  BY <1>2 DEF CrcSet, Prefixes, Offsets
<1>7. GetParams(CrcSet(TsSet(ms, s))) = GetParams(s)
  BY <1>4, <1>5, <1>6 DEF GetParams
<1> QED BY <1>3, <1>4, <1>5, <1>6, <1>7

\* The sender's prefix is in order from the first SetParams on
Built == phase # "new" => /\ Valid(built) /\ GetParams(built) = params
                          /\ built[OFFSET_EXP] = asked % M

IInv == TypeOK /\ Built

LEMMA IInvInit == Init => IInv
BY DEF Init, IInv, TypeOK, Built, Params, NoParams, Word

LEMMA IInvStep == IInv /\ [Next]_vars => IInv'
<1> SUFFICES ASSUME IInv, [Next]_vars PROVE IInv'
  OBVIOUS
<1> USE DEF IInv, TypeOK, Built
<1>1. ASSUME NEW p \in Params, Build(p) PROVE IInv'
  <2>1. built \in Buffer
    BY <1>1 DEF Build, Buffer
  <2>2. 0 % M = 0
    OBVIOUS
  <2> QED BY <1>1, <2>1, <2>2, SetParamsFacts DEF Build
<1>2. ASSUME NEW ms \in -MaxMs .. MaxMs, AddTimeout(ms) PROVE IInv'
  <2>1. built \in Prefixes /\ Valid(built) /\ ms \in Int
    BY <1>2 DEF AddTimeout
  <2>2. /\ built' \in Prefixes /\ Valid(built') /\ GetParams(built') = params
        /\ built'[OFFSET_EXP] = ms % M
    BY <1>2, <2>1, SetTimeoutFacts DEF AddTimeout
  <2>3. UNCHANGED <<phase, params, storage, damage>> /\ asked' = ms /\ phase = "built"
    BY <1>2 DEF AddTimeout
  <2>4. TypeOK'
    BY <2>2, <2>3
  <2>5. Built'
    BY <2>2, <2>3
  <2> QED BY <2>4, <2>5
<1>3. CASE Send
  BY <1>3 DEF Send
<1>4. ASSUME NEW i \in Offsets, NEW v \in Word, Damage(i, v) PROVE IInv'
  BY <1>4 DEF Damage, Prefixes
<1>5. CASE UNCHANGED vars
  BY <1>5 DEF vars
<1> QED BY <1>1, <1>2, <1>3, <1>4, <1>5 DEF Next

\* Every variable keeps its type.
THEOREM TypeCorrect == Spec => []TypeOK
BY IInvInit, IInvStep, PTL DEF Spec, IInv

\* An unaltered prefix is accepted and read as it was written: SetParams,
\* SetTimeout and GetParams agree for every word size.
THEOREM RoundTripHolds == Spec => []RoundTrip
<1>1. IInv => RoundTrip
  BY DEF IInv, TypeOK, Built, RoundTrip, Arrived
<1> QED BY <1>1, IInvInit, IInvStep, PTL DEF Spec

\* The server's deadline is the client's, truncated: never a longer one.
THEOREM ExpirationHolds == Spec => []ExpirationNotLonger
<1>1. ASSUME NEW a \in Int PROVE (a >= 0 => a % M <= a) /\ a % M \in Nat
  BY SMT
<1>2. IInv => ExpirationNotLonger
  <2> SUFFICES ASSUME IInv, Arrived, storage = built
               PROVE  /\ asked >= 0 => ExpirationTimeGet(storage) <= asked
                      /\ ExpirationTimeValid(storage) <=> asked % M # 0
    BY DEF ExpirationNotLonger
  <2>1. asked \in Int /\ built \in Prefixes /\ built[OFFSET_EXP] = asked % M
    BY DEF IInv, TypeOK, Built, Arrived
  <2>2. Sized(storage)
    BY <2>1 DEF Sized, Prefixes
  <2> QED BY <1>1, <2>1, <2>2 DEF ExpirationTimeGet, ExpirationTimeValid
<1> QED BY <1>2, IInvInit, IInvStep, PTL DEF Spec

\* Valid refuses every prefix in which exactly one word was altered, for any
\* word, any alteration and any word size.
THEOREM OneWordDamageHolds == Spec => []OneWordDamageSeen
<1>1. IInv => OneWordDamageSeen
  BY OneWord DEF IInv, TypeOK, Built, OneWordDamageSeen, Arrived
<1> QED BY <1>1, IInvInit, IInvStep, PTL DEF Spec

=============================================================================
