-------------------------- MODULE SerializerProofs --------------------------
(***************************************************************************)
(* Proofs about the Serializer, for every value of the constants.          *)
(*                                                                         *)
(* A length survives being cut into bytes, because its class has room for  *)
(* it (NumberOfLowBytes).  So a store that does not fail puts the bytes of *)
(* an item behind the ones before it (StoreWithIs), and a load at the      *)
(* place of an item gives back that item, by its own type only             *)
(* (LoadEntryIs).  TypeOK says nothing about what the bytes are;           *)
(* ItemsPlaced does: every stored item has its place, the places follow    *)
(* one another, and a reader that is not astray is at one of them or at    *)
(* their end.  The two together are inductive, and the refinement of       *)
(* TypedQueue is proved under them, one action at a time.                  *)
(***************************************************************************)
EXTENDS Serializer, SequenceTheorems, TLAPS

-----------------------------------------------------------------------------
(* How numbers are written *)

LEMMA Division ==
    ASSUME NEW n \in Nat, NEW b \in Nat \ {0}
    PROVE  /\ n \div b \in Nat /\ n % b \in Nat
           /\ n = b * (n \div b) + (n % b) /\ n % b < b
  OBVIOUS

LEMMA DivisionIs ==
    ASSUME NEW n \in Nat, NEW b \in Nat \ {0}, NEW q \in Nat, NEW r \in Nat,
           n = b * q + r, r < b
    PROVE  n \div b = q /\ n % b = r
  <1> DEFINE x == n \div b  y == n % b
  <1>1. x \in Nat /\ y \in Nat /\ n = b * x + y /\ y < b
    BY Division
  <1>2. x = q
    <2>1. CASE x < q
      <3>1. q = x + 1 + (q - x - 1) /\ q - x - 1 \in Nat  BY <1>1, <2>1
      <3> DEFINE d == q - x - 1
      <3> HIDE DEF x, y, d
      <3>2. d \in Nat /\ q = x + 1 + d  BY <3>1 DEF d
      <3>3. b * q = b * x + b + b * d /\ b * d \in Nat  BY <1>1, <3>2
      <3> QED  BY <1>1, <3>3
    <2>2. CASE q < x
      <3>1. x = q + 1 + (x - q - 1) /\ x - q - 1 \in Nat  BY <1>1, <2>2
      <3> DEFINE d == x - q - 1
      <3> HIDE DEF x, y, d
      <3>2. d \in Nat /\ x = q + 1 + d  BY <3>1 DEF d
      <3>3. b * x = b * q + b + b * d /\ b * d \in Nat  BY <1>1, <3>2
      <3> QED  BY <1>1, <3>3
    <2> HIDE DEF x, y
    <2> QED  BY <1>1, <2>1, <2>2
  <1> HIDE DEF x, y
  <1>3. y = r  BY <1>1, <1>2
  <1> QED  BY <1>2, <1>3 DEF x, y

LEMMA DivideTwice ==
    ASSUME NEW n \in Nat, NEW a \in Nat \ {0}, NEW b \in Nat \ {0}
    PROVE  n \div (a * b) = (n \div a) \div b
  <1> DEFINE x == n \div a  y == n % a  z == x \div b  u == x % b
  <1>1. x \in Nat /\ y \in Nat /\ n = a * x + y /\ y < a  BY Division
  <1> HIDE DEF x, y
  <1>2. z \in Nat /\ u \in Nat /\ x = b * z + u /\ u < b  BY <1>1, Division
  <1> HIDE DEF z, u
  <1>3. a * b \in Nat \ {0}  OBVIOUS
  <1>4. a * x = (a * b) * z + a * u  BY <1>1, <1>2
  <1>5. n = (a * b) * z + (a * u + y)  BY <1>1, <1>2, <1>4
  <1>6. a * u + y < a * b /\ a * u + y \in Nat
    <2>1. b = u + 1 + (b - u - 1) /\ b - u - 1 \in Nat  BY <1>2
    <2> DEFINE d == b - u - 1
    <2> HIDE DEF d
    <2>2. d \in Nat /\ b = u + 1 + d  BY <2>1 DEF d
    <2>3. a * b = a * u + a + a * d /\ a * d \in Nat /\ a * u \in Nat  BY <1>2, <2>2
    <2> QED  BY <1>1, <2>3
  <1>7. n \div (a * b) = z  BY <1>2, <1>3, <1>5, <1>6, DivisionIs
  <1> QED  BY <1>7 DEF x, z

LEMMA NumberOfLowBytes ==
    ASSUME NEW n \in Nat, n < Limit, n # 0
    PROVE  Number(LowBytes(n, Width[LenClass(n)])) = n
  <1> USE BaseAssumption
  <1> DEFINE x1 == n \div Base  x2 == x1 \div Base  x3 == x2 \div Base
             y0 == n % Base  y1 == x1 % Base  y2 == x2 % Base  y3 == x3 % Base
             bytes == LowBytes(n, Width[LenClass(n)])
  <1>1. n \div 1 = n  OBVIOUS
  <1>2. Base \in Nat \ {0} /\ Base * Base \in Nat \ {0}  OBVIOUS
  <1>3. n \div (Base * Base) = x2  BY <1>2, DivideTwice
  <1>4. n \div (Base * Base * Base) = x3
    <2> DEFINE square == Base * Base
    <2>1. square \in Nat \ {0} /\ n \div square = x2 /\ Base \in Nat \ {0}  BY <1>2, <1>3
    <2> HIDE DEF square, x2
    <2>2. n \div (square * Base) = (n \div square) \div Base  BY <2>1, DivideTwice
    <2> QED  BY <2>1, <2>2 DEF square
  <1>5. /\ x1 \in Nat /\ y0 \in Nat /\ n = Base * x1 + y0 /\ y0 < Base
        /\ x2 \in Nat /\ y1 \in Nat /\ x1 = Base * x2 + y1 /\ y1 < Base
        /\ x3 \in Nat /\ y2 \in Nat /\ x2 = Base * x3 + y2 /\ y2 < Base
        /\ y3 \in Nat
    <2>1. /\ x1 \in Nat /\ y0 \in Nat /\ n = Base * x1 + y0 /\ y0 < Base  BY <1>2, Division
    <2>2. /\ x2 \in Nat /\ y1 \in Nat /\ x1 = Base * x2 + y1 /\ y1 < Base  BY <1>2, <2>1, Division
    <2>3. /\ x3 \in Nat /\ y2 \in Nat /\ x2 = Base * x3 + y2 /\ y2 < Base  BY <1>2, <2>2, Division
    <2>4. y3 \in Nat  BY <1>2, <2>3, Division
    <2> QED  BY <2>1, <2>2, <2>3, <2>4
  <1>6. /\ (n \div Place[1]) % Base = y0 /\ (n \div Place[2]) % Base = y1
        /\ (n \div Place[3]) % Base = y2 /\ (n \div Place[4]) % Base = y3
    BY <1>1, <1>3, <1>4 DEF Place
  <1>7. \A w \in {1, 2, 4} :
          /\ DOMAIN LowBytes(n, w) = 1 .. w
          /\ LowBytes(n, w)[1] = y0
          /\ w >= 2 => LowBytes(n, w)[2] = y1
          /\ w = 4 => LowBytes(n, w)[3] = y2 /\ LowBytes(n, w)[4] = y3
    <2> HIDE DEF y0, y1, y2, y3
    <2> QED  BY <1>6 DEF LowBytes
  <1>8. /\ x1 = 0 => n = y0
        /\ x2 = 0 => n = y0 + y1 * Base
        /\ n = y0 + y1 * Base + x2 * (Base * Base)
        /\ n = y0 + y1 * Base + y2 * (Base * Base) + x3 * (Base * Base * Base)
    <2> HIDE DEF y0, y1, y2, y3, x1, x2, x3
    <2>1. x1 * Base = x2 * (Base * Base) + y1 * Base  BY <1>5
    <2>2. x2 * (Base * Base) = x3 * (Base * Base * Base) + y2 * (Base * Base)  BY <1>5
    <2> QED  BY <1>5, <2>1, <2>2
  <1>9. /\ n <= Base - 1 => x1 = 0
        /\ n <= Base * Base - 1 => x2 = 0
        /\ x3 < Base
    <2> HIDE DEF y0, y1, y2, y3, x1, x2, x3
    <2>1. x1 >= 1 => n >= Base
      <3>1. x1 >= 1 => Base * x1 >= Base  BY <1>5
      <3> QED  BY <1>5, <3>1
    <2>2. x2 >= 1 => n >= Base * Base
      <3>1. x2 >= 1 => x2 * (Base * Base) >= Base * Base  BY <1>2, <1>5
      <3>2. y1 * Base \in Nat  BY <1>5
      <3> QED  BY <1>2, <1>5, <1>8, <3>1, <3>2
    <2>3. x3 >= Base => n >= Limit
      <3>1. Base * Base * Base \in Nat  BY <1>2
      <3>2. x3 >= Base => x3 * (Base * Base * Base) >= Base * (Base * Base * Base)
        <4> DEFINE c == Base * Base * Base
        <4> HIDE DEF c
        <4>1. c \in Nat  BY <3>1 DEF c
        <4>2. x3 >= Base => x3 - Base \in Nat /\ x3 = Base + (x3 - Base)  BY <1>5
        <4>3. \A d \in Nat : (Base + d) * c = Base * c + d * c /\ d * c \in Nat  BY <4>1
        <4>4. x3 >= Base => x3 * c >= Base * c  BY <1>5, <4>1, <4>2, <4>3
        <4> QED  BY <4>4 DEF c
      <3>3. y1 * Base \in Nat /\ y2 * (Base * Base) \in Nat  BY <1>2, <1>5
      <3>4. Base * (Base * Base * Base) = Limit  BY DEF Limit
      <3> QED  BY <1>2, <1>5, <1>8, <3>1, <3>2, <3>3, <3>4
    <2>4. Limit \in Nat  BY DEF Limit
    <2> QED  BY <1>2, <1>5, <2>1, <2>2, <2>3, <2>4
  <1>10. y3 = x3
    <2> HIDE DEF y0, y1, y2, y3, x1, x2, x3
    <2>1. x3 = Base * 0 + x3 /\ 0 \in Nat /\ x3 \in Nat /\ x3 < Base  BY <1>5, <1>9
    <2>2. x3 % Base = x3  BY <1>2, <2>1, DivisionIs
    <2> QED  BY <2>2 DEF y3
  <1> HIDE DEF y0, y1, y2, y3, x1, x2, x3
  <1>11. CASE n <= Base - 1
    <2>1. bytes = LowBytes(n, 1)  BY <1>11 DEF LenClass, Width
    <2>2. Number(bytes) = y0 * 1 + 0 + 0 + 0
      BY <1>5, <1>7, <2>1 DEF Number, Place
    <2> QED  BY <1>5, <1>8, <1>9, <1>11, <2>2
  <1>12. CASE n > Base - 1 /\ n <= Base * Base - 1
    <2>1. bytes = LowBytes(n, 2)  BY <1>12 DEF LenClass, Width
    <2>2. Number(bytes) = y0 * 1 + y1 * Base + 0 + 0
      BY <1>5, <1>7, <2>1 DEF Number, Place
    <2> QED  BY <1>5, <1>8, <1>9, <1>12, <2>2
  <1>13. CASE n > Base - 1 /\ n > Base * Base - 1
    <2>1. bytes = LowBytes(n, 4)  BY <1>13 DEF LenClass, Width
    <2>2. Number(bytes) = y0 * 1 + y1 * Base + y2 * (Base * Base) + y3 * (Base * Base * Base)
      BY <1>5, <1>7, <2>1 DEF Number, Place
    <2> QED  BY <1>5, <1>8, <1>10, <2>2
  <1> QED  BY <1>11, <1>12, <1>13

-----------------------------------------------------------------------------
(* Bytes in a memory *)

States == {"OK", "FAILED"}

Sinks == [state : States, offset : Nat, mem : Seq(Nat)]

\* "bytes" follow the first "off" bytes of a memory
At(mem, off, bytes) ==
    /\ off + Len(bytes) <= Len(mem)
    /\ \A i \in 1 .. Len(bytes) : mem[off + i] = bytes[i]

\* Two memories have the same first n bytes
Same(m1, m2, n) == n <= Len(m1) /\ n <= Len(m2) /\ \A i \in 1 .. n : m1[i] = m2[i]

LEMMA AtKept ==
    ASSUME NEW m1 \in Seq(Nat), NEW m2 \in Seq(Nat), NEW n \in Nat, Same(m1, m2, n),
           NEW off \in Nat, NEW bytes \in Seq(Nat), At(m1, off, bytes), off + Len(bytes) <= n
    PROVE  At(m2, off, bytes)
  <1>1. off + Len(bytes) <= Len(m2)
    BY DEF Same
  <1>2. ASSUME NEW i \in 1 .. Len(bytes)
        PROVE  m2[off + i] = bytes[i]
    <2>1. off + i \in 1 .. n  OBVIOUS
    <2> QED  BY <2>1 DEF At, Same
  <1> QED  BY <1>1, <1>2 DEF At

LEMMA SameKept ==
    ASSUME NEW m1 \in Seq(Nat), NEW m2 \in Seq(Nat), NEW m3 \in Seq(Nat), NEW n \in Nat,
           NEW k \in Nat, Same(m1, m2, n), Same(m2, m3, k), n <= k
    PROVE  Same(m1, m3, n)
  BY DEF Same

LEMMA WrittenIs ==
    ASSUME NEW mem \in Seq(Nat), NEW off \in Nat, off <= Len(mem), NEW bytes \in Seq(Nat),
           NEW n \in Nat, n >= Len(mem)
    PROVE  /\ Written(mem, off, bytes, n) \in Seq(Nat)
           /\ Len(Written(mem, off, bytes, n)) = n
           /\ Same(mem, Written(mem, off, bytes, n), off)
           /\ off + Len(bytes) <= n => At(Written(mem, off, bytes, n), off, bytes)
  <1> DEFINE w == Written(mem, off, bytes, n)
             at(i) == IF i - off \in DOMAIN bytes THEN bytes[i - off]
                      ELSE IF i \in DOMAIN mem THEN mem[i] ELSE 0
  <1>1. \A i \in 1 .. n : at(i) \in Nat
    OBVIOUS
  <1>2. w = [i \in 1 .. n |-> at(i)]
    BY DEF Written
  <1>3. w \in Seq(Nat) /\ Len(w) = n /\ \A i \in 1 .. n : w[i] = at(i)
    <2> HIDE DEF at, w
    <2> QED  BY <1>1, <1>2
  <1>4. \A i \in 1 .. off : at(i) = mem[i]
    OBVIOUS
  <1>5. \A i \in 1 .. Len(bytes) : at(off + i) = bytes[i]
    OBVIOUS
  <1> HIDE DEF at, w
  <1>6. Same(mem, w, off)
    BY <1>3, <1>4 DEF Same
  <1>7. off + Len(bytes) <= n => At(w, off, bytes)
    BY <1>3, <1>5 DEF At
  <1> QED
    BY <1>3, <1>6, <1>7 DEF w

\* t is the writer s after it has written "bytes"
Wrote(s, t, bytes) ==
    /\ t \in Sinks /\ t.state = "OK"
    /\ t.offset = s.offset + Len(bytes) /\ Len(t.mem) = Len(s.mem) + Len(bytes)
    /\ Same(s.mem, t.mem, s.offset) /\ At(t.mem, s.offset, bytes)

\* t is the writer s after it could not extend the storage
Stuck(s, t) ==
    /\ t \in Sinks /\ t.state = "FAILED"
    /\ Len(t.mem) = Len(s.mem) /\ Same(s.mem, t.mem, s.offset)

LEMMA StoreIs ==
    ASSUME NEW s \in Sinks, NEW bytes \in Seq(Nat), NEW fails \in BOOLEAN,
           s.state = "OK" => s.offset <= Len(s.mem)
    PROVE  /\ s.state = "FAILED" => store(s, bytes, fails) = s
           /\ s.state = "OK" /\ ~fails => Wrote(s, store(s, bytes, fails), bytes)
           /\ s.state = "OK" /\ fails => Stuck(s, store(s, bytes, fails))
  <1> DEFINE end == s.offset + Len(bytes)
             mem0 == Written(s.mem, s.offset, bytes, Len(s.mem))
             mem1 == Written(s.mem, s.offset, bytes, Len(s.mem) + Len(bytes))
  <1>0. /\ s.state \in States /\ s.offset \in Nat /\ s.mem \in Seq(Nat)
        /\ Len(s.mem) \in Nat /\ Len(bytes) \in Nat /\ end \in Nat
    BY DEF Sinks
  <1>1. CASE s.state = "FAILED"
    BY <1>1 DEF store
  <1>2. CASE s.state = "OK" /\ ~fails
    <2>1. store(s, bytes, fails) = [s EXCEPT !.offset = end, !.mem = mem1]
      BY <1>2 DEF store
    <2>2. /\ mem1 \in Seq(Nat) /\ Len(mem1) = Len(s.mem) + Len(bytes)
          /\ Same(s.mem, mem1, s.offset) /\ At(mem1, s.offset, bytes)
      <3>1. /\ Len(s.mem) + Len(bytes) \in Nat /\ Len(s.mem) + Len(bytes) >= Len(s.mem)
            /\ s.offset <= Len(s.mem) /\ s.offset + Len(bytes) <= Len(s.mem) + Len(bytes)
        BY <1>0, <1>2
      <3> QED  BY <1>0, <3>1, WrittenIs
    <2> HIDE DEF mem1, end
    <2>3. /\ store(s, bytes, fails) \in Sinks
          /\ store(s, bytes, fails).state = "OK" /\ store(s, bytes, fails).mem = mem1
          /\ store(s, bytes, fails).offset = end
      BY <1>0, <1>2, <2>1, <2>2 DEF Sinks
    <2> QED  BY <1>2, <2>2, <2>3 DEF Wrote, end
  <1>3. CASE s.state = "OK" /\ fails
    <2>1. store(s, bytes, fails)
          = [s EXCEPT !.state = "FAILED", !.offset = end, !.mem = mem0]
      BY <1>3 DEF store
    <2>2. /\ mem0 \in Seq(Nat) /\ Len(mem0) = Len(s.mem) /\ Same(s.mem, mem0, s.offset)
      <3>1. Len(s.mem) >= Len(s.mem) /\ s.offset <= Len(s.mem)
        BY <1>0, <1>3
      <3> QED  BY <1>0, <3>1, WrittenIs
    <2> HIDE DEF mem0, end
    <2>4. /\ store(s, bytes, fails) \in Sinks
          /\ store(s, bytes, fails).state = "FAILED" /\ store(s, bytes, fails).mem = mem0
      BY <1>0, <2>1, <2>2 DEF Sinks, States
    <2> QED  BY <1>3, <2>2, <2>4 DEF Stuck
  <1> QED
    BY <1>0, <1>1, <1>2, <1>3 DEF States

-----------------------------------------------------------------------------
(* Items in a memory *)

AllEntries == [type : Types, val : Seq(Nat)]

EntryOK(e) ==
    /\ e \in AllEntries
    /\ e.type \in FixTypes => Len(e.val) = FixLen[e.type]
    /\ e.type \in {"VECTOR", "STRING"} => Len(e.val) < Limit
    /\ e.type = "CNT" => Len(e.val) = 1 /\ e.val[1] < Limit

\* An item is the code of its type, a number for a length or counter, and what
\* else there is of its value
NumberOf(e) ==
    IF e.type \in FixTypes THEN 0 ELSE IF e.type = "CNT" THEN e.val[1] ELSE Len(e.val)

CodeOf(e) ==
    IF e.type \in FixTypes THEN FixCode[e.type]
    ELSE IF e.type = "VECTOR" THEN VectorCode[LenClass(NumberOf(e))]
    ELSE IF e.type = "STRING" THEN StringCode[LenClass(NumberOf(e))]
    ELSE CounterCode[LenClass(NumberOf(e))]

Count(e) == LowBytes(NumberOf(e), Width[LenClass(NumberOf(e))])

Body(e) == IF e.type = "CNT" THEN <<>> ELSE e.val

Size(e) == 1 + Len(Count(e)) + Len(Body(e))

Sits(mem, a, e) ==
    /\ At(mem, a, <<CodeOf(e)>>)
    /\ At(mem, a + 1, Count(e))
    /\ At(mem, a + 1 + Len(Count(e)), Body(e))

\* A memory ends at a, or in the middle of an item there
CutOff(mem, a) ==
    \/ Len(mem) = a
    \/ \E e \in AllEntries :
         /\ EntryOK(e) /\ Len(mem) < a + Size(e) /\ At(mem, a, <<CodeOf(e)>>)
         /\ \/ Len(mem) = a + 1
            \/ Len(mem) = a + 1 + Len(Count(e)) /\ At(mem, a + 1, Count(e))

LEMMA ClassIs ==
    ASSUME NEW n \in Nat
    PROVE  /\ LenClass(n) \in LenClasses
           /\ LenClass(n) = "ZERO" <=> n = 0
           /\ Width[LenClass(n)] \in {0, 1, 2, 4}
           /\ n = 0 => Width[LenClass(n)] = 0
           /\ n # 0 => Width[LenClass(n)] # 0
  BY BaseAssumption DEF LenClass, LenClasses, Width

LEMMA WidthIs ==
    \A c \in LenClasses : Width[c] \in Nat
  BY DEF LenClasses, Width

LEMMA LowBytesIs ==
    ASSUME NEW n \in Nat, NEW w \in {0, 1, 2, 4}
    PROVE  LowBytes(n, w) \in Seq(Nat) /\ Len(LowBytes(n, w)) = w
  <1>1. ASSUME NEW i \in 1 .. w
        PROVE  (n \div Place[i]) % Base \in Nat
    <2>1. Place[i] \in Nat \ {0}
      <3>1. Base * Base \in Nat \ {0} /\ Base * Base * Base \in Nat \ {0}
        BY BaseAssumption
      <3> QED  BY <3>1, BaseAssumption DEF Place
    <2>2. n \div Place[i] \in Nat
      BY <2>1, Division
    <2> QED  BY <2>2, BaseAssumption, Division
  <1> DEFINE at(i) == (n \div Place[i]) % Base
  <1>2. LowBytes(n, w) = [i \in 1 .. w |-> at(i)] /\ \A i \in 1 .. w : at(i) \in Nat
    BY <1>1 DEF LowBytes
  <1> HIDE DEF at
  <1> QED  BY <1>2

LEMMA CodesAre ==
    /\ \A t \in FixTypes : FixCode[t] \in 17 .. 26 /\ FixLen[t] \in {1, 2, 4, 8}
    /\ \A t, u \in FixTypes : FixCode[t] = FixCode[u] => t = u
    /\ \A c \in LenClasses :
         VectorCode[c] \in 32 .. 36 /\ StringCode[c] \in 48 .. 52 /\ CounterCode[c] \in 64 .. 67
    /\ \A c, d \in LenClasses :
         /\ VectorCode[c] = VectorCode[d] => c = d
         /\ StringCode[c] = StringCode[d] => c = d
         /\ CounterCode[c] = CounterCode[d] => c = d
  <1>1. \A t \in FixTypes : FixCode[t] \in 17 .. 26 /\ FixLen[t] \in {1, 2, 4, 8}
    BY DEF FixTypes, FixCode, FixLen
  <1>2. \A t, u \in FixTypes : FixCode[t] = FixCode[u] => t = u
    BY DEF FixTypes, FixCode
  <1>3. \A c \in LenClasses :
         VectorCode[c] \in 32 .. 36 /\ StringCode[c] \in 48 .. 52 /\ CounterCode[c] \in 64 .. 67
    BY DEF LenClasses, VectorCode, StringCode, CounterCode
  <1>4. \A c, d \in LenClasses :
         /\ VectorCode[c] = VectorCode[d] => c = d
         /\ StringCode[c] = StringCode[d] => c = d
         /\ CounterCode[c] = CounterCode[d] => c = d
    BY DEF LenClasses, VectorCode, StringCode, CounterCode
  <1> QED  BY <1>1, <1>2, <1>3, <1>4

LEMMA EntryIs ==
    ASSUME NEW e, EntryOK(e)
    PROVE  /\ e.type \in Types /\ e.val \in Seq(Nat)
           /\ NumberOf(e) \in Nat /\ NumberOf(e) < Limit
           /\ Count(e) \in Seq(Nat) /\ Len(Count(e)) = Width[LenClass(NumberOf(e))]
           /\ CodeOf(e) \in Nat /\ Body(e) \in Seq(Nat)
           /\ e.type \in FixTypes => NumberOf(e) = 0 /\ Len(Body(e)) = FixLen[e.type]
           /\ e.type \in {"VECTOR", "STRING"} => NumberOf(e) = Len(Body(e))
           /\ e.type = "CNT" => e.val = <<NumberOf(e)>>
           /\ Size(e) \in Nat \ {0}
  <1>0. e.type \in Types /\ e.val \in Seq(Nat)
    BY DEF EntryOK, AllEntries
  <1>1. Limit \in Nat /\ Limit > 0
    <2>1. Base * Base \in Nat \ {0} /\ Base * Base * Base \in Nat \ {0}  BY BaseAssumption
    <2>2. Base * Base * Base * Base \in Nat \ {0}  BY <2>1, BaseAssumption
    <2> QED  BY <2>2 DEF Limit
  <1>2. "CNT" \notin FixTypes /\ "VECTOR" \notin FixTypes /\ "STRING" \notin FixTypes
    BY DEF FixTypes
  <1>3. NumberOf(e) \in Nat /\ NumberOf(e) < Limit
    BY <1>0, <1>1 DEF EntryOK, NumberOf, Types
  <1>4. Count(e) \in Seq(Nat) /\ Len(Count(e)) = Width[LenClass(NumberOf(e))]
    BY <1>3, ClassIs, LowBytesIs DEF Count
  <1>5. CodeOf(e) \in Nat
    BY <1>3, ClassIs, CodesAre DEF CodeOf
  <1>6. Body(e) \in Seq(Nat)
    BY <1>0 DEF Body
  <1>7. /\ e.type \in FixTypes => NumberOf(e) = 0 /\ Len(Body(e)) = FixLen[e.type]
        /\ e.type \in {"VECTOR", "STRING"} => NumberOf(e) = Len(Body(e))
    BY <1>2 DEF NumberOf, Body, EntryOK
  <1>8. e.type = "CNT" => e.val = <<NumberOf(e)>>
    BY <1>0, <1>2 DEF NumberOf, EntryOK
  <1>9. Size(e) \in Nat \ {0}
    BY <1>4, <1>6 DEF Size
  <1> QED
    BY <1>0, <1>3, <1>4, <1>5, <1>6, <1>7, <1>8, <1>9

-----------------------------------------------------------------------------
(* What a store does *)

\* t is the writer s after a whole item, or after one that was not stored whole
Whole(s, t, e) ==
    /\ t \in Sinks /\ t.state = "OK"
    /\ t.offset = s.offset + Size(e) /\ Len(t.mem) = Len(s.mem) + Size(e)
    /\ Same(s.mem, t.mem, s.offset) /\ Sits(t.mem, s.offset, e)

Cut(s, t) ==
    /\ t \in Sinks /\ t.state = "FAILED"
    /\ Len(t.mem) >= Len(s.mem) /\ Same(s.mem, t.mem, s.offset)
    /\ Len(s.mem) = s.offset => CutOff(t.mem, s.offset)

\* t is the writer s after the code and the number of an item
Begun(s, t, e) ==
    /\ t \in Sinks /\ t.state = "OK"
    /\ t.offset = s.offset + 1 + Len(Count(e)) /\ Len(t.mem) = Len(s.mem) + 1 + Len(Count(e))
    /\ Same(s.mem, t.mem, s.offset)
    /\ At(t.mem, s.offset, <<CodeOf(e)>>) /\ At(t.mem, s.offset + 1, Count(e))

LEMMA StuckAtOnce ==
    ASSUME NEW s \in Sinks, s.offset <= Len(s.mem), NEW t, Stuck(s, t)
    PROVE  Cut(s, t)
  BY DEF Stuck, Cut, CutOff, Sinks

LEMMA StuckLater ==
    ASSUME NEW s \in Sinks, s.offset <= Len(s.mem), NEW e, EntryOK(e),
           NEW t, NEW u, Stuck(t, u),
           \/ Wrote(s, t, <<CodeOf(e)>>) /\ Size(e) > 1
           \/ Begun(s, t, e) /\ Body(e) # <<>>
    PROVE  Cut(s, u)
  <1>0. /\ s.mem \in Seq(Nat) /\ s.offset \in Nat /\ Len(s.mem) \in Nat
        /\ CodeOf(e) \in Nat /\ Count(e) \in Seq(Nat) /\ Body(e) \in Seq(Nat)
        /\ <<CodeOf(e)>> \in Seq(Nat) /\ Len(<<CodeOf(e)>>) = 1
        /\ Len(Count(e)) \in Nat /\ Len(Body(e)) \in Nat
    BY EntryIs DEF Sinks
  <1>1. /\ t \in Sinks /\ t.state = "OK"
        /\ t.offset >= s.offset + 1 /\ Len(t.mem) >= Len(s.mem)
        /\ Same(s.mem, t.mem, s.offset) /\ At(t.mem, s.offset, <<CodeOf(e)>>)
    BY <1>0 DEF Wrote, Begun
  <1>2. /\ u \in Sinks /\ u.state = "FAILED"
        /\ Len(u.mem) = Len(t.mem) /\ Same(t.mem, u.mem, t.offset)
    BY DEF Stuck
  <1>3. t.mem \in Seq(Nat) /\ u.mem \in Seq(Nat) /\ t.offset \in Nat /\ s.offset <= t.offset
    BY <1>0, <1>1, <1>2 DEF Sinks
  <1>4. Same(s.mem, u.mem, s.offset)
    BY <1>0, <1>1, <1>2, <1>3, SameKept
  <1>5. At(u.mem, s.offset, <<CodeOf(e)>>)
    BY <1>0, <1>1, <1>2, <1>3, AtKept
  <1>6. ASSUME Len(s.mem) = s.offset
        PROVE  CutOff(u.mem, s.offset)
    <2>1. CASE Wrote(s, t, <<CodeOf(e)>>) /\ Size(e) > 1
      <3>1. Len(u.mem) = s.offset + 1 /\ Len(u.mem) < s.offset + Size(e)
        BY <1>0, <1>2, <1>6, <2>1, EntryIs DEF Wrote
      <3> QED  BY <1>5, <3>1 DEF CutOff, EntryOK
    <2>2. CASE Begun(s, t, e) /\ Body(e) # <<>>
      <3>1. Len(u.mem) = s.offset + 1 + Len(Count(e))
        BY <1>0, <1>2, <1>6, <2>2 DEF Begun
      <3>2. Len(u.mem) < s.offset + Size(e)
        BY <1>0, <2>2, <3>1 DEF Size
      <3>3. At(t.mem, s.offset + 1, Count(e)) /\ s.offset + 1 + Len(Count(e)) <= t.offset
        BY <1>0, <2>2 DEF Begun
      <3>4. At(u.mem, s.offset + 1, Count(e))
        <4>1. s.offset + 1 \in Nat  BY <1>0
        <4> QED  BY <1>0, <1>2, <1>3, <3>3, <4>1, AtKept
      <3> QED  BY <1>5, <3>1, <3>2, <3>4 DEF CutOff, EntryOK
    <2> QED  BY <2>1, <2>2
  <1> QED
    BY <1>0, <1>1, <1>2, <1>4, <1>6 DEF Cut

\* The code of an item, then its number
LEMMA CodeThenCount ==
    ASSUME NEW s \in Sinks, NEW t, NEW u, NEW e, EntryOK(e),
           Wrote(s, t, <<CodeOf(e)>>), Wrote(t, u, Count(e))
    PROVE  Begun(s, u, e)
  <1> DEFINE b1 == <<CodeOf(e)>>  b2 == Count(e)
  <1>0. b1 \in Seq(Nat) /\ Len(b1) = 1 /\ b2 \in Seq(Nat)
    BY EntryIs
  <1> HIDE DEF b1, b2
  <1>1. /\ t \in Sinks /\ u \in Sinks /\ u.state = "OK"
        /\ t.offset = s.offset + 1 /\ u.offset = t.offset + Len(b2)
        /\ Len(t.mem) = Len(s.mem) + 1 /\ Len(u.mem) = Len(t.mem) + Len(b2)
        /\ Same(s.mem, t.mem, s.offset) /\ Same(t.mem, u.mem, t.offset)
        /\ At(t.mem, s.offset, b1) /\ At(u.mem, t.offset, b2)
    BY <1>0 DEF Wrote, b1, b2
  <1>2. /\ s.mem \in Seq(Nat) /\ t.mem \in Seq(Nat) /\ u.mem \in Seq(Nat)
        /\ s.offset \in Nat /\ t.offset \in Nat /\ Len(b2) \in Nat
        /\ Len(s.mem) \in Nat
    <2>1. \A x \in Sinks : x.mem \in Seq(Nat) /\ x.offset \in Nat  BY DEF Sinks
    <2>2. t \in Sinks /\ u \in Sinks  BY <1>1
    <2>3. Len(b2) \in Nat  BY <1>0
    <2>4. \A m \in Seq(Nat) : Len(m) \in Nat  OBVIOUS
    <2> QED  BY <2>1, <2>2, <2>3, <2>4
  <1>3. s.offset <= t.offset /\ s.offset + Len(b1) <= t.offset
    <2>1. t.offset = s.offset + 1 /\ s.offset \in Nat  BY <1>1, <1>2
    <2>2. s.offset + Len(b1) = s.offset + 1  BY <1>0
    <2> QED  BY <2>1, <2>2
  <1>4. Same(s.mem, u.mem, s.offset)
    BY <1>1, <1>2, <1>3, SameKept
  <1>5. At(u.mem, s.offset, b1)
    BY <1>0, <1>1, <1>2, <1>3, AtKept
  <1>6. At(u.mem, s.offset + 1, b2)
    BY <1>1
  <1>7. u.offset = s.offset + 1 + Len(b2) /\ Len(u.mem) = Len(s.mem) + 1 + Len(b2)
    BY <1>1
  <1> QED
    BY <1>1, <1>4, <1>5, <1>6, <1>7 DEF Begun, b1, b2

LEMMA StoreCountIs ==
    ASSUME NEW s \in Sinks, s.state = "OK", s.offset <= Len(s.mem), NEW e, EntryOK(e),
           NEW code, CodeOf(e) = code[LenClass(NumberOf(e))], NEW fail \in 0 .. 3,
           NEW t, t = StoreCount(s, code, NumberOf(e), fail)
    PROVE  Begun(s, t, e) \/ Cut(s, t)
  <1> DEFINE n == NumberOf(e)
             typed == store(s, <<CodeOf(e)>>, fail = 1)
  <1>0. /\ s.mem \in Seq(Nat) /\ s.offset \in Nat /\ Len(s.mem) \in Nat
        /\ <<CodeOf(e)>> \in Seq(Nat) /\ Len(<<CodeOf(e)>>) = 1
        /\ n \in Nat /\ Count(e) \in Seq(Nat) /\ Len(Count(e)) = Width[LenClass(n)]
        /\ Len(Count(e)) \in Nat /\ (n = 0 <=> Len(Count(e)) = 0)
    BY EntryIs, ClassIs DEF Sinks
  <1>1. \/ Wrote(s, typed, <<CodeOf(e)>>)
        \/ Stuck(s, typed)
    <2>1. (fail = 1) \in BOOLEAN  OBVIOUS
    <2> QED  BY <1>0, <2>1, StoreIs
  <1>2. t = IF n = 0 THEN typed ELSE store(typed, Count(e), fail = 2)
    BY DEF StoreCount, Count
  <1> HIDE DEF typed, n
  <1>3. CASE Stuck(s, typed)
    <2>1. typed \in Sinks /\ typed.state = "FAILED"
      BY <1>3 DEF Stuck
    <2>2. t = typed
      <3>1. (fail = 2) \in BOOLEAN  OBVIOUS
      <3> QED  BY <1>0, <1>2, <2>1, <3>1, StoreIs
    <2> QED  BY <1>3, <2>2, StuckAtOnce
  <1>4. CASE Wrote(s, typed, <<CodeOf(e)>>) /\ n = 0
    <2>1. t = typed  BY <1>2, <1>4
    <2>2. /\ t \in Sinks /\ t.state = "OK"
          /\ t.offset = s.offset + 1 /\ Len(t.mem) = Len(s.mem) + 1
          /\ Same(s.mem, t.mem, s.offset) /\ At(t.mem, s.offset, <<CodeOf(e)>>)
      BY <1>0, <1>4, <2>1 DEF Wrote
    <2>3. At(t.mem, s.offset + 1, Count(e))
      BY <1>0, <1>4, <2>2 DEF At
    <2> QED  BY <1>0, <1>4, <2>2, <2>3 DEF Begun
  <1>5. CASE Wrote(s, typed, <<CodeOf(e)>>) /\ n # 0
    <2>1. t = store(typed, Count(e), fail = 2)  BY <1>2, <1>5
    <2>2. /\ typed \in Sinks /\ typed.state = "OK"
          /\ typed.offset = s.offset + 1 /\ Len(typed.mem) = Len(s.mem) + 1
      BY <1>0, <1>5 DEF Wrote
    <2>3. typed.offset <= Len(typed.mem)
      BY <1>0, <2>2
    <2>4. Wrote(typed, t, Count(e)) \/ Stuck(typed, t)
      <3>1. (fail = 2) \in BOOLEAN  OBVIOUS
      <3> QED  BY <1>0, <2>1, <2>2, <2>3, <3>1, StoreIs
    <2>5. CASE Wrote(typed, t, Count(e))
      BY <1>5, <2>5, CodeThenCount
    <2>6. CASE Stuck(typed, t)
      <3>1. Size(e) > 1
        BY <1>0, <1>5, EntryIs DEF Size
      <3> QED  BY <1>5, <2>6, <3>1, StuckLater
    <2> QED  BY <2>4, <2>5, <2>6
  <1> QED  BY <1>1, <1>3, <1>4, <1>5

\* The value follows what was written of the item
LEMMA StoreBodyIs ==
    ASSUME NEW s \in Sinks, s.state = "OK", s.offset <= Len(s.mem), NEW e, EntryOK(e),
           NEW t, Begun(s, t, e) \/ Cut(s, t), NEW fails \in BOOLEAN,
           NEW u, u = store(t, Body(e), fails), Body(e) # <<>>
    PROVE  Whole(s, u, e) \/ Cut(s, u)
  <1>0. /\ s.mem \in Seq(Nat) /\ s.offset \in Nat /\ Len(s.mem) \in Nat
        /\ <<CodeOf(e)>> \in Seq(Nat) /\ Len(<<CodeOf(e)>>) = 1
        /\ Count(e) \in Seq(Nat) /\ Len(Count(e)) \in Nat
        /\ Body(e) \in Seq(Nat) /\ Len(Body(e)) \in Nat
    BY EntryIs DEF Sinks
  <1>n. s.offset \in Nat /\ Len(s.mem) \in Nat /\ Len(Count(e)) \in Nat /\ Len(Body(e)) \in Nat
    BY <1>0
  <1>z. Size(e) = 1 + Len(Count(e)) + Len(Body(e))
    BY DEF Size
  <1>1. CASE Cut(s, t)
    <2>1. t \in Sinks /\ t.state = "FAILED"  BY <1>1 DEF Cut
    <2>2. u = t  BY <1>0, <2>1, StoreIs
    <2> QED  BY <1>1, <2>2
  <1>2. CASE Begun(s, t, e)
    <2>1. /\ t \in Sinks /\ t.state = "OK"
          /\ t.offset = s.offset + 1 + Len(Count(e)) /\ Len(t.mem) = Len(s.mem) + 1 + Len(Count(e))
          /\ Same(s.mem, t.mem, s.offset)
          /\ At(t.mem, s.offset, <<CodeOf(e)>>) /\ At(t.mem, s.offset + 1, Count(e))
      BY <1>2 DEF Begun
    <2>2. t.offset <= Len(t.mem) /\ t.mem \in Seq(Nat) /\ t.offset \in Nat
      BY <1>0, <2>1 DEF Sinks
    <2>3. Wrote(t, u, Body(e)) \/ Stuck(t, u)
      BY <1>0, <2>1, <2>2, StoreIs
    <2>4. CASE Stuck(t, u)
      BY <1>2, <2>4, StuckLater
    <2>5. CASE Wrote(t, u, Body(e))
      <3>1. /\ u \in Sinks /\ u.state = "OK"
            /\ u.offset = t.offset + Len(Body(e)) /\ Len(u.mem) = Len(t.mem) + Len(Body(e))
            /\ Same(t.mem, u.mem, t.offset) /\ At(u.mem, t.offset, Body(e))
        BY <2>5 DEF Wrote
      <3>2. /\ u.mem \in Seq(Nat) /\ s.offset + 1 \in Nat
            /\ s.offset <= t.offset /\ s.offset + 1 <= t.offset
            /\ s.offset + 1 + Len(Count(e)) <= t.offset
        <4>1. u.mem \in Seq(Nat)  BY <3>1 DEF Sinks
        <4>2. t.offset = s.offset + 1 + Len(Count(e))  BY <2>1
        <4> QED  BY <1>n, <4>1, <4>2
      <3>3. Same(s.mem, u.mem, s.offset)
        BY <1>0, <2>1, <2>2, <3>1, <3>2, SameKept
      <3>4. At(u.mem, s.offset, <<CodeOf(e)>>)
        <4>1. s.offset + Len(<<CodeOf(e)>>) <= t.offset  BY <1>0, <3>2
        <4>2. /\ t.mem \in Seq(Nat) /\ u.mem \in Seq(Nat) /\ t.offset \in Nat /\ s.offset \in Nat
              /\ <<CodeOf(e)>> \in Seq(Nat) /\ Same(t.mem, u.mem, t.offset)
              /\ At(t.mem, s.offset, <<CodeOf(e)>>)
          BY <1>0, <2>1, <2>2, <3>1, <3>2
        <4> QED  BY <4>1, <4>2, AtKept
      <3>5. At(u.mem, s.offset + 1, Count(e))
        <4>1. s.offset + 1 + Len(Count(e)) <= t.offset  BY <3>2
        <4>2. /\ t.mem \in Seq(Nat) /\ u.mem \in Seq(Nat) /\ t.offset \in Nat /\ s.offset + 1 \in Nat
              /\ Count(e) \in Seq(Nat) /\ Same(t.mem, u.mem, t.offset)
              /\ At(t.mem, s.offset + 1, Count(e))
          BY <1>0, <2>1, <2>2, <3>1, <3>2
        <4> DEFINE o1 == s.offset + 1
        <4> HIDE DEF o1
        <4>3. o1 \in Nat /\ o1 + Len(Count(e)) <= t.offset /\ At(t.mem, o1, Count(e))
          BY <4>1, <4>2 DEF o1
        <4>4. At(u.mem, o1, Count(e))
          BY <4>2, <4>3, AtKept
        <4> QED  BY <4>4 DEF o1
      <3>6. Sits(u.mem, s.offset, e)
        BY <2>1, <3>1, <3>4, <3>5 DEF Sits
      <3>7. u.offset = s.offset + Size(e) /\ Len(u.mem) = Len(s.mem) + Size(e)
        <4> DEFINE c == Len(Count(e))  b == Len(Body(e))
                   m0 == Len(s.mem)  m1 == Len(t.mem)  m2 == Len(u.mem)
        <4>1. /\ t.offset = s.offset + 1 + c /\ m1 = m0 + 1 + c
              /\ u.offset = t.offset + b /\ m2 = m1 + b
              /\ Size(e) = 1 + c + b /\ c \in Nat /\ b \in Nat /\ m0 \in Nat
          BY <1>n, <1>z, <2>1, <3>1
        <4> HIDE DEF c, b, m0, m1, m2
        <4>2. u.offset = s.offset + Size(e) /\ m2 = m0 + Size(e)
          BY <1>n, <4>1
        <4> QED  BY <4>2 DEF m0, m2
      <3> QED  BY <2>1, <3>1, <3>3, <3>6, <3>7 DEF Whole
    <2> QED  BY <2>3, <2>4, <2>5
  <1> QED  BY <1>1, <1>2

\* No value follows: the item is whole
LEMMA BegunIsWhole ==
    ASSUME NEW s \in Sinks, s.offset <= Len(s.mem), NEW e, EntryOK(e),
           NEW t, Begun(s, t, e), Body(e) = <<>>
    PROVE  Whole(s, t, e)
  <1>0. /\ s.mem \in Seq(Nat) /\ s.offset \in Nat /\ Len(s.mem) \in Nat
        /\ Len(Count(e)) \in Nat /\ Len(Body(e)) = 0
    BY EntryIs DEF Sinks
  <1>1. /\ t \in Sinks /\ t.state = "OK"
        /\ t.offset = s.offset + 1 + Len(Count(e)) /\ Len(t.mem) = Len(s.mem) + 1 + Len(Count(e))
        /\ Same(s.mem, t.mem, s.offset)
        /\ At(t.mem, s.offset, <<CodeOf(e)>>) /\ At(t.mem, s.offset + 1, Count(e))
    BY DEF Begun
  <1>2. Size(e) = 1 + Len(Count(e))
    BY <1>0 DEF Size
  <1>3. t.offset = s.offset + Size(e) /\ Len(t.mem) = Len(s.mem) + Size(e)
    <2> DEFINE c == Len(Count(e))  m0 == Len(s.mem)  m1 == Len(t.mem)
    <2>1. /\ s.offset \in Nat /\ m0 \in Nat /\ c \in Nat
          /\ t.offset = s.offset + 1 + c /\ m1 = m0 + 1 + c /\ Size(e) = 1 + c
      BY <1>0, <1>1, <1>2
    <2> HIDE DEF c, m0, m1
    <2>2. t.offset = s.offset + Size(e) /\ m1 = m0 + Size(e)
      BY <2>1
    <2> QED  BY <2>2 DEF m0, m1
  <1>4. s.offset + 1 + Len(Count(e)) + Len(Body(e)) <= Len(t.mem)
    <2>1. /\ s.offset \in Nat /\ Len(s.mem) \in Nat /\ Len(Count(e)) \in Nat
          /\ Len(Body(e)) = 0 /\ Len(t.mem) = Len(s.mem) + 1 + Len(Count(e))
      BY <1>0, <1>1
    <2> QED  BY <2>1
  <1>5. At(t.mem, s.offset + 1 + Len(Count(e)), Body(e))
    BY <1>0, <1>4 DEF At
  <1> QED  BY <1>1, <1>3, <1>5 DEF Whole, Sits

LEMMA StoreWithIs ==
    ASSUME NEW it \in Items, NEW fail \in 0 .. 3, Sink \in Sinks,
           writer.state = "OK", writer.offset <= Len(storage)
    PROVE  \/ EntryOK(Entry(it)) /\ Whole(Sink, StoreWith(it, fail), Entry(it))
           \/ Cut(Sink, StoreWith(it, fail))
  <1> DEFINE e == Entry(it)  s == Sink  t == StoreWith(it, fail)
  <1>0. /\ s \in Sinks /\ s.state = "OK" /\ s.offset <= Len(s.mem)
        /\ s.mem \in Seq(Nat) /\ s.offset \in Nat /\ Len(s.mem) \in Nat
    BY DEF Sink, Sinks
  <1>1. /\ it.val \in Seq(Nat) /\ it.by \in {"FIX", "VAR", "CNT"}
        /\ it.by = "FIX" /\ get_type(it.type) \in FixTypes => Len(it.val) = FixLen[get_type(it.type)]
        /\ it.by = "VAR" => Len(it.val) < Limit
        /\ it.by = "CNT" => it.type = "CNT" /\ Len(it.val) = 1 /\ it.val[1] < Limit
    BY ItemsAssumption DEF ItemOK
  <1>2. e.type = get_type(it.type) /\ e.val = it.val
    BY DEF Entry
  <1>3. "CNT" \notin FixTypes /\ "VECTOR" \notin FixTypes /\ "STRING" \notin FixTypes
    BY DEF FixTypes
  <1>4. (fail = 1) \in BOOLEAN /\ (fail = 2) \in BOOLEAN /\ (fail = 3) \in BOOLEAN
    OBVIOUS
  <1>5. Cut(s, [s EXCEPT !.state = "FAILED"])
    <2> DEFINE f == [s EXCEPT !.state = "FAILED"]
    <2>1. f \in Sinks /\ f.state = "FAILED" /\ f.mem = s.mem
      BY <1>0 DEF Sinks, States
    <2>2. Stuck(s, f)
      <3> HIDE DEF f, s
      <3> QED  BY <1>0, <2>1 DEF Stuck, Same
    <2>3. s \in Sinks /\ s.offset <= Len(s.mem)  BY <1>0
    <2> HIDE DEF f, s
    <2>4. Cut(s, f)  BY <2>2, <2>3, StuckAtOnce
    <2> QED  BY <2>4 DEF f
  <1> HIDE DEF s
  <1>6. CASE it.by = "FIX"
    <2>1. t = StoreFix(s, it, fail)
      BY <1>6 DEF StoreWith, s
    <2>2. CASE get_type(it.type) \notin FixTypes
      BY <1>5, <2>1, <2>2 DEF StoreFix, s
    <2>3. CASE get_type(it.type) \in FixTypes
      <3>1. EntryOK(e)
        BY <1>1, <1>2, <1>3, <1>6, <2>3, Zenon DEF EntryOK, AllEntries, Entry, Types
      <3>2. /\ CodeOf(e) = FixCode[get_type(it.type)] /\ NumberOf(e) = 0
            /\ Body(e) = it.val /\ Body(e) # <<>>
        <4>1. Len(it.val) # 0  BY <1>1, <1>6, <2>3, CodesAre
        <4> QED  BY <1>1, <1>2, <1>3, <2>3, <4>1 DEF CodeOf, NumberOf, Body
      <3> DEFINE typed == StoreCount(s, [c \in LenClasses |-> CodeOf(e)], NumberOf(e), fail)
      <3>3. typed = store(s, <<FixCode[get_type(it.type)]>>, fail = 1)
        BY <3>2, ClassIs DEF StoreCount
      <3>4. Begun(s, typed, e) \/ Cut(s, typed)
        <4> DEFINE code == [c \in LenClasses |-> CodeOf(e)]
        <4>1. CodeOf(e) = code[LenClass(NumberOf(e))]
          BY <3>2, ClassIs
        <4> HIDE DEF code
        <4> QED  BY <1>0, <3>1, <4>1, StoreCountIs DEF code
      <3>5. t = store(typed, Body(e), fail = 2)
        BY <2>1, <2>3, <3>2, <3>3 DEF StoreFix
      <3> HIDE DEF typed
      <3> QED  BY <1>0, <1>4, <3>1, <3>2, <3>4, <3>5, StoreBodyIs DEF s
    <2> QED  BY <2>2, <2>3
  <1>7. CASE it.by = "VAR"
    <2>1. t = StoreVar(s, it, fail)
      BY <1>7 DEF StoreWith, s
    <2>2. CASE it.type \notin {"VECTOR", "STRING"}
      BY <1>5, <2>1, <2>2 DEF StoreVar, s
    <2>3. CASE it.type \in {"VECTOR", "STRING"}
      <3> DEFINE code == IF it.type = "VECTOR" THEN VectorCode ELSE StringCode
                 counted == StoreCount(s, code, NumberOf(e), fail)
      <3>1. e.type = it.type
        BY <1>2, <2>3 DEF get_type
      <3>2. EntryOK(e)
        BY <1>1, <1>2, <1>3, <1>7, <2>3, <3>1, Zenon DEF EntryOK, AllEntries, Entry, Types
      <3>3. NumberOf(e) = Len(it.val) /\ Body(e) = it.val
        BY <1>2, <1>3, <2>3, <3>1 DEF NumberOf, Body
      <3>4. CodeOf(e) = code[LenClass(NumberOf(e))]
        BY <1>3, <2>3, <3>1 DEF CodeOf
      <3>5. Begun(s, counted, e) \/ Cut(s, counted)
        BY <1>0, <3>2, <3>4, StoreCountIs
      <3>6. t = IF Body(e) = <<>> THEN counted ELSE store(counted, Body(e), fail = 3)
        BY <2>1, <2>3, <3>3 DEF StoreVar
      <3> HIDE DEF counted
      <3>7. CASE Body(e) = <<>>
        BY <1>0, <3>2, <3>5, <3>6, <3>7, BegunIsWhole DEF s
      <3>8. CASE Body(e) # <<>>
        BY <1>0, <1>4, <3>2, <3>5, <3>6, <3>8, StoreBodyIs DEF s
      <3> QED  BY <3>7, <3>8
    <2> QED  BY <2>2, <2>3
  <1>8. CASE it.by = "CNT"
    <2>1. t = StoreCount(s, CounterCode, it.val[1], fail)
      BY <1>8 DEF StoreWith, StoreCnt, s
    <2>2. e.type = "CNT"
      BY <1>1, <1>2, <1>8 DEF get_type
    <2>3. EntryOK(e)
      BY <1>1, <1>2, <1>3, <1>8, <2>2, Zenon DEF EntryOK, AllEntries, Entry, Types
    <2>4. NumberOf(e) = it.val[1] /\ Body(e) = <<>>
      BY <1>2, <1>3, <2>2 DEF NumberOf, Body
    <2>5. CodeOf(e) = CounterCode[LenClass(NumberOf(e))]
      BY <1>3, <2>2 DEF CodeOf
    <2>6. Begun(s, t, e) \/ Cut(s, t)
      BY <1>0, <2>1, <2>3, <2>4, <2>5, StoreCountIs
    <2> QED  BY <1>0, <2>3, <2>4, <2>6, BegunIsWhole DEF s
  <1> QED
    BY <1>1, <1>6, <1>7, <1>8

-----------------------------------------------------------------------------
(* What a load does *)

Sources == [state : States, offset : Nat, got : Seq(Nat)]

LEMMA LoadIs ==
    ASSUME storage \in Seq(Nat), NEW s \in Sources, s.offset <= Len(storage), NEW n \in Nat
    PROVE  /\ load(s, n) \in Sources
           /\ load(s, n).offset <= Len(storage)
           /\ s.state = "FAILED" => load(s, n) = s
           /\ s.state = "OK" /\ s.offset + n > Len(storage) => load(s, n).state = "FAILED"
           /\ s.state = "OK" /\ s.offset + n <= Len(storage) =>
                /\ load(s, n).state = "OK" /\ load(s, n).offset = s.offset + n
                /\ Len(load(s, n).got) = n
                /\ \A i \in 1 .. n : load(s, n).got[i] = storage[s.offset + i]
  <1>0. /\ s.state \in States /\ s.offset \in Nat /\ s.got \in Seq(Nat)
        /\ Len(storage) \in Nat
    BY DEF Sources
  <1>1. CASE s.state = "FAILED"
    BY <1>1 DEF load
  <1>2. CASE s.state = "OK" /\ s.offset + n > Len(storage)
    <2>1. load(s, n) = [s EXCEPT !.state = "FAILED", !.got = <<>>]
      BY <1>2 DEF load
    <2>2. <<>> \in Seq(Nat) /\ "FAILED" \in States
      BY DEF States
    <2>3. /\ load(s, n) \in Sources /\ load(s, n).state = "FAILED"
          /\ load(s, n).offset = s.offset
      BY <1>0, <2>1, <2>2 DEF Sources
    <2>4. load(s, n).offset <= Len(storage)  BY <2>3
    <2> HIDE DEF load
    <2>5. ~(s.offset + n <= Len(storage)) /\ s.state # "FAILED"  BY <1>0, <1>2
    <2> QED  BY <2>3, <2>4, <2>5
  <1>3. CASE s.state = "OK" /\ s.offset + n <= Len(storage)
    <2> DEFINE got == SubSeq(storage, s.offset + 1, s.offset + n)  end == s.offset + n
    <2>1. load(s, n) = [s EXCEPT !.offset = end, !.got = got]
      BY <1>0, <1>3 DEF load
    <2>2. got \in Seq(Nat) /\ Len(got) = n /\ \A i \in 1 .. n : got[i] = storage[s.offset + i]
      <3> DEFINE m == s.offset + 1  k == s.offset + n
      <3>1. /\ m \in Int /\ k \in Int /\ k - m + 1 = n /\ (m <= k <=> 1 <= n)
            /\ m >= 1 /\ k <= Len(storage) /\ \A i \in 1 .. n : m + i - 1 = s.offset + i
        <4>1. s.offset \in Nat  BY <1>0
        <4>2. k <= Len(storage)  BY <1>3
        <4>3. m \in Int /\ k \in Int /\ m >= 1  BY <4>1
        <4>4. k - m + 1 = n /\ (m <= k <=> 1 <= n)  BY <4>1
        <4>5. \A i \in 1 .. n : m + i - 1 = s.offset + i  BY <4>1
        <4> QED  BY <4>2, <4>3, <4>4, <4>5
      <3> HIDE DEF m, k
      <3>2. \A i \in m .. k : storage[i] \in Nat  BY <1>0, <3>1
      <3>3. /\ SubSeq(storage, m, k) \in Seq(Nat)
            /\ Len(SubSeq(storage, m, k)) = IF m <= k THEN k - m + 1 ELSE 0
            /\ \A i \in 1 .. k - m + 1 : SubSeq(storage, m, k)[i] = storage[m + i - 1]
        BY <3>1, <3>2, SubSeqProperties
      <3>4. got = SubSeq(storage, m, k)  BY DEF m, k
      <3> HIDE DEF got
      <3>5. Len(got) = n  BY <3>1, <3>3, <3>4
      <3>6. \A i \in 1 .. n : got[i] = storage[s.offset + i]  BY <3>1, <3>3, <3>4
      <3> QED  BY <3>3, <3>4, <3>5, <3>6
    <2>3. end \in Nat /\ end <= Len(storage)
      BY <1>0, <1>3
    <2> HIDE DEF got, end
    <2>4. /\ load(s, n) \in Sources /\ load(s, n).state = "OK" /\ load(s, n).got = got
          /\ load(s, n).offset = end
      BY <1>0, <1>3, <2>1, <2>2, <2>3 DEF Sources, States
    <2> QED  BY <1>3, <2>2, <2>3, <2>4 DEF end
  <1> QED
    BY <1>0, <1>1, <1>2, <1>3 DEF States

LEMMA LoadBytes ==
    ASSUME storage \in Seq(Nat), NEW s \in Sources, s.offset <= Len(storage), s.state = "OK",
           NEW bytes \in Seq(Nat), At(storage, s.offset, bytes), NEW n \in Nat, n = Len(bytes)
    PROVE  /\ load(s, n) \in Sources /\ load(s, n).state = "OK"
           /\ load(s, n).offset = s.offset + n /\ load(s, n).offset <= Len(storage)
           /\ load(s, n).got = bytes
  <1> DEFINE l == load(s, n)
  <1>1. s.offset + n <= Len(storage) /\ \A i \in 1 .. n : storage[s.offset + i] = bytes[i]
    BY DEF At
  <1>2. /\ l \in Sources /\ l.state = "OK"
        /\ l.offset = s.offset + n /\ l.offset <= Len(storage)
        /\ Len(l.got) = n /\ \A i \in 1 .. n : l.got[i] = storage[s.offset + i]
    BY <1>1, LoadIs
  <1>3. l.got \in Seq(Nat)
    BY <1>2 DEF Sources
  <1> HIDE DEF l
  <1>4. l.got = bytes
    <2>1. Len(l.got) = Len(bytes) /\ \A i \in 1 .. Len(l.got) : l.got[i] = bytes[i]
      BY <1>1, <1>2
    <2> QED  BY <1>3, <2>1, SeqEqual
  <1> QED  BY <1>2, <1>4 DEF l

LEMMA NumberIs ==
    ASSUME NEW bytes \in Seq(Nat)
    PROVE  Number(bytes) \in Nat
  <1> DEFINE part(i) == IF i \in DOMAIN bytes THEN bytes[i] * Place[i] ELSE 0
  <1>1. \A i \in 1 .. 4 : Place[i] \in Nat
    <2>1. Base * Base \in Nat /\ Base * Base * Base \in Nat  BY BaseAssumption
    <2> QED  BY <2>1, BaseAssumption DEF Place
  <1>2. \A i \in 1 .. 4 : part(i) \in Nat
    <2> TAKE i \in 1 .. 4
    <2>1. CASE i \in DOMAIN bytes
      <3>1. bytes[i] \in Nat  BY <2>1, ElementOfSeq
      <3>2. Place[i] \in Nat  BY <1>1
      <3> DEFINE x == bytes[i]  y == Place[i]
      <3>3. part(i) = x * y  BY <2>1
      <3>4. x \in Nat /\ y \in Nat  BY <3>1, <3>2
      <3> HIDE DEF x, y, part
      <3> QED  BY <3>3, <3>4
    <2> QED  BY <2>1
  <1>3. Number(bytes) = part(1) + part(2) + part(3) + part(4)
    BY DEF Number
  <1> HIDE DEF part
  <1> QED  BY <1>2, <1>3

CodesOf(type) ==
    IF type = "VECTOR" THEN VectorCode ELSE IF type = "STRING" THEN StringCode ELSE CounterCode

\* The code of an item tells its type and the class of its length
LEMMA ClassReadIs ==
    ASSUME NEW e, EntryOK(e), NEW s, s.got = <<CodeOf(e)>>
    PROVE  /\ \A type \in FixTypes : s.got = <<FixCode[type]>> <=> e.type = type
           /\ \A type \in {"VECTOR", "STRING", "CNT"} :
                /\ e.type = type => ClassRead(s, CodesOf(type)) = {LenClass(NumberOf(e))}
                /\ e.type # type => ClassRead(s, CodesOf(type)) = {}
  <1> DEFINE c == LenClass(NumberOf(e))
  <1>0. c \in LenClasses /\ e.type \in Types
    BY EntryIs, ClassIs
  <1>1. "CNT" \notin FixTypes /\ "VECTOR" \notin FixTypes /\ "STRING" \notin FixTypes
    BY DEF FixTypes
  <1>2. /\ e.type \in FixTypes => CodeOf(e) = FixCode[e.type]
        /\ e.type \in {"VECTOR", "STRING", "CNT"} => CodeOf(e) = CodesOf(e.type)[c]
    BY <1>1 DEF CodeOf, CodesOf
  <1> HIDE DEF c
  <1>3. \A type \in FixTypes : s.got = <<FixCode[type]>> <=> e.type = type
    <2> TAKE type \in FixTypes
    <2>1. CASE e.type \in FixTypes
      BY <1>2, <2>1, CodesAre
    <2>2. CASE e.type \notin FixTypes
      <3>1. e.type \in {"VECTOR", "STRING", "CNT"}  BY <1>0, <2>2 DEF Types
      <3>2. CodeOf(e) \in 32 .. 67  BY <1>0, <1>2, <3>1, CodesAre DEF CodesOf
      <3>3. FixCode[type] \in 17 .. 26  BY CodesAre
      <3> QED  BY <2>2, <3>2, <3>3
    <2> QED  BY <2>1, <2>2
  <1>4. ASSUME NEW type \in {"VECTOR", "STRING", "CNT"}
        PROVE  /\ e.type = type => ClassRead(s, CodesOf(type)) = {LenClass(NumberOf(e))}
               /\ e.type # type => ClassRead(s, CodesOf(type)) = {}
    <2>1. \A d \in LenClasses : CodesOf(type)[c] = CodesOf(type)[d] => c = d
      BY <1>0, CodesAre DEF CodesOf
    <2>2. CASE e.type = type
      <3>1. \A d \in LenClasses : s.got = <<CodesOf(type)[d]>> <=> d = c
        BY <1>0, <1>2, <2>1, <2>2
      <3> QED  BY <1>0, <2>2, <3>1 DEF ClassRead, c
    <2>3. CASE e.type # type
      <3>1. ASSUME NEW d \in LenClasses
            PROVE  CodeOf(e) # CodesOf(type)[d]
        <4>1. CASE e.type \in FixTypes
          BY <1>2, <4>1, CodesAre DEF CodesOf
        <4>2. CASE e.type \in {"VECTOR", "STRING", "CNT"}
          <5>1. CodeOf(e) = CodesOf(e.type)[c]  BY <1>2, <4>2
          <5>2. CASE type = "VECTOR"
            BY <1>0, <2>3, <4>2, <5>1, <5>2, CodesAre DEF CodesOf
          <5>3. CASE type = "STRING"
            BY <1>0, <2>3, <4>2, <5>1, <5>3, CodesAre DEF CodesOf
          <5>4. CASE type = "CNT"
            BY <1>0, <2>3, <4>2, <5>1, <5>4, CodesAre DEF CodesOf
          <5> QED  BY <5>2, <5>3, <5>4
        <4> QED  BY <1>0, <4>1, <4>2 DEF Types
      <3> QED  BY <2>3, <3>1 DEF ClassRead
    <2> QED  BY <2>2, <2>3
  <1> QED  BY <1>3, <1>4

\* What every load keeps
Sound(l) ==
    /\ l.obj \in Sources /\ l.obj.offset <= Len(storage)
    /\ l.var \in Seq(Nat)
    /\ reader.state = "FAILED" => l.obj.state = "FAILED"

LEMMA ZerosAre ==
    ASSUME NEW n \in Nat
    PROVE  Zeros(n) \in Seq(Nat)
  BY DEF Zeros

LEMMA LoadAsIs ==
    ASSUME storage \in Seq(Nat), Source \in Sources, reader.offset <= Len(storage), NEW type \in Types
    PROVE  Sound(LoadAs(type))
  <1> DEFINE typed == load(Source, 1)
  <1>0. /\ Source.state = reader.state /\ Source.offset <= Len(storage)
        /\ <<>> \in Seq(Nat) /\ <<0>> \in Seq(Nat)
    BY DEF Source
  <1>1. /\ typed \in Sources /\ typed.offset <= Len(storage)
        /\ reader.state = "FAILED" => typed.state = "FAILED"
    BY <1>0, LoadIs
  <1>2. /\ Fail(typed) \in Sources /\ Fail(typed).offset <= Len(storage)
        /\ Fail(typed).state = "FAILED"
    <2> HIDE DEF typed
    <2> QED  BY <1>1 DEF Fail, Sources, States
  <1>3. ASSUME NEW n \in Nat
        PROVE  /\ load(typed, n) \in Sources /\ load(typed, n).offset <= Len(storage)
               /\ reader.state = "FAILED" => load(typed, n).state = "FAILED"
    <2> HIDE DEF typed
    <2> QED  BY <1>1, LoadIs
  <1> HIDE DEF typed
  <1>4. CASE type \in FixTypes
    <2> DEFINE zero == Zeros(FixLen[type])  value == load(typed, FixLen[type])
    <2>1. LoadAs(type) = IF typed.state = "OK" /\ typed.got # <<FixCode[type]>>
                         THEN [obj |-> Fail(typed), var |-> zero]
                         ELSE [obj |-> value, var |-> IF value.state = "OK" THEN value.got ELSE zero]
      BY <1>4 DEF LoadAs, LoadFix, typed
    <2>2. FixLen[type] \in Nat
      BY <1>4, CodesAre
    <2>3. zero \in Seq(Nat)
      BY <2>2, ZerosAre
    <2>4. /\ value \in Sources /\ value.offset <= Len(storage)
          /\ reader.state = "FAILED" => value.state = "FAILED"
      BY <1>3, <2>2
    <2>5. value.got \in Seq(Nat)
      BY <2>4 DEF Sources
    <2> HIDE DEF zero, value
    <2>6. CASE typed.state = "OK" /\ typed.got # <<FixCode[type]>>
      BY <1>2, <2>1, <2>3, <2>6 DEF Sound
    <2>7. CASE ~(typed.state = "OK" /\ typed.got # <<FixCode[type]>>)
      BY <2>1, <2>3, <2>4, <2>5, <2>7 DEF Sound
    <2> QED  BY <2>6, <2>7
  <1>5. CASE type = "CNT"
    <2> DEFINE known == ClassRead(typed, CounterCode)
               count == load(typed, Width[CHOOSE c \in known : TRUE])
    <2>1. LoadAs(type) = IF typed.state # "OK" THEN [obj |-> typed, var |-> <<0>>]
                         ELSE IF known = {} THEN [obj |-> Fail(typed), var |-> <<0>>]
                         ELSE IF known = {"ZERO"} THEN [obj |-> typed, var |-> <<0>>]
                         ELSE [obj |-> count, var |-> IF count.state = "OK" THEN <<Number(count.got)>> ELSE <<0>>]
      BY <1>5 DEF LoadAs, LoadCnt, typed, FixTypes
    <2>2. ASSUME known # {}
          PROVE  /\ count \in Sources /\ count.offset <= Len(storage)
                 /\ reader.state = "FAILED" => count.state = "FAILED"
                 /\ <<Number(count.got)>> \in Seq(Nat)
      <3>1. (CHOOSE c \in known : TRUE) \in LenClasses
        BY <2>2 DEF ClassRead
      <3>2. Width[CHOOSE c \in known : TRUE] \in Nat
        BY <3>1, WidthIs
      <3>3. count \in Sources /\ count.got \in Seq(Nat)
        BY <1>3, <3>2 DEF Sources
      <3> HIDE DEF count
      <3>4. <<Number(count.got)>> \in Seq(Nat)
        BY <3>3, NumberIs
      <3> QED  BY <1>3, <3>2, <3>4 DEF count
    <2> HIDE DEF known, count
    <2>3. CASE typed.state # "OK" \/ known = {"ZERO"}
      BY <1>0, <1>1, <1>2, <2>1, <2>3 DEF Sound
    <2>4. CASE typed.state = "OK" /\ known = {}
      BY <1>0, <1>2, <2>1, <2>4 DEF Sound
    <2>5. CASE typed.state = "OK" /\ known # {} /\ known # {"ZERO"}
      BY <1>0, <2>1, <2>2, <2>5 DEF Sound
    <2> QED  BY <2>3, <2>4, <2>5
  <1>6. CASE type \in {"VECTOR", "STRING"}
    <2> DEFINE known == ClassRead(typed, IF type = "VECTOR" THEN VectorCode ELSE StringCode)
               sized == load(typed, Width[CHOOSE c \in known : TRUE])
               size == Number(sized.got)
               value == load(sized, size)
    <2>1. LoadAs(type) = IF typed.state # "OK" THEN [obj |-> typed, var |-> <<>>]
                         ELSE IF known = {} THEN [obj |-> Fail(typed), var |-> <<>>]
                         ELSE IF known = {"ZERO"} THEN [obj |-> typed, var |-> <<>>]
                         ELSE IF sized.state # "OK" THEN [obj |-> sized, var |-> <<>>]
                         ELSE [obj |-> value, var |-> IF value.state = "OK" THEN value.got ELSE Zeros(size)]
      BY <1>6 DEF LoadAs, LoadVar, typed, FixTypes
    <2>2. ASSUME known # {}
          PROVE  /\ sized \in Sources /\ sized.offset <= Len(storage)
                 /\ reader.state = "FAILED" => sized.state = "FAILED"
                 /\ value \in Sources /\ value.offset <= Len(storage)
                 /\ reader.state = "FAILED" => value.state = "FAILED"
                 /\ value.got \in Seq(Nat) /\ Zeros(size) \in Seq(Nat)
      <3>1. (CHOOSE c \in known : TRUE) \in LenClasses
        BY <2>2 DEF ClassRead
      <3>2. Width[CHOOSE c \in known : TRUE] \in Nat
        BY <3>1, WidthIs
      <3>3. /\ sized \in Sources /\ sized.offset <= Len(storage)
            /\ reader.state = "FAILED" => sized.state = "FAILED"
        BY <1>3, <3>2
      <3> HIDE DEF sized
      <3>4. size \in Nat
        BY <3>3, NumberIs DEF Sources
      <3>5. Zeros(size) \in Seq(Nat)
        BY <3>4, ZerosAre
      <3> HIDE DEF size
      <3>6. /\ value \in Sources /\ value.offset <= Len(storage)
            /\ reader.state = "FAILED" => value.state = "FAILED"
        BY <3>3, <3>4, LoadIs
      <3> QED  BY <3>3, <3>5, <3>6 DEF Sources
    <2> HIDE DEF known, sized, size, value
    <2>3. CASE typed.state # "OK" \/ known = {"ZERO"}
      BY <1>0, <1>1, <1>2, <2>1, <2>3 DEF Sound
    <2>4. CASE typed.state = "OK" /\ known = {}
      BY <1>0, <1>2, <2>1, <2>4 DEF Sound
    <2>5. CASE typed.state = "OK" /\ known # {} /\ known # {"ZERO"}
      BY <1>0, <2>1, <2>2, <2>5 DEF Sound
    <2> QED  BY <2>3, <2>4, <2>5
  <1> QED
    BY <1>4, <1>5, <1>6 DEF Types

\* The steps of a load, by the type asked for
LEMMA LoadFixIs ==
    ASSUME NEW type \in FixTypes, NEW typed, typed = load(Source, 1), typed.state = "OK"
    PROVE  /\ typed.got # <<FixCode[type]>> => LoadAs(type).obj = Fail(typed)
           /\ typed.got = <<FixCode[type]>> => LoadAs(type).obj = load(typed, FixLen[type])
           /\ typed.got = <<FixCode[type]>> /\ load(typed, FixLen[type]).state = "OK" =>
                LoadAs(type).var = load(typed, FixLen[type]).got
  BY DEF LoadAs, LoadFix

LEMMA LoadNumberedIs ==
    ASSUME NEW type \in {"VECTOR", "STRING", "CNT"},
           NEW typed, typed = load(Source, 1), typed.state = "OK",
           NEW known, known = ClassRead(typed, CodesOf(type)),
           NEW n \in Nat, known # {} => known = {LenClass(n)},
           NEW sized, sized = load(typed, Width[LenClass(n)])
    PROVE  /\ known = {} => LoadAs(type).obj = Fail(typed)
           /\ known # {} /\ n = 0 =>
                /\ LoadAs(type).obj = typed
                /\ LoadAs(type).var = IF type = "CNT" THEN <<0>> ELSE <<>>
           /\ known # {} /\ n # 0 /\ type = "CNT" =>
                /\ LoadAs(type).obj = sized
                /\ sized.state = "OK" => LoadAs(type).var = <<Number(sized.got)>>
           /\ known # {} /\ n # 0 /\ type # "CNT" =>
                /\ sized.state # "OK" => LoadAs(type).obj = sized
                /\ sized.state = "OK" =>
                     /\ LoadAs(type).obj = load(sized, Number(sized.got))
                     /\ LoadAs(type).obj.state = "OK" =>
                          LoadAs(type).var = load(sized, Number(sized.got)).got
  <1> DEFINE class == CHOOSE c \in known : TRUE
  <1>1. known # {} => class = LenClass(n) /\ (known = {"ZERO"} <=> n = 0)
    <2>1. known # {} => class = LenClass(n)
      BY Zenon
    <2>2. known # {} => (known = {"ZERO"} <=> n = 0)
      BY ClassIs
    <2> QED  BY <2>1, <2>2
  <1> DEFINE got == load(typed, Width[class])
  <1>2. CASE type = "CNT"
    <2>1. LoadAs(type) = IF known = {} THEN [obj |-> Fail(typed), var |-> <<0>>]
                         ELSE IF known = {"ZERO"} THEN [obj |-> typed, var |-> <<0>>]
                         ELSE [obj |-> got, var |-> IF got.state = "OK" THEN <<Number(got.got)>> ELSE <<0>>]
      BY <1>2 DEF LoadAs, LoadCnt, FixTypes, CodesOf
    <2>2. known # {} => got = sized
      BY <1>1
    <2> HIDE DEF got, class
    <2> QED  BY <1>1, <1>2, <2>1, <2>2
  <1>3. CASE type # "CNT"
    <2> DEFINE size == Number(got.got)  value == load(got, size)
    <2>1. LoadAs(type) = IF known = {} THEN [obj |-> Fail(typed), var |-> <<>>]
                         ELSE IF known = {"ZERO"} THEN [obj |-> typed, var |-> <<>>]
                         ELSE IF got.state # "OK" THEN [obj |-> got, var |-> <<>>]
                         ELSE [obj |-> value, var |-> IF value.state = "OK" THEN value.got ELSE Zeros(size)]
      <3>1. CodesOf(type) = IF type = "VECTOR" THEN VectorCode ELSE StringCode
        BY <1>3 DEF CodesOf
      <3> QED  BY <1>3, <3>1 DEF LoadAs, LoadVar, FixTypes
    <2>2. known # {} => got = sized
      BY <1>1
    <2>3. known # {} => size = Number(sized.got) /\ value = load(sized, Number(sized.got))
      BY <2>2
    <2> HIDE DEF got, class, size, value
    <2> QED  BY <1>1, <1>3, <2>1, <2>2, <2>3
  <1> QED  BY <1>2, <1>3

\* A load where an item begins finds its code, and fails when it was asked for
\* by another type
LEMMA LoadCodeIs ==
    ASSUME storage \in Seq(Nat), Source \in Sources, reader.offset <= Len(storage),
           reader.state = "OK", NEW e, EntryOK(e), At(storage, reader.offset, <<CodeOf(e)>>),
           NEW type \in Types
    PROVE  /\ load(Source, 1) \in Sources /\ load(Source, 1).state = "OK"
           /\ load(Source, 1).offset = reader.offset + 1
           /\ load(Source, 1).offset <= Len(storage) /\ load(Source, 1).got = <<CodeOf(e)>>
           /\ type # e.type => LoadAs(type).obj.state = "FAILED"
  <1> DEFINE typed == load(Source, 1)  o == reader.offset
  <1>1. /\ typed \in Sources /\ typed.state = "OK" /\ typed.offset = o + 1
        /\ typed.offset <= Len(storage) /\ typed.got = <<CodeOf(e)>>
    <2>1. 1 \in Nat /\ 1 = Len(<<CodeOf(e)>>) /\ <<CodeOf(e)>> \in Seq(Nat)  BY EntryIs
    <2>2. /\ Source.state = "OK" /\ Source.offset = o /\ Source.offset <= Len(storage)
          /\ At(storage, Source.offset, <<CodeOf(e)>>)
      BY DEF Source
    <2>3. /\ typed \in Sources /\ typed.state = "OK" /\ typed.offset = Source.offset + 1
          /\ typed.offset <= Len(storage) /\ typed.got = <<CodeOf(e)>>
      BY <2>1, <2>2, LoadBytes, ZenonT(40)
    <2> HIDE DEF typed, o
    <2> QED  BY <2>2, <2>3
  <1>2. Fail(typed).state = "FAILED"
    <2> HIDE DEF typed
    <2> QED  BY <1>1 DEF Fail, Sources
  <1>3. CASE type \in FixTypes /\ type # e.type
    <2>1. typed.got # <<FixCode[type]>>
      BY <1>1, <1>3, ClassReadIs
    <2> QED  BY <1>1, <1>2, <1>3, <2>1, LoadFixIs
  <1>4. CASE type \in {"VECTOR", "STRING", "CNT"} /\ type # e.type
    <2> DEFINE known == ClassRead(typed, CodesOf(type))
               sz == load(typed, Width[LenClass(0)])
    <2>1. known = {}
      BY <1>1, <1>4, ClassReadIs
    <2>2. LoadAs(type).obj = Fail(typed)
      <3> HIDE DEF sz, known
      <3>1. known # {} => known = {LenClass(0)}  BY <2>1
      <3> QED  BY <1>1, <1>4, <2>1, <3>1, LoadNumberedIs DEF known
    <2> HIDE DEF known, sz
    <2> QED  BY <1>1, <1>2, <1>4, <2>2
  <1> QED
    BY <1>1, <1>3, <1>4 DEF Types

\* A load at an item gives its value when it is asked for by its type, and
\* fails otherwise
LEMMA LoadEntryIs ==
    ASSUME storage \in Seq(Nat), Source \in Sources, reader.offset <= Len(storage),
           reader.state = "OK", NEW e, EntryOK(e), Sits(storage, reader.offset, e), NEW type \in Types
    PROVE  /\ type # e.type => LoadAs(type).obj.state = "FAILED"
           /\ type = e.type =>
                /\ LoadAs(type).obj.state = "OK" /\ LoadAs(type).var = e.val
                /\ LoadAs(type).obj.offset = reader.offset + Size(e)
  <1> DEFINE typed == load(Source, 1)  n == NumberOf(e)  o == reader.offset
             c == Len(Count(e))  b == Len(Body(e))
  <1>0. /\ Source.state = "OK" /\ Source.offset = o /\ o \in Nat
        /\ e.type \in Types /\ e.val \in Seq(Nat) /\ n \in Nat /\ n < Limit
        /\ <<CodeOf(e)>> \in Seq(Nat) /\ Len(<<CodeOf(e)>>) = 1
        /\ Count(e) \in Seq(Nat) /\ c = Width[LenClass(n)] /\ c \in Nat
        /\ Body(e) \in Seq(Nat) /\ b \in Nat /\ Size(e) = 1 + c + b
        /\ n = 0 => c = 0
    <2>1. Source.state = "OK" /\ Source.offset = o  BY DEF Source
    <2>2. o \in Nat  BY <2>1 DEF Sources
    <2>3. Size(e) = 1 + c + b  BY DEF Size
    <2> QED  BY <2>1, <2>2, <2>3, EntryIs, ClassIs
  <1>1. /\ At(storage, o, <<CodeOf(e)>>) /\ At(storage, o + 1, Count(e))
        /\ At(storage, o + 1 + c, Body(e))
    BY DEF Sits
  <1>2. /\ typed \in Sources /\ typed.state = "OK" /\ typed.offset = o + 1
        /\ typed.offset <= Len(storage) /\ typed.got = <<CodeOf(e)>>
    BY <1>1, LoadCodeIs
  <1> HIDE DEF n, o, c, b
  <1>4. CASE type \in FixTypes
    <2>1. typed.got = <<FixCode[type]>> <=> e.type = type
      BY <1>2, <1>4, ClassReadIs
    <2>2. CASE type # e.type
      BY <1>1, <2>2, LoadCodeIs DEF o
    <2>3. CASE type = e.type
      <3> DEFINE value == load(typed, FixLen[type])
      <3>1. n = 0 /\ b = FixLen[type] /\ Body(e) = e.val
        <4>1. e.type # "CNT"  BY <1>4, <2>3 DEF FixTypes
        <4>2. Body(e) = e.val  BY <4>1 DEF Body
        <4> QED  BY <1>4, <2>3, <4>2, EntryIs DEF n, b
      <3>2. c = 0 /\ typed.offset = o + 1 + c
        BY <1>0, <1>2, <3>1
      <3>3. FixLen[type] \in Nat /\ FixLen[type] = Len(Body(e))
        BY <1>0, <3>1 DEF b
      <3>4. At(storage, typed.offset, Body(e))
        BY <1>1, <3>2
      <3>5. /\ value.state = "OK" /\ value.offset = typed.offset + b /\ value.got = e.val
        <4>1. Body(e) \in Seq(Nat) /\ Body(e) = e.val /\ FixLen[type] = b  BY <1>0, <3>1
        <4> HIDE DEF typed
        <4>2. /\ value.state = "OK" /\ value.offset = typed.offset + FixLen[type]
              /\ value.got = Body(e)
          BY <1>2, <3>3, <3>4, <4>1, LoadBytes
        <4> QED  BY <4>1, <4>2
      <3>6. LoadAs(type).obj = value /\ LoadAs(type).var = value.got
        BY <1>2, <1>4, <2>1, <2>3, <3>5, LoadFixIs
      <3>7. value.offset = o + Size(e)
        <4> HIDE DEF value, typed
        <4>1. o \in Nat /\ b \in Nat /\ Size(e) = 1 + c + b /\ c = 0  BY <1>0, <3>2
        <4> QED  BY <3>2, <3>5, <4>1
      <3> QED  BY <2>3, <3>5, <3>6, <3>7 DEF o
    <2> QED  BY <2>2, <2>3
  <1>5. CASE type \in {"VECTOR", "STRING", "CNT"}
    <2> DEFINE known == ClassRead(typed, CodesOf(type))
               sized == load(typed, Width[LenClass(n)])
    <2>1. /\ e.type = type => known = {LenClass(n)}
          /\ e.type # type => known = {}
      BY <1>2, <1>5, ClassReadIs DEF n
    <2>2. CASE type # e.type
      BY <1>1, <2>2, LoadCodeIs DEF o
    <2>3. CASE type = e.type
      <3>0. known = {LenClass(n)} /\ known # {}
        BY <2>1, <2>3
      <3>1. /\ n = 0 =>
                 /\ LoadAs(type).obj = typed
                 /\ LoadAs(type).var = IF type = "CNT" THEN <<0>> ELSE <<>>
            /\ n # 0 /\ type = "CNT" =>
                 /\ LoadAs(type).obj = sized
                 /\ sized.state = "OK" => LoadAs(type).var = <<Number(sized.got)>>
            /\ n # 0 /\ type # "CNT" /\ sized.state = "OK" =>
                 /\ LoadAs(type).obj = load(sized, Number(sized.got))
                 /\ LoadAs(type).obj.state = "OK" =>
                      LoadAs(type).var = load(sized, Number(sized.got)).got
        <4>1. n \in Nat  BY <1>0
        <4>2. typed.state = "OK"  BY <1>2
        <4> HIDE DEF known, sized, typed
        <4> QED  BY <1>5, <3>0, <4>1, <4>2, LoadNumberedIs DEF known, sized, typed
      <3>2. /\ sized \in Sources /\ sized.state = "OK" /\ sized.offset = o + 1 + c
            /\ sized.offset <= Len(storage) /\ sized.got = Count(e)
        <4>1. Width[LenClass(n)] \in Nat /\ Width[LenClass(n)] = Len(Count(e))
          BY <1>0 DEF c
        <4>2. At(storage, typed.offset, Count(e))
          BY <1>1, <1>2
        <4>3. sized.offset = typed.offset + c /\ sized \in Sources /\ sized.state = "OK"
              /\ sized.offset <= Len(storage) /\ sized.got = Count(e)
          <5> HIDE DEF typed
          <5>1. Count(e) \in Seq(Nat) /\ Width[LenClass(n)] = c  BY <1>0
          <5> DEFINE bytes == Count(e)  w == Width[LenClass(n)]
          <5>3. /\ bytes \in Seq(Nat) /\ At(storage, typed.offset, bytes) /\ w \in Nat /\ w = Len(bytes)
                /\ typed \in Sources /\ typed.offset <= Len(storage) /\ typed.state = "OK"
            BY <1>2, <4>1, <4>2, <5>1
          <5> HIDE DEF bytes, w
          <5>4. /\ load(typed, w) \in Sources /\ load(typed, w).state = "OK"
                /\ load(typed, w).offset <= Len(storage)
                /\ load(typed, w).offset = typed.offset + w /\ load(typed, w).got = bytes
            BY <5>3, LoadBytes
          <5>2. /\ sized \in Sources /\ sized.state = "OK" /\ sized.offset <= Len(storage)
                /\ sized.offset = typed.offset + Width[LenClass(n)] /\ sized.got = Count(e)
            BY <5>4 DEF bytes, w
          <5> HIDE DEF sized
          <5> QED  BY <5>1, <5>2
        <4> HIDE DEF sized, typed
        <4> QED  BY <1>0, <1>2, <4>3
      <3>3. n # 0 => Number(sized.got) = n
        BY <1>0, <3>2, NumberOfLowBytes DEF Count, n
      <3> HIDE DEF sized, known
      <3>4. CASE type = "CNT"
        <4>1. e.val = <<n>> /\ b = 0
          BY <2>3, <3>4, EntryIs DEF n, b, Body
        <4>2. CASE n = 0
          <5>1. LoadAs(type).obj = typed /\ LoadAs(type).var = e.val
            BY <3>1, <3>4, <4>1, <4>2
          <5>2. typed.offset = o + Size(e)
            <6>1. c = 0 /\ b = 0 /\ Size(e) = 1 + c + b /\ o \in Nat /\ typed.offset = o + 1
              BY <1>0, <1>2, <4>1, <4>2
            <6> HIDE DEF typed
            <6> QED  BY <6>1
          <5> HIDE DEF typed
          <5> QED  BY <1>2, <2>3, <5>1, <5>2 DEF o
        <4>3. CASE n # 0
          <5>1. /\ LoadAs(type).obj = sized /\ LoadAs(type).var = <<Number(sized.got)>>
                /\ Number(sized.got) = n /\ sized.offset = o + 1 + c
            BY <3>1, <3>2, <3>3, <3>4, <4>3
          <5>2. o + 1 + c = o + Size(e)
            <6>1. o \in Nat /\ c \in Nat /\ Size(e) = 1 + c + b  BY <1>0, Zenon
            <6>2. b = 0  BY <4>1
            <6> QED  BY <6>1, <6>2
          <5> QED  BY <2>3, <3>2, <4>1, <5>1, <5>2 DEF o
        <4> QED  BY <4>2, <4>3
      <3>5. CASE type # "CNT"
        <4>1. Body(e) = e.val /\ b = n
          BY <1>5, <2>3, <3>5, EntryIs DEF n, b, Body
        <4>2. CASE n = 0
          <5>1. e.val = <<>>  BY <1>0, <4>1, <4>2 DEF b
          <5>2. typed.offset = o + Size(e)  BY <1>0, <1>2, <4>1, <4>2
          <5> QED  BY <1>2, <2>3, <3>1, <3>5, <4>2, <5>1, <5>2 DEF o
        <4>3. CASE n # 0
          <5> DEFINE value == load(sized, n)
          <5>1. LoadAs(type).obj = value /\ (value.state = "OK" => LoadAs(type).var = value.got)
            BY <3>1, <3>2, <3>3, <3>5, <4>3
          <5>2. At(storage, sized.offset, Body(e)) /\ n = Len(Body(e))
            BY <1>1, <3>2, <4>1 DEF b
          <5>3. value.state = "OK" /\ value.offset = sized.offset + n /\ value.got = e.val
            <6> DEFINE bytes == Body(e)
            <6>1. /\ bytes \in Seq(Nat) /\ At(storage, sized.offset, bytes) /\ n \in Nat /\ n = Len(bytes)
                  /\ sized \in Sources /\ sized.offset <= Len(storage) /\ sized.state = "OK"
              BY <1>0, <3>2, <5>2
            <6> HIDE DEF bytes
            <6>2. value.state = "OK" /\ value.offset = sized.offset + n /\ value.got = bytes
              BY <6>1, LoadBytes
            <6> QED  BY <4>1, <6>2 DEF bytes
          <5>4. value.offset = o + Size(e)
            <6> HIDE DEF value
            <6>1. o \in Nat /\ b \in Nat /\ c \in Nat /\ Size(e) = 1 + c + b
              BY <1>0, Zenon
            <6>2. b = n
              BY <4>1
            <6> QED  BY <3>2, <5>3, <6>1, <6>2
          <5> QED  BY <2>3, <5>1, <5>3, <5>4 DEF o
        <4> QED  BY <4>2, <4>3
      <3> QED  BY <3>4, <3>5
    <2> QED  BY <2>2, <2>3
  <1> QED
    BY <1>4, <1>5 DEF Types

\* A reader that cannot read a code has failed
LEMMA LoadStops ==
    ASSUME NEW type \in Types, Source \in Sources, storage \in Seq(Nat), reader.offset <= Len(storage),
           load(Source, 1).state = "FAILED"
    PROVE  LoadAs(type).obj.state = "FAILED"
  <1> DEFINE typed == load(Source, 1)
  <1>1. typed \in Sources /\ typed.state = "FAILED" /\ typed.offset <= Len(storage)
    BY LoadIs DEF Source
  <1>2. CASE type \in FixTypes
    <2>1. FixLen[type] \in Nat  BY <1>2, CodesAre
    <2>2. LoadAs(type).obj = load(typed, FixLen[type])
      BY <1>2 DEF LoadAs, LoadFix
    <2> HIDE DEF typed
    <2> QED  BY <1>1, <2>1, <2>2, LoadIs
  <1>3. CASE type \notin FixTypes
    BY <1>3 DEF LoadAs, LoadCnt, LoadVar
  <1> QED  BY <1>2, <1>3

\* A load where the storage ends, or where an item was not stored whole, fails
LEMMA LoadCutOff ==
    ASSUME storage \in Seq(Nat), Source \in Sources, reader.offset <= Len(storage),
           reader.state = "OK", CutOff(storage, reader.offset), NEW type \in Types
    PROVE  LoadAs(type).obj.state = "FAILED"
  <1> DEFINE typed == load(Source, 1)  o == reader.offset
  <1>0. Source.state = "OK" /\ Source.offset = o /\ o \in Nat /\ Len(storage) \in Nat
    <2>1. Source.state = "OK" /\ Source.offset = o  BY DEF Source
    <2> QED  BY <2>1 DEF Sources
  <1>1. CASE Len(storage) = reader.offset
    <2>1. Source.offset + 1 > Len(storage)  BY <1>0, <1>1
    <2>2. typed.state = "FAILED"  BY <1>0, <2>1, LoadIs
    <2> QED  BY <2>2, LoadStops
  <1>2. ASSUME NEW e \in AllEntries, EntryOK(e), Len(storage) < o + Size(e),
               At(storage, o, <<CodeOf(e)>>),
               \/ Len(storage) = o + 1
               \/ Len(storage) = o + 1 + Len(Count(e)) /\ At(storage, o + 1, Count(e))
        PROVE  LoadAs(type).obj.state = "FAILED"
    <2> DEFINE n == NumberOf(e)  c == Len(Count(e))  b == Len(Body(e))  m == Len(storage)
               sized == load(typed, Width[LenClass(n)])
    <2>1. /\ typed \in Sources /\ typed.state = "OK" /\ typed.offset = o + 1
          /\ typed.offset <= Len(storage) /\ typed.got = <<CodeOf(e)>>
          /\ type # e.type => LoadAs(type).obj.state = "FAILED"
      BY <1>2, LoadCodeIs
    <2>2. /\ n \in Nat /\ n < Limit /\ c = Width[LenClass(n)] /\ c \in Nat /\ b \in Nat
          /\ Count(e) \in Seq(Nat) /\ Body(e) \in Seq(Nat)
          /\ n = 0 <=> c = 0
      BY <1>2, EntryIs, ClassIs
    <2>3. m < o + 1 + c + b /\ (m = o + 1 \/ m = o + 1 + c)
      <3>1. Size(e) = 1 + c + b  BY DEF Size
      <3>2. m < o + Size(e) /\ (m = o + 1 \/ m = o + 1 + c)  BY <1>2
      <3>3. o \in Nat /\ c \in Nat /\ b \in Nat /\ m \in Nat  BY <1>0, <2>2
      <3> HIDE DEF o, c, b, m
      <3> QED  BY <3>1, <3>2, <3>3
    <2> HIDE DEF n, sized
    <2>4. CASE type # e.type
      BY <2>1, <2>4
    <2>5. CASE type = e.type /\ type \in FixTypes
      <3>1. n = 0 /\ b = FixLen[type] /\ FixLen[type] \in Nat
        BY <1>2, <2>5, EntryIs, CodesAre DEF n
      <3>2. typed.offset + FixLen[type] > Len(storage)
        <4>1. m < o + 1 + b /\ o \in Nat /\ b \in Nat /\ m = o + 1
          <5> HIDE DEF o, c, b, m
          <5> QED  BY <1>0, <2>2, <2>3, <3>1
        <4> QED  BY <2>1, <3>1, <4>1
      <3>3. load(typed, FixLen[type]).state = "FAILED"
        <4> HIDE DEF typed
        <4> QED  BY <2>1, <3>1, <3>2, LoadIs
      <3>4. typed.got = <<FixCode[type]>>
        BY <1>2, <2>1, <2>5, ClassReadIs
      <3> QED  BY <2>1, <2>5, <3>3, <3>4, LoadFixIs
    <2>6. CASE type = e.type /\ type \in {"VECTOR", "STRING", "CNT"}
      <3> DEFINE known == ClassRead(typed, CodesOf(type))
      <3>0. known = {LenClass(n)} /\ known # {}
        <4>1. typed.got = <<CodeOf(e)>> /\ EntryOK(e) /\ e.type = type
          BY <1>2, <2>1, <2>6
        <4> HIDE DEF typed
        <4>2. ClassRead(typed, CodesOf(type)) = {LenClass(NumberOf(e))}
          BY <2>6, <4>1, ClassReadIs
        <4> QED  BY <4>2 DEF n
      <3>1. /\ n # 0 /\ type = "CNT" => LoadAs(type).obj = sized
            /\ n # 0 /\ type # "CNT" =>
                 /\ sized.state # "OK" => LoadAs(type).obj = sized
                 /\ sized.state = "OK" => LoadAs(type).obj = load(sized, Number(sized.got))
        <4>1. typed.state = "OK" /\ n \in Nat  BY <2>1, <2>2
        <4>2. type \in {"VECTOR", "STRING", "CNT"}  BY <2>6
        <4> HIDE DEF known, typed
        <4> QED  BY <3>0, <4>1, <4>2, LoadNumberedIs DEF known, sized, typed
      <3>2. /\ type = "CNT" => b = 0
            /\ type # "CNT" => b = n
        BY <1>2, <2>6, EntryIs DEF Body, n
      <3>3. n # 0
        <4> HIDE DEF o, c, b, m
        <4> QED  BY <1>0, <2>2, <2>3, <3>2
      <3>4. c \in Nat /\ sized = load(typed, c)
        BY <2>2 DEF sized
      <3>5. CASE m = o + 1
        <4>1. typed.offset + c > Len(storage)
          <5> HIDE DEF o, c, b, m, typed
          <5>1. m < o + 1 + c  BY <1>0, <2>2, <3>3, <3>5
          <5> QED  BY <2>1, <5>1 DEF m
        <4>2. sized.state = "FAILED"
          <5> HIDE DEF typed, c
          <5> QED  BY <2>1, <3>4, <4>1, LoadIs
        <4> QED  BY <3>1, <3>3, <4>2
      <3>6. CASE m = o + 1 + c /\ m # o + 1
        <4>1. type # "CNT" /\ b = n
          <5> HIDE DEF o, c, b, m
          <5> QED  BY <1>0, <2>2, <2>3, <3>2, <3>6
        <4>2. At(storage, typed.offset, Count(e)) /\ c = Len(Count(e))
          BY <1>2, <2>1, <3>6
        <4>3. /\ sized \in Sources /\ sized.state = "OK" /\ sized.offset = typed.offset + c
              /\ sized.offset <= Len(storage) /\ sized.got = Count(e)
          <5> HIDE DEF typed, c
          <5> QED  BY <2>1, <2>2, <3>4, <4>2, LoadBytes
        <4>4. Number(sized.got) = n
          BY <2>2, <3>3, <4>3, NumberOfLowBytes DEF Count, n
        <4>5. sized.offset + n > Len(storage)
          <5> HIDE DEF o, c, b, m, typed
          <5>1. sized.offset = m /\ n > 0  BY <1>0, <2>1, <2>2, <3>3, <3>6, <4>3
          <5>2. m + n > m  BY <1>0, <2>2, <3>3 DEF m
          <5> QED  BY <5>1, <5>2 DEF m
        <4>6. load(sized, n).state = "FAILED"
          BY <2>2, <4>3, <4>5, LoadIs
        <4> QED  BY <3>1, <3>3, <4>1, <4>3, <4>4, <4>6
      <3> QED  BY <2>3, <3>5, <3>6
    <2> QED  BY <2>4, <2>5, <2>6 DEF Types
  <1> QED  BY <1>1, <1>2 DEF CutOff

-----------------------------------------------------------------------------
(* Types *)

LEMMA SinkAndSource ==
    ASSUME TypeOK
    PROVE  /\ Sink \in Sinks /\ Source \in Sources /\ storage \in Seq(Nat) /\ Len(storage) \in Nat
           /\ writer.state = "OK" => writer.offset <= Len(storage)
           /\ reader.offset <= Len(storage)
  BY DEF TypeOK, Sink, Sinks, Source, Sources, Objects, States

\* The two ways a store ends
LEMMA StoreEnds ==
    ASSUME TypeOK, Store
    PROVE  /\ writer.state = "OK"
           /\ \E it \in Items, s \in Sinks :
                /\ writer' = [state |-> s.state, offset |-> s.offset]
                /\ storage' = s.mem
                /\ \/ EntryOK(Entry(it)) /\ Whole(Sink, s, Entry(it)) /\ stored' = Append(stored, Entry(it))
                   \/ Cut(Sink, s) /\ stored' = stored
  <1>1. writer.state = "OK"
    BY DEF Store
  <1>2. PICK it \in Items, fail \in 0 .. 3 :
          LET s == StoreWith(it, fail) IN
            /\ writer' = [state |-> s.state, offset |-> s.offset]
            /\ storage' = s.mem
            /\ stored' = IF s.state = "OK" THEN Append(stored, Entry(it)) ELSE stored
    BY DEF Store
  <1> DEFINE s == StoreWith(it, fail)
  <1>3. \/ EntryOK(Entry(it)) /\ Whole(Sink, s, Entry(it))
        \/ Cut(Sink, s)
    BY <1>1, SinkAndSource, StoreWithIs
  <1>4. /\ writer' = [state |-> s.state, offset |-> s.offset]
        /\ storage' = s.mem
        /\ stored' = IF s.state = "OK" THEN Append(stored, Entry(it)) ELSE stored
    BY <1>2
  <1> HIDE DEF s
  <1>5. s \in Sinks
    BY <1>3 DEF Whole, Cut
  <1>6. \/ EntryOK(Entry(it)) /\ Whole(Sink, s, Entry(it)) /\ stored' = Append(stored, Entry(it))
        \/ Cut(Sink, s) /\ stored' = stored
    <2>1. CASE EntryOK(Entry(it)) /\ Whole(Sink, s, Entry(it))
      BY <1>4, <2>1 DEF Whole
    <2>2. CASE Cut(Sink, s)
      BY <1>4, <2>2 DEF Cut
    <2> QED  BY <1>3, <2>1, <2>2
  <1> QED
    BY <1>1, <1>4, <1>5, <1>6

\* What a load does to the state, for the type asked for
Loads(type) ==
    LET l == LoadAs(type)
        took == l.obj.state = "OK" /\ ~astray
    IN /\ reader' = [state |-> l.obj.state, offset |-> l.obj.offset]
       /\ var' = l.var
       /\ asked' = type
       /\ loaded' = IF took /\ loaded < Len(stored) THEN loaded + 1 ELSE loaded
       /\ astray' = (astray \/ (took /\ loaded = Len(stored)))
       /\ UNCHANGED <<storage, writer, stored, stale, stores>>

LEMMA LoadEnds ==
    ASSUME TypeOK, Load
    PROVE  \E type \in Types : Loads(type) /\ Sound(LoadAs(type))
  <1>1. PICK type \in Asked : Loads(get_type(type))
    BY DEF Load, Loads
  <1>2. get_type(type) \in Types
    BY AskedAssumption
  <1>3. Sound(LoadAs(get_type(type)))
    BY <1>2, SinkAndSource, LoadAsIs
  <1> QED
    BY <1>1, <1>2, <1>3

LEMMA NothingYet ==
    /\ NewObject \in Objects /\ NewObject.offset = 0 /\ NewObject.state = "OK"
    /\ <<>> \in Seq(Nat) /\ <<>> \in Seq([type : Types, val : Seq(Nat)]) /\ Len(<<>>) = 0
    /\ 0 \in 0 .. MaxItems
  BY MaxItemsAssumption DEF NewObject, Objects

LEMMA TypesAtFirst == Init => TypeOK
  <1> SUFFICES ASSUME Init  PROVE TypeOK
    OBVIOUS
  <1>1. "CNT" \in Types  BY DEF Types
  <1>2. /\ storage = <<>> /\ writer = NewObject /\ reader = NewObject /\ var = <<>> /\ asked = "CNT"
        /\ stored = <<>> /\ loaded = 0 /\ stale = 0 /\ astray = FALSE /\ stores = 0
    BY DEF Init
  <1>3. Len(storage) = 0 /\ Len(stored) = 0
    BY <1>2, NothingYet
  <1>4. /\ loaded \in 0 .. Len(stored) /\ stale \in 0 .. Len(storage)
        /\ reader.offset <= Len(storage) /\ writer.offset <= Len(storage)
    BY <1>2, <1>3, NothingYet
  <1>5. storage \in Seq(Nat) /\ var \in Seq(Nat) /\ stored \in Seq([type : Types, val : Seq(Nat)])
    BY <1>2, NothingYet
  <1>6. asked \in Types /\ astray \in BOOLEAN
    BY <1>1, <1>2
  <1>7. writer \in Objects /\ reader \in Objects /\ stores \in 0 .. MaxItems
    BY <1>2, NothingYet
  <1> QED  BY <1>4, <1>5, <1>6, <1>7 DEF TypeOK

LEMMA TypesStay == TypeOK /\ [Next]_vars => TypeOK'
  <1> SUFFICES ASSUME TypeOK, [Next]_vars  PROVE TypeOK'
    OBVIOUS
  <1>1. CASE Store
    <2>1. PICK it \in Items, s \in Sinks :
            /\ writer' = [state |-> s.state, offset |-> s.offset]
            /\ storage' = s.mem
            /\ \/ EntryOK(Entry(it)) /\ Whole(Sink, s, Entry(it)) /\ stored' = Append(stored, Entry(it))
               \/ Cut(Sink, s) /\ stored' = stored
      BY <1>1, StoreEnds
    <2>2. /\ s.state \in States /\ s.offset \in Nat /\ s.mem \in Seq(Nat)
      BY DEF Sinks
    <2>3. writer' \in Objects /\ storage' \in Seq(Nat)
      BY <2>1, <2>2 DEF Objects, States
    <2>4. /\ Len(storage') >= Len(storage)
          /\ writer'.state = "OK" => writer'.offset <= Len(storage')
      <3>0. Sink.mem = storage /\ Sink.offset = writer.offset /\ writer.offset <= Len(storage)
            /\ writer.offset \in Nat /\ Len(storage) \in Nat
        BY <1>1, StoreEnds, SinkAndSource DEF Sink, Sinks
      <3>1. CASE EntryOK(Entry(it)) /\ Whole(Sink, s, Entry(it))
        <4> DEFINE n == Size(Entry(it))  m == Len(storage)  m1 == Len(s.mem)
        <4>1. s.offset = writer.offset + n /\ m1 = m + n /\ n \in Nat
          BY <3>0, <3>1, EntryIs DEF Whole
        <4>2. writer.offset <= m /\ m \in Nat /\ writer.offset \in Nat  BY <3>0
        <4> HIDE DEF n, m, m1
        <4>3. s.offset <= m1 /\ m1 >= m  BY <4>1, <4>2
        <4> QED  BY <2>1, <4>3 DEF m, m1
      <3>2. CASE Cut(Sink, s)
        BY <2>1, <3>0, <3>2 DEF Cut
      <3> QED  BY <2>1, <3>1, <3>2
    <2>5. stored' \in Seq([type : Types, val : Seq(Nat)]) /\ Len(stored') >= Len(stored)
      <3>1. stored \in Seq([type : Types, val : Seq(Nat)])  BY DEF TypeOK
      <3>2. EntryOK(Entry(it)) => Entry(it) \in [type : Types, val : Seq(Nat)]
        BY DEF EntryOK, AllEntries
      <3>3. CASE EntryOK(Entry(it)) /\ stored' = Append(stored, Entry(it))
        <4> DEFINE e == Entry(it)
        <4>1. e \in [type : Types, val : Seq(Nat)]  BY <3>2, <3>3
        <4> HIDE DEF e
        <4>2. /\ Append(stored, e) \in Seq([type : Types, val : Seq(Nat)])
              /\ Len(Append(stored, e)) = Len(stored) + 1 /\ Len(stored) \in Nat
          BY <3>1, <4>1
        <4> QED  BY <3>3, <4>2 DEF e
      <3>4. CASE stored' = stored
        BY <3>1, <3>4
      <3> QED  BY <2>1, <3>3, <3>4
    <2>6. UNCHANGED <<reader, var, asked, loaded, stale, astray>> /\ stores' \in 0 .. MaxItems
      BY <1>1, MaxItemsAssumption DEF Store, TypeOK
    <2>7. /\ reader \in Objects /\ reader.offset \in Nat /\ reader.offset <= Len(storage)
          /\ Len(storage) \in Nat /\ Len(storage') \in Nat /\ Len(stored) \in Nat /\ Len(stored') \in Nat
          /\ loaded \in 0 .. Len(stored) /\ stale \in 0 .. Len(storage)
      BY <2>3, <2>5 DEF TypeOK, Objects
    <2>8. /\ reader'.offset <= Len(storage') /\ loaded' \in 0 .. Len(stored')
          /\ stale' \in 0 .. Len(storage')
      <3> DEFINE m == Len(storage)  m1 == Len(storage')  k == Len(stored)  k1 == Len(stored')
      <3>1. /\ reader'.offset = reader.offset /\ reader.offset \in Nat /\ reader.offset <= m
            /\ m \in Nat /\ m1 \in Nat /\ k \in Nat /\ k1 \in Nat /\ m1 >= m /\ k1 >= k
            /\ loaded' = loaded /\ loaded \in 0 .. k /\ stale' = stale /\ stale \in 0 .. m
        BY <2>4, <2>5, <2>6, <2>7
      <3> HIDE DEF m, m1, k, k1
      <3>2. reader'.offset <= m1 /\ loaded' \in 0 .. k1 /\ stale' \in 0 .. m1
        BY <3>1
      <3> QED  BY <3>2 DEF m1, k1
    <2> QED  BY <2>3, <2>4, <2>5, <2>6, <2>8 DEF TypeOK
  <1>2. CASE Load
    <2>1. PICK type \in Types : Loads(type) /\ Sound(LoadAs(type))
      BY <1>2, LoadEnds
    <2> DEFINE l == LoadAs(type)
    <2>2. /\ l.obj \in Sources /\ l.obj.offset <= Len(storage)
          /\ l.var \in Seq(Nat)
      BY <2>1 DEF Sound
    <2>3. l.obj.state \in States /\ l.obj.offset \in Nat
      BY <2>2 DEF Sources
    <2>4. /\ reader' = [state |-> l.obj.state, offset |-> l.obj.offset] /\ var' = l.var
          /\ asked' = type /\ astray' \in BOOLEAN
          /\ loaded' \in {loaded, loaded + 1} /\ (loaded' # loaded => loaded < Len(stored))
          /\ UNCHANGED <<storage, writer, stored, stale, stores>>
      BY <2>1, <2>2 DEF Loads, TypeOK
    <2> HIDE DEF l
    <2>5. reader' \in Objects /\ reader'.offset <= Len(storage)
      BY <2>2, <2>3, <2>4 DEF Objects, States
    <2>6. loaded' \in 0 .. Len(stored)
      BY <2>4 DEF TypeOK
    <2> QED  BY <2>2, <2>4, <2>5, <2>6 DEF TypeOK
  <1>3. CASE Rewind
    <2>1. Len(storage) \in Nat /\ Len(stored) \in Nat /\ 0 <= Len(storage)
      BY DEF TypeOK
    <2>2. /\ reader' = NewObject /\ loaded' = 0 /\ astray' = FALSE
          /\ UNCHANGED <<storage, writer, var, asked, stored, stale, stores>>
      BY <1>3 DEF Rewind
    <2>3. 0 \in 0 .. Len(stored)  BY <2>1
    <2> QED  BY <2>1, <2>2, <2>3, NothingYet DEF TypeOK
  <1>4. CASE Renew
    <2>1. /\ storage' = <<>> /\ writer' = NewObject /\ reader' = NewObject
          /\ stored' = <<>> /\ loaded' = 0 /\ stale' = 0
          /\ astray' = FALSE /\ stores' = 0 /\ UNCHANGED <<var, asked>>
      BY <1>4 DEF Renew
    <2>2. Len(storage') = 0 /\ Len(stored') = 0
      BY <2>1, NothingYet
    <2>3. /\ loaded' \in 0 .. Len(stored') /\ stale' \in 0 .. Len(storage')
          /\ reader'.offset <= Len(storage') /\ writer'.offset <= Len(storage')
      BY <2>1, <2>2, NothingYet
    <2>4. /\ storage' \in Seq(Nat) /\ var' \in Seq(Nat) /\ asked' \in Types
          /\ stored' \in Seq([type : Types, val : Seq(Nat)])
      BY <2>1, NothingYet DEF TypeOK
    <2>5. /\ astray' \in BOOLEAN
          /\ writer' \in Objects /\ reader' \in Objects /\ stores' \in 0 .. MaxItems
      BY <2>1, NothingYet
    <2> QED  BY <2>3, <2>4, <2>5 DEF TypeOK
  <1>5. CASE Reuse
    BY <1>5 DEF Reuse, TypeOK, NewObject, Objects
  <1>6. CASE UNCHANGED vars
    BY <1>6 DEF vars, TypeOK
  <1> QED
    BY <1>1, <1>2, <1>3, <1>4, <1>5, <1>6 DEF Next

-----------------------------------------------------------------------------
(* The items in the storage.  The inductive invariant says that the storage *)
(* begins with the items stored, one after the other, where each begins,    *)
(* where the two objects are, and what may follow the last item.            *)

Kept == Len(stored)
End  == Len(storage)

\* Item k begins at pos[k]; the last entry of pos is where they end
Placed(pos) ==
    /\ pos \in [1 .. Kept + 1 -> Nat] /\ pos[1] = 0
    /\ \A k \in 1 .. Kept :
         /\ EntryOK(stored[k]) /\ Sits(storage, pos[k], stored[k])
         /\ pos[k + 1] = pos[k] + Size(stored[k])
    /\ \A k \in 1 .. Kept + 1 : pos[k] <= pos[Kept + 1]
    /\ End >= pos[Kept + 1] + stale
    /\ writer.state = "OK" => writer.offset = pos[Kept + 1] /\ End = pos[Kept + 1] + stale
    /\ stale = 0 => CutOff(storage, pos[Kept + 1])
    /\ ~astray /\ reader.state = "OK" => reader.offset = pos[loaded + 1]

ItemsPlaced == \E pos : Placed(pos)

LEMMA Lengths ==
    ASSUME TypeOK
    PROVE  /\ Kept \in Nat /\ End \in Nat /\ loaded \in 0 .. Kept /\ stale \in Nat
           /\ stored \in Seq([type : Types, val : Seq(Nat)])
           /\ reader.offset \in Nat /\ writer.offset \in Nat
  BY DEF TypeOK, Kept, End, Objects

LEMMA SitsKept ==
    ASSUME NEW m1 \in Seq(Nat), NEW m2 \in Seq(Nat), NEW n \in Nat, Same(m1, m2, n),
           NEW e, EntryOK(e), NEW a \in Nat, a + Size(e) <= n, Sits(m1, a, e)
    PROVE  Sits(m2, a, e)
  <1> DEFINE c == Len(Count(e))  b == Len(Body(e))  h == <<CodeOf(e)>>
             a1 == a + 1  a2 == a + 1 + c
  <1>0. h \in Seq(Nat) /\ Len(h) = 1 /\ Count(e) \in Seq(Nat) /\ Body(e) \in Seq(Nat) /\ c \in Nat /\ b \in Nat
    BY EntryIs
  <1>1. Size(e) = 1 + c + b
    BY DEF Size
  <1>2. At(m1, a, h) /\ At(m1, a1, Count(e)) /\ At(m1, a2, Body(e))
    BY DEF Sits
  <1>3. a1 \in Nat /\ a2 \in Nat /\ a + 1 <= n /\ a1 + c <= n /\ a2 + b <= n
    <2> HIDE DEF c, b
    <2> QED  BY <1>0, <1>1
  <1> HIDE DEF a1, a2, h
  <1>4. a + Len(h) <= n  BY <1>0, <1>3
  <1>5. At(m2, a, h)  BY <1>0, <1>2, <1>4, AtKept
  <1>6. At(m2, a1, Count(e))  BY <1>0, <1>2, <1>3, AtKept
  <1>7. At(m2, a2, Body(e))  BY <1>0, <1>2, <1>3, AtKept
  <1> QED
    BY <1>5, <1>6, <1>7 DEF Sits, h, a1, a2

LEMMA PlacedAtFirst == Init => ItemsPlaced
  <1> SUFFICES ASSUME Init  PROVE ItemsPlaced
    OBVIOUS
  <1> DEFINE pos == [k \in 1 .. 1 |-> 0]
  <1>1. Kept = 0 /\ End = 0 /\ stale = 0 /\ loaded = 0 /\ writer.offset = 0 /\ reader.offset = 0
    BY NothingYet DEF Init, Kept, End
  <1>2. pos \in [1 .. 1 -> Nat] /\ pos[1] = 0
    OBVIOUS
  <1>3. CutOff(storage, 0)
    BY <1>1 DEF CutOff, End
  <1> HIDE DEF pos
  <1>4. Placed(pos)
    BY <1>1, <1>2, <1>3 DEF Placed
  <1> QED  BY <1>4 DEF ItemsPlaced

LEMMA StoreKeepsPlaced ==
    ASSUME TypeOK, TypeOK', NEW pos, Placed(pos), Store
    PROVE  ItemsPlaced'
  <1> DEFINE last == pos[Kept + 1]
  <1>0. /\ Kept \in Nat /\ End \in Nat /\ loaded \in 0 .. Kept /\ stale \in Nat
        /\ Kept' \in Nat /\ End' \in Nat
        /\ storage \in Seq(Nat) /\ storage' \in Seq(Nat)
        /\ stored \in Seq([type : Types, val : Seq(Nat)])
    BY Lengths DEF TypeOK, Kept, End
  <1>1. /\ pos \in [1 .. Kept + 1 -> Nat] /\ pos[1] = 0
        /\ \A k \in 1 .. Kept :
             /\ EntryOK(stored[k]) /\ Sits(storage, pos[k], stored[k])
             /\ pos[k + 1] = pos[k] + Size(stored[k])
        /\ \A k \in 1 .. Kept + 1 : pos[k] <= last
        /\ ~astray /\ reader.state = "OK" => reader.offset = pos[loaded + 1]
    BY DEF Placed
  <1>2. writer.state = "OK" /\ writer.offset = last /\ End = last + stale
    BY DEF Store, Placed
  <1>3. last \in Nat
    BY <1>0, <1>1
  <1>4. PICK it \in Items, s \in Sinks :
          /\ writer' = [state |-> s.state, offset |-> s.offset]
          /\ storage' = s.mem
          /\ \/ EntryOK(Entry(it)) /\ Whole(Sink, s, Entry(it)) /\ stored' = Append(stored, Entry(it))
             \/ Cut(Sink, s) /\ stored' = stored
    BY StoreEnds
  <1>5. UNCHANGED <<reader, loaded, stale, astray>>
    BY DEF Store
  <1>6. Sink.mem = storage /\ Sink.offset = last
    BY <1>2 DEF Sink
  <1> HIDE DEF last
  <1>7. \A k \in 1 .. Kept : Same(storage, storage', last) => Sits(storage', pos[k], stored[k])
    <2> SUFFICES ASSUME NEW k \in 1 .. Kept, Same(storage, storage', last)
                 PROVE  Sits(storage', pos[k], stored[k])
      OBVIOUS
    <2>1. k \in 1 .. Kept + 1 /\ k + 1 \in 1 .. Kept + 1
      BY <1>0
    <2>2. pos[k] \in Nat /\ pos[k] + Size(stored[k]) <= last
      BY <1>1, <2>1
    <2> QED  BY <1>0, <1>1, <1>3, <2>2, SitsKept
  <1>8. CASE EntryOK(Entry(it)) /\ Whole(Sink, s, Entry(it)) /\ stored' = Append(stored, Entry(it))
    <2> DEFINE e == Entry(it)  z == Size(e)
    <2>1. /\ s.state = "OK" /\ s.offset = last + z /\ End' = End + z
          /\ Same(storage, storage', last) /\ Sits(storage', last, e) /\ z \in Nat \ {0}
      BY <1>4, <1>6, <1>8, EntryIs DEF Whole, End
    <2>2. Kept' = Kept + 1 /\ stored'[Kept + 1] = e /\ \A k \in 1 .. Kept : stored'[k] = stored[k]
      <3>1. e \in [type : Types, val : Seq(Nat)]
        BY <1>8 DEF EntryOK, AllEntries
      <3> HIDE DEF e
      <3> QED  BY <1>0, <1>8, <3>1 DEF Kept, e
    <2> HIDE DEF z
    <2>3. PICK new : /\ new \in [1 .. Kept + 2 -> Nat] /\ new[Kept + 2] = last + z
                     /\ \A k \in 1 .. Kept + 1 : new[k] = pos[k]
      <3> DEFINE f == [k \in 1 .. Kept + 2 |-> IF k <= Kept + 1 THEN pos[k] ELSE last + z]
      <3>1. /\ f \in [1 .. Kept + 2 -> Nat] /\ f[Kept + 2] = last + z
            /\ \A k \in 1 .. Kept + 1 : f[k] = pos[k]
        BY <1>0, <1>1, <1>3, <2>1
      <3> HIDE DEF f
      <3> QED  BY <3>1
    <2> HIDE DEF e
    <2>4. new \in [1 .. Kept' + 1 -> Nat] /\ new[1] = 0 /\ new[Kept' + 1] = last + z
      BY <1>0, <1>1, <2>2, <2>3
    <2>5. ASSUME NEW k \in 1 .. Kept'
          PROVE  /\ EntryOK(stored'[k]) /\ Sits(storage', new[k], stored'[k])
                 /\ new[k + 1] = new[k] + Size(stored'[k])
      <3>1. CASE k \in 1 .. Kept
        <4>1. k \in 1 .. Kept + 1 /\ k + 1 \in 1 .. Kept + 1  BY <1>0, <3>1
        <4>2. new[k] = pos[k] /\ new[k + 1] = pos[k + 1] /\ stored'[k] = stored[k]
          BY <2>2, <2>3, <3>1, <4>1
        <4> QED  BY <1>1, <1>7, <2>1, <3>1, <4>2
      <3>2. CASE k = Kept + 1
        <4>1. new[k] = last  BY <1>0, <2>3, <3>2 DEF last
        <4>2. new[k + 1] = last + z  BY <1>0, <2>3, <3>2
        <4>3. stored'[k] = e /\ EntryOK(e) /\ Size(e) = z
          BY <1>8, <2>2, <3>2 DEF e, z
        <4> QED  BY <2>1, <4>1, <4>2, <4>3
      <3> QED  BY <1>0, <2>2, <3>1, <3>2
    <2>6. \A k \in 1 .. Kept' + 1 : new[k] <= last + z
      <3> TAKE k \in 1 .. Kept' + 1
      <3>1. CASE k \in 1 .. Kept + 1
        <4>1. new[k] = pos[k] /\ pos[k] <= last /\ pos[k] \in Nat  BY <1>1, <2>3, <3>1
        <4> QED  BY <1>3, <2>1, <4>1
      <3>2. CASE k = Kept + 2
        BY <1>3, <2>1, <2>3, <3>2
      <3> QED  BY <1>0, <2>2, <3>1, <3>2
    <2>7. End' = last + z + stale' /\ writer'.state = "OK" /\ writer'.offset = last + z
      BY <1>0, <1>2, <1>3, <1>4, <1>5, <2>1
    <2>8. stale' = 0 => CutOff(storage', last + z)
      BY <1>3, <2>1, <2>7 DEF CutOff, End
    <2>9. ~astray' /\ reader'.state = "OK" => reader'.offset = new[loaded' + 1]
      <3>1. loaded + 1 \in 1 .. Kept + 1  BY <1>0
      <3> QED  BY <1>1, <1>5, <2>3, <3>1
    <2>10. Placed(new)'
      <3>1. /\ \A k \in 1 .. Kept' + 1 : new[k] <= new[Kept' + 1]
            /\ writer'.state = "OK" =>
                 writer'.offset = new[Kept' + 1] /\ End' = new[Kept' + 1] + stale'
            /\ stale' = 0 => CutOff(storage', new[Kept' + 1])
        BY <2>4, <2>6, <2>7, <2>8
      <3>2. End' >= new[Kept' + 1] + stale'
        BY <1>0, <2>4, <2>7
      <3>3. \A k \in 1 .. Kept' :
              /\ EntryOK(stored'[k]) /\ Sits(storage', new[k], stored'[k])
              /\ new[k + 1] = new[k] + Size(stored'[k])
        BY <2>5
      <3> QED  BY <2>4, <2>9, <3>1, <3>2, <3>3, Zenon DEF Placed
    <2> QED  BY <2>10 DEF ItemsPlaced
  <1>9. CASE Cut(Sink, s) /\ stored' = stored
    <2>1. /\ s.state = "FAILED" /\ Same(storage, storage', last) /\ Len(storage') >= Len(storage)
          /\ Len(storage) = last => CutOff(storage', last)
      BY <1>4, <1>6, <1>9 DEF Cut
    <2>2. Kept' = Kept /\ End' >= End
      BY <1>9, <2>1 DEF Kept, End
    <2>3. \A k \in 1 .. Kept' :
            /\ EntryOK(stored'[k]) /\ Sits(storage', pos[k], stored'[k])
            /\ pos[k + 1] = pos[k] + Size(stored'[k])
      BY <1>1, <1>7, <1>9, <2>1, <2>2
    <2>4. stale' = 0 => CutOff(storage', last)
      BY <1>2, <1>3, <1>5, <2>1 DEF End
    <2>5. End' >= last + stale' /\ writer'.state = "FAILED" /\ pos[Kept' + 1] = last
      BY <1>0, <1>2, <1>3, <1>4, <1>5, <2>1, <2>2 DEF last
    <2>6. ~astray' /\ reader'.state = "OK" => reader'.offset = pos[loaded' + 1]
      BY <1>1, <1>5
    <2>7. Placed(pos)'
      BY <1>1, <2>2, <2>3, <2>4, <2>5, <2>6 DEF Placed
    <2> QED  BY <2>7 DEF ItemsPlaced
  <1> QED
    BY <1>4, <1>8, <1>9

\* A reader at an item takes it when it is asked for by its type, and fails
\* otherwise; one behind the items fails, unless older bytes follow
LoadsInOrder(pos) ==
    /\ reader.state = "FAILED" => reader'.state = "FAILED" /\ UNCHANGED <<loaded, astray>>
    /\ astray => UNCHANGED <<loaded, astray>>
    /\ reader.state = "OK" /\ ~astray /\ loaded < Kept =>
         /\ ~astray'
         /\ \/ /\ asked' = stored[loaded + 1].type /\ var' = stored[loaded + 1].val
               /\ reader'.state = "OK" /\ reader'.offset = pos[loaded + 2] /\ loaded' = loaded + 1
            \/ asked' # stored[loaded + 1].type /\ reader'.state = "FAILED" /\ loaded' = loaded
    /\ reader.state = "OK" /\ ~astray /\ loaded = Kept =>
         /\ loaded' = loaded
         /\ \/ reader'.state = "FAILED" /\ ~astray'
            \/ reader'.state = "OK" /\ astray' /\ stale > 0

LEMMA LoadInOrder ==
    ASSUME TypeOK, NEW pos, Placed(pos), Load
    PROVE  LoadsInOrder(pos)
  <1>0. /\ Kept \in Nat /\ End \in Nat /\ loaded \in 0 .. Kept /\ stale \in Nat
        /\ storage \in Seq(Nat) /\ Source \in Sources /\ reader.offset <= Len(storage)
        /\ reader.state \in States /\ astray \in BOOLEAN
    BY Lengths, SinkAndSource DEF TypeOK, Objects, States
  <1>1. PICK type \in Types : Loads(type) /\ Sound(LoadAs(type))
    BY LoadEnds
  <1> DEFINE l == LoadAs(type)
  <1>2. /\ reader'.state = l.obj.state /\ reader'.offset = l.obj.offset
        /\ var' = l.var /\ asked' = type
        /\ loaded' = IF l.obj.state = "OK" /\ ~astray /\ loaded < Kept THEN loaded + 1 ELSE loaded
        /\ astray' = (astray \/ (l.obj.state = "OK" /\ ~astray /\ loaded = Kept))
    BY <1>1 DEF Loads, Kept
  <1>3. l.obj.state \in States /\ (reader.state = "FAILED" => l.obj.state = "FAILED")
    BY <1>1 DEF Sound, Sources
  <1> HIDE DEF l
  <1>4. CASE reader.state = "FAILED"
    <2>1. l.obj.state = "FAILED"  BY <1>3, <1>4
    <2>2. reader'.state = "FAILED" /\ UNCHANGED <<loaded, astray>>
      BY <1>0, <1>2, <2>1
    <2> QED  BY <1>4, <2>2 DEF LoadsInOrder
  <1>5. CASE astray
    <2>1. UNCHANGED <<loaded, astray>>
      BY <1>0, <1>2, <1>5
    <2> QED  BY <1>3, <1>2, <1>5, <2>1 DEF LoadsInOrder
  <1>6. CASE reader.state = "OK" /\ ~astray /\ loaded < Kept
    <2>1. loaded + 1 \in 1 .. Kept
      BY <1>0, <1>6
    <2> DEFINE e == stored[loaded + 1]
    <2>2. EntryOK(e) /\ Sits(storage, pos[loaded + 1], e) /\ pos[loaded + 2] = pos[loaded + 1] + Size(e)
      <3>1. loaded + 1 + 1 = loaded + 2  BY <1>0
      <3> QED  BY <2>1, <3>1 DEF Placed
    <2>3. reader.offset = pos[loaded + 1]
      BY <1>6 DEF Placed
    <2>4. /\ type # e.type => l.obj.state = "FAILED"
          /\ type = e.type => l.obj.state = "OK" /\ l.var = e.val /\ l.obj.offset = reader.offset + Size(e)
      <3> HIDE DEF e
      <3> QED  BY <1>0, <1>6, <2>2, <2>3, LoadEntryIs DEF l
    <2> HIDE DEF e
    <2>5. ~astray'
      BY <1>0, <1>2, <1>6
    <2>6. CASE type = e.type
      <3>1. reader'.state = "OK" /\ var' = e.val /\ asked' = e.type /\ loaded' = loaded + 1
        BY <1>2, <1>6, <2>4, <2>6
      <3>2. reader'.offset = pos[loaded + 2]
        BY <1>2, <2>2, <2>3, <2>4, <2>6
      <3> QED  BY <1>0, <1>6, <2>5, <3>1, <3>2 DEF LoadsInOrder, e
    <2>7. CASE type # e.type
      <3>1. reader'.state = "FAILED" /\ asked' # e.type /\ loaded' = loaded
        BY <1>2, <2>4, <2>7
      <3> QED  BY <1>0, <1>6, <2>5, <3>1 DEF LoadsInOrder, e
    <2> QED  BY <2>6, <2>7
  <1>7. CASE reader.state = "OK" /\ ~astray /\ loaded = Kept
    <2>1. loaded' = loaded
      BY <1>0, <1>2, <1>7
    <2>2. astray' = (reader'.state = "OK")
      BY <1>0, <1>2, <1>7
    <2>3. stale = 0 => l.obj.state = "FAILED"
      <3> SUFFICES ASSUME stale = 0  PROVE l.obj.state = "FAILED"
        OBVIOUS
      <3>1. CutOff(storage, reader.offset)
        BY <1>7 DEF Placed
      <3> QED  BY <1>0, <1>7, <3>1, LoadCutOff DEF l
    <2>4. \/ reader'.state = "FAILED" /\ ~astray'
          \/ reader'.state = "OK" /\ astray' /\ stale > 0
      <3>1. CASE l.obj.state = "FAILED"
        <4>1. reader'.state = "FAILED" /\ reader'.state # "OK"  BY <1>2, <3>1
        <4> QED  BY <2>2, <4>1
      <3>2. CASE l.obj.state = "OK"
        <4>1. reader'.state = "OK" /\ stale # 0  BY <1>2, <2>3, <3>2
        <4>2. astray'  BY <2>2, <4>1, Zenon
        <4>3. stale > 0  BY <1>0, <4>1
        <4> QED  BY <4>1, <4>2, <4>3, Zenon
      <3> QED  BY <1>3, <3>1, <3>2 DEF States
    <2> QED  BY <1>0, <1>7, <2>1, <2>4 DEF LoadsInOrder
  <1> QED
    <2>1. loaded = Kept \/ loaded < Kept  BY <1>0
    <2> QED  BY <1>0, <1>4, <1>5, <1>6, <1>7, <2>1 DEF States

LEMMA LoadKeepsPlaced ==
    ASSUME TypeOK, NEW pos, Placed(pos), Load
    PROVE  ItemsPlaced'
  <1>0. Kept \in Nat /\ loaded \in 0 .. Kept /\ reader.state \in States /\ astray \in BOOLEAN
    BY Lengths DEF TypeOK, Objects, States
  <1>1. UNCHANGED <<storage, writer, stored, stale>>
    BY DEF Load
  <1>2. UNCHANGED <<Kept, End>>
    BY <1>1 DEF Kept, End
  <1>3. LoadsInOrder(pos)
    BY LoadInOrder
  <1>4. ~astray' /\ reader'.state = "OK" => reader'.offset = pos[loaded' + 1]
    <2> SUFFICES ASSUME ~astray', reader'.state = "OK"
                 PROVE  reader'.offset = pos[loaded' + 1]
      OBVIOUS
    <2>1. reader.state = "OK"
      BY <1>0, <1>3 DEF LoadsInOrder, States
    <2>2. ~astray
      BY <1>3 DEF LoadsInOrder
    <2>3. loaded < Kept
      <3>1. loaded = Kept \/ loaded < Kept  BY <1>0
      <3> QED  BY <1>3, <2>1, <2>2, <3>1 DEF LoadsInOrder
    <2>4. reader'.offset = pos[loaded + 2] /\ loaded' = loaded + 1
      BY <1>3, <2>1, <2>2, <2>3 DEF LoadsInOrder
    <2>5. loaded' + 1 = loaded + 2  BY <1>0, <2>4
    <2> QED  BY <2>4, <2>5
  <1>5. Placed(pos)'
    <2>1. /\ pos \in [1 .. Kept' + 1 -> Nat] /\ pos[1] = 0
          /\ \A k \in 1 .. Kept' :
               /\ EntryOK(stored'[k]) /\ Sits(storage', pos[k], stored'[k])
               /\ pos[k + 1] = pos[k] + Size(stored'[k])
          /\ \A k \in 1 .. Kept' + 1 : pos[k] <= pos[Kept' + 1]
          /\ End' >= pos[Kept' + 1] + stale'
          /\ writer'.state = "OK" => writer'.offset = pos[Kept' + 1] /\ End' = pos[Kept' + 1] + stale'
          /\ stale' = 0 => CutOff(storage', pos[Kept' + 1])
      BY <1>1, <1>2 DEF Placed
    <2> QED  BY <1>4, <2>1, Zenon DEF Placed
  <1> QED  BY <1>5 DEF ItemsPlaced

LEMMA PlacedStays == TypeOK /\ TypeOK' /\ ItemsPlaced /\ [Next]_vars => ItemsPlaced'
  <1> SUFFICES ASSUME TypeOK, TypeOK', ItemsPlaced, [Next]_vars  PROVE ItemsPlaced'
    OBVIOUS
  <1>0. PICK pos : Placed(pos)
    BY DEF ItemsPlaced
  <1>l. /\ Kept \in Nat /\ End \in Nat /\ loaded \in 0 .. Kept /\ stale \in Nat
    BY Lengths
  <1>1. CASE Store
    BY <1>0, <1>1, StoreKeepsPlaced
  <1>2. CASE Load
    BY <1>0, <1>2, LoadKeepsPlaced
  <1>3. CASE Rewind
    <2>1. /\ reader' = NewObject /\ loaded' = 0
          /\ UNCHANGED <<storage, writer, stored, stale>>
      BY <1>3 DEF Rewind
    <2>2. UNCHANGED <<Kept, End>>
      BY <2>1 DEF Kept, End
    <2>3. reader'.offset = pos[loaded' + 1]
      BY <1>0, <2>1, NothingYet DEF Placed
    <2>4. /\ pos \in [1 .. Kept' + 1 -> Nat] /\ pos[1] = 0
          /\ \A k \in 1 .. Kept' :
               /\ EntryOK(stored'[k]) /\ Sits(storage', pos[k], stored'[k])
               /\ pos[k + 1] = pos[k] + Size(stored'[k])
          /\ \A k \in 1 .. Kept' + 1 : pos[k] <= pos[Kept' + 1]
          /\ End' >= pos[Kept' + 1] + stale'
          /\ writer'.state = "OK" => writer'.offset = pos[Kept' + 1] /\ End' = pos[Kept' + 1] + stale'
          /\ stale' = 0 => CutOff(storage', pos[Kept' + 1])
      BY <1>0, <2>1, <2>2 DEF Placed
    <2>5. Placed(pos)'
      BY <2>3, <2>4, Zenon DEF Placed
    <2> QED  BY <2>5 DEF ItemsPlaced
  <1>4. CASE Renew
    <2>1. /\ storage' = <<>> /\ writer' = NewObject /\ reader' = NewObject
          /\ stored' = <<>> /\ loaded' = 0 /\ stale' = 0
      BY <1>4 DEF Renew
    <2>2. Kept' = 0 /\ End' = 0
      BY <2>1, NothingYet DEF Kept, End
    <2>3. PICK new : new \in [1 .. 1 -> Nat] /\ new[1] = 0
      <3>1. [k \in 1 .. 1 |-> 0] \in [1 .. 1 -> Nat] /\ [k \in 1 .. 1 |-> 0][1] = 0
        OBVIOUS
      <3> QED  BY <3>1
    <2>4. Placed(new)'
      BY <2>1, <2>2, <2>3, NothingYet DEF Placed, CutOff, End
    <2> QED  BY <2>4 DEF ItemsPlaced
  <1>5. CASE Reuse
    <2>1. /\ writer' = NewObject /\ stored' = <<>> /\ loaded' = 0 /\ stale' = Len(storage)
          /\ astray' = (astray \/ loaded # 0) /\ UNCHANGED <<storage, reader>>
      BY <1>5 DEF Reuse
    <2>2. Kept' = 0 /\ End' = End /\ stale' = End
      BY <2>1, NothingYet DEF Kept, End
    <2>3. PICK new : new \in [1 .. 1 -> Nat] /\ new[1] = 0
      <3>1. [k \in 1 .. 1 |-> 0] \in [1 .. 1 -> Nat] /\ [k \in 1 .. 1 |-> 0][1] = 0
        OBVIOUS
      <3> QED  BY <3>1
    <2>4. ~astray' /\ reader'.state = "OK" => reader'.offset = 0
      <3>1. ~astray' => ~astray /\ loaded = 0
        BY <2>1, Zenon
      <3>2. loaded = 0 => loaded + 1 = 1
        OBVIOUS
      <3>3. ~astray /\ loaded = 0 /\ reader.state = "OK" => reader.offset = 0
        BY <1>0, <3>2 DEF Placed
      <3> QED  BY <2>1, <3>1, <3>3
    <2>5. stale' = 0 => CutOff(storage', 0)
      BY <2>1, <2>2 DEF CutOff, End
    <2>6. Placed(new)'
      BY <1>l, <2>1, <2>2, <2>3, <2>4, <2>5, NothingYet DEF Placed
    <2> QED  BY <2>6 DEF ItemsPlaced
  <1>6. CASE UNCHANGED vars
    <2>1. UNCHANGED <<storage, writer, reader, stored, loaded, stale, astray, Kept, End>>
      BY <1>6 DEF vars, Kept, End
    <2>2. /\ pos \in [1 .. Kept' + 1 -> Nat] /\ pos[1] = 0
          /\ \A k \in 1 .. Kept' :
               /\ EntryOK(stored'[k]) /\ Sits(storage', pos[k], stored'[k])
               /\ pos[k + 1] = pos[k] + Size(stored'[k])
          /\ \A k \in 1 .. Kept' + 1 : pos[k] <= pos[Kept' + 1]
          /\ End' >= pos[Kept' + 1] + stale'
          /\ writer'.state = "OK" => writer'.offset = pos[Kept' + 1] /\ End' = pos[Kept' + 1] + stale'
          /\ stale' = 0 => CutOff(storage', pos[Kept' + 1])
      BY <1>0, <2>1 DEF Placed
    <2>3. ~astray' /\ reader'.state = "OK" => reader'.offset = pos[loaded' + 1]
      BY <1>0, <2>1, Zenon DEF Placed
    <2>4. Placed(pos)'
      BY <2>2, <2>3, Zenon DEF Placed
    <2> QED  BY <2>4 DEF ItemsPlaced
  <1> QED
    BY <1>1, <1>2, <1>3, <1>4, <1>5, <1>6 DEF Next

-----------------------------------------------------------------------------
(* The theorems *)

IInv == TypeOK /\ ItemsPlaced

LEMMA InvAtFirst == Init => IInv
  BY TypesAtFirst, PlacedAtFirst DEF IInv

LEMMA InvStays == IInv /\ [Next]_vars => IInv'
  BY TypesStay, PlacedStays DEF IInv

LEMMA AlwaysInv == Spec => []IInv
  BY InvAtFirst, InvStays, PTL DEF Spec

\* The variables of the Serializer keep their types, and both objects are
\* inside the storage whatever is stored, loaded, or fails
THEOREM TypeCorrect == Spec => []TypeOK
  BY AlwaysInv, PTL DEF IInv

\* A reader that is still at the items is at one of them, or at their end
LEMMA AtAnItem ==
    ASSUME TypeOK, NEW pos, Placed(pos), ~astray, ImportStatus
    PROVE  loaded = Len(stored) /\ stale = 0
  <1>0. Kept \in Nat /\ End \in Nat /\ loaded \in 0 .. Kept /\ stale \in Nat
    BY Lengths
  <1>1. reader.state = "OK" /\ reader.offset = End /\ reader.offset = pos[loaded + 1]
    BY DEF ImportStatus, Placed, End
  <1>2. CASE loaded < Kept
    <2> DEFINE k == loaded + 1
    <2>1. k \in 1 .. Kept /\ k + 1 \in 1 .. Kept + 1
      BY <1>0, <1>2
    <2> HIDE DEF k
    <2>2. /\ pos \in [1 .. Kept + 1 -> Nat] /\ EntryOK(stored[k])
          /\ pos[k + 1] = pos[k] + Size(stored[k]) /\ pos[k + 1] <= pos[Kept + 1]
          /\ End >= pos[Kept + 1] + stale
      BY <2>1 DEF Placed
    <2>3. Size(stored[k]) \in Nat \ {0}
      BY <2>2, EntryIs
    <2>4. Kept + 1 \in 1 .. Kept + 1 /\ k \in 1 .. Kept + 1
      BY <1>0, <2>1
    <2>5. pos[k] \in Nat /\ pos[Kept + 1] \in Nat
      BY <2>2, <2>4
    <2>6. pos[k] < End
      BY <1>0, <2>2, <2>3, <2>5
    <2> QED  BY <1>1, <2>5, <2>6 DEF k
  <1>3. CASE loaded = Kept
    <2>1. End >= pos[Kept + 1] + stale /\ pos[Kept + 1] = End
      BY <1>1, <1>3 DEF Placed
    <2> QED  BY <1>0, <1>3, <2>1 DEF Kept
  <1> QED  BY <1>0, <1>2, <1>3

\* ImportStatus holds when all the items were loaded, and only then
THEOREM ImportIsComplete == Spec => []ImportMeansAll
  <1>1. IInv => ImportMeansAll
    <2> SUFFICES ASSUME IInv, ~astray
                 PROVE  /\ ImportStatus => loaded = Len(stored)
                        /\ ExportStatus /\ stale = 0 /\ reader.state = "OK" /\ loaded = Len(stored) =>
                             ImportStatus
      BY DEF ImportMeansAll
    <2>1. PICK pos : Placed(pos)
      BY DEF IInv, ItemsPlaced
    <2>2. ImportStatus => loaded = Len(stored)
      BY <2>1, AtAnItem DEF IInv
    <2>3. ASSUME ExportStatus, stale = 0, reader.state = "OK", loaded = Len(stored)
          PROVE  ImportStatus
      <3>0. Kept \in Nat /\ End \in Nat /\ loaded = Kept /\ reader.offset \in Nat
        BY <2>3, Lengths DEF IInv, Kept
      <3>1. End = pos[Kept + 1] + stale /\ reader.offset = pos[Kept + 1]
        BY <2>1, <2>3, <3>0 DEF Placed, ExportStatus
      <3>2. reader.offset = End
        BY <2>3, <3>0, <3>1
      <3> QED  BY <2>3, <3>2 DEF ImportStatus, End
    <2> QED  BY <2>2, <2>3
  <1> QED
    BY <1>1, AlwaysInv, PTL

\* A reader that takes the items of a writer which began over a storage in use
\* is told that there is more
THEOREM ReuseNoticed == Spec => []ReuseIsNoticed
  <1>1. IInv => ReuseIsNoticed
    BY AtAnItem DEF IInv, ItemsPlaced, ReuseIsNoticed
  <1> QED
    BY <1>1, AlwaysInv, PTL

\* The Serializer implements the queue of typed items
THEOREM IsATypedQueue == Spec => KeepsTheQueue
  <1>1. Init => Queue!Init
    <2> SUFFICES ASSUME Init  PROVE Queue!Init
      OBVIOUS
    <2>1. /\ stored = <<>> /\ loaded + 1 = 1 /\ writer.state = "OK" /\ reader.state = "OK"
          /\ stale = 0 /\ astray = FALSE
      BY NothingYet DEF Init
    <2> QED  BY <2>1 DEF Queue!Init
  <1>2. IInv /\ IInv' /\ [Next]_vars => [Queue!Next]_(Queue!vars)
    <2> SUFFICES ASSUME IInv, IInv', [Next]_vars  PROVE [Queue!Next]_(Queue!vars)
      OBVIOUS
    <2>0. /\ Kept \in Nat /\ End \in Nat /\ loaded \in 0 .. Kept /\ stale \in Nat
          /\ stored \in Seq([type : Types, val : Seq(Nat)])
          /\ reader.state \in States /\ writer.state \in States
          /\ astray \in BOOLEAN /\ astray' \in BOOLEAN
      BY Lengths DEF IInv, TypeOK, Objects, States
    <2>p. PICK pos : Placed(pos)
      BY DEF IInv, ItemsPlaced
    <2>1. CASE Store
      <3>1. PICK it \in Items, s \in Sinks :
              /\ writer' = [state |-> s.state, offset |-> s.offset]
              /\ \/ Whole(Sink, s, Entry(it)) /\ stored' = Append(stored, Entry(it))
                 \/ Cut(Sink, s) /\ stored' = stored
        BY <2>1, StoreEnds DEF IInv
      <3>2. writer.state = "OK" /\ UNCHANGED <<reader, var, asked, loaded, stale, astray>>
        BY <2>1 DEF Store
      <3>3. \/ writer'.state = "OK" /\ stored' = Append(stored, Entry(it))
            \/ writer'.state = "FAILED" /\ stored' = stored
        BY <3>1 DEF Whole, Cut
      <3>4. Queue!Store
        BY <3>2, <3>3 DEF Queue!Store
      <3> QED  BY <3>4 DEF Queue!Next
    <2>2. CASE Load
      <3>1. LoadsInOrder(pos) /\ asked' \in Types
        BY <2>2, <2>p, LoadInOrder, LoadEnds DEF IInv, Loads
      <3>2. UNCHANGED <<storage, writer, stored, stale>>
        BY <2>2 DEF Load
      <3>3. CASE reader.state = "FAILED"
        <4>1. reader'.state = "FAILED" /\ UNCHANGED <<loaded, astray>>
          BY <3>1, <3>3 DEF LoadsInOrder
        <4>2. Queue!LoadNothing
          BY <3>2, <3>3, <4>1 DEF Queue!LoadNothing
        <4> QED  BY <4>2 DEF Queue!Next
      <3>4. CASE reader.state = "OK" /\ astray
        <4>1. UNCHANGED <<loaded, astray>>
          BY <3>1, <3>4 DEF LoadsInOrder
        <4>2. Queue!LoadLost
          BY <3>2, <3>4, <4>1 DEF Queue!LoadLost
        <4> QED  BY <4>2 DEF Queue!Next
      <3>5. CASE reader.state = "OK" /\ ~astray /\ loaded < Kept
        <4>1. /\ ~astray'
              /\ \/ /\ asked' = stored[loaded + 1].type /\ var' = stored[loaded + 1].val
                    /\ reader'.state = "OK" /\ loaded' = loaded + 1
                 \/ asked' # stored[loaded + 1].type /\ reader'.state = "FAILED" /\ loaded' = loaded
          BY <3>1, <3>5 DEF LoadsInOrder
        <4>2. loaded + 1 \in DOMAIN stored
          BY <2>0, <3>5 DEF Kept
        <4>3. Queue!Fits(asked') <=> asked' = stored[loaded + 1].type
          BY <4>2 DEF Queue!Fits
        <4>4. astray = FALSE /\ astray' = FALSE
          BY <2>0, <3>5, <4>1
        <4>5. /\ (reader.state = "OK") = TRUE /\ asked' \in Types
              /\ UNCHANGED <<stored, writer.state = "OK", stale > 0>>
          BY <3>1, <3>2, <3>5
        <4>6. \/ /\ Queue!Fits(asked') /\ var' = stored[loaded + 1].val
                 /\ loaded' + 1 = loaded + 1 + 1 /\ (reader'.state = "OK") = TRUE
              \/ /\ ~Queue!Fits(asked') /\ (reader'.state = "OK") = FALSE
                 /\ loaded' + 1 = loaded + 1
          BY <4>1, <4>3
        <4>7. Queue!Load
          BY <4>4, <4>5, <4>6, Zenon DEF Queue!Load
        <4> QED  BY <4>7 DEF Queue!Next
      <3>6. CASE reader.state = "OK" /\ ~astray /\ loaded = Kept
        <4>1. /\ loaded' = loaded
              /\ \/ reader'.state = "FAILED" /\ ~astray'
                 \/ reader'.state = "OK" /\ astray' /\ stale > 0
          BY <3>1, <3>6 DEF LoadsInOrder
        <4>2. loaded + 1 \notin DOMAIN stored
          BY <2>0, <3>6 DEF Kept
        <4>3. ~Queue!Fits(asked')
          BY <4>2 DEF Queue!Fits
        <4>4. /\ (reader.state = "OK") = TRUE /\ asked' \in Types /\ astray = FALSE
              /\ UNCHANGED <<stored, writer.state = "OK", stale > 0>>
          BY <2>0, <3>1, <3>2, <3>6
        <4>5. /\ loaded' + 1 = loaded + 1
              /\ \/ (reader'.state = "OK") = FALSE /\ astray' = FALSE
                 \/ (reader'.state = "OK") = TRUE /\ astray' = TRUE /\ stale > 0
          BY <2>0, <4>1
        <4>6. Queue!Load
          BY <4>2, <4>3, <4>4, <4>5, Zenon DEF Queue!Load
        <4> QED  BY <4>6 DEF Queue!Next
      <3> QED
        <4>1. loaded = Kept \/ loaded < Kept  BY <2>0
        <4> QED  BY <2>0, <3>3, <3>4, <3>5, <3>6, <4>1 DEF States
    <2>3. CASE Rewind
      <3>1. Queue!Rewind
        BY <2>3, NothingYet DEF Rewind, Queue!Rewind
      <3> QED  BY <3>1 DEF Queue!Next
    <2>4. CASE Renew
      <3>1. Queue!Renew
        BY <2>4, NothingYet DEF Renew, Queue!Renew
      <3> QED  BY <3>1 DEF Queue!Next
    <2>5. CASE Reuse
      <3>1. stored # <<>> => Len(storage) > 0
        <4> SUFFICES ASSUME stored # <<>>  PROVE End > 0
          BY DEF End
        <4>1. 1 \in 1 .. Kept /\ 1 + 1 \in 1 .. Kept + 1
          BY <2>0 DEF Kept
        <4>2. /\ pos \in [1 .. Kept + 1 -> Nat] /\ EntryOK(stored[1]) /\ pos[1 + 1] = 0 + Size(stored[1])
              /\ pos[1 + 1] <= pos[Kept + 1] /\ End >= pos[Kept + 1] + stale
          BY <2>p, <4>1 DEF Placed
        <4>3. Size(stored[1]) \in Nat \ {0}
          BY <4>2, EntryIs
        <4>4. pos[Kept + 1] \in Nat
          BY <2>0, <4>2
        <4> QED  BY <2>0, <4>2, <4>3, <4>4
      <3>2. Queue!Reuse
        <4>1. /\ writer' = NewObject /\ stored' = <<>> /\ loaded' = 0 /\ stale' = End /\ stale = 0
              /\ astray' = (astray \/ loaded # 0) /\ UNCHANGED <<reader, var, asked>>
          BY <2>5 DEF Reuse, End
        <4>2. stored' = <<>> /\ loaded' + 1 = 1 /\ (writer'.state = "OK") = TRUE
          BY <4>1, NothingYet
        <4>3. astray' = (astray \/ loaded + 1 # 1)
          <5>1. loaded # 0 <=> loaded + 1 # 1  BY <2>0
          <5> QED  BY <4>1, <5>1, Zenon
        <4>4. (stale' > 0) \in {stale > 0, TRUE} /\ (stored # <<>> => stale' > 0)
          <5>1. (stale > 0) = FALSE  BY <4>1
          <5>2. (stale' > 0) \in BOOLEAN  OBVIOUS
          <5>3. stored # <<>> => stale' > 0  BY <3>1, <4>1 DEF End
          <5> QED  BY <5>1, <5>2, <5>3, Zenon
        <4>5. UNCHANGED <<reader.state = "OK", asked, var>>
          BY <4>1
        <4> QED  BY <4>2, <4>3, <4>4, <4>5, Zenon DEF Queue!Reuse
      <3> QED  BY <3>2 DEF Queue!Next
    <2>6. CASE UNCHANGED vars
      BY <2>6 DEF vars, Queue!vars
    <2> QED
      BY <2>1, <2>2, <2>3, <2>4, <2>5, <2>6 DEF Next
  <1> QED
    BY <1>1, <1>2, AlwaysInv, PTL DEF Spec, KeepsTheQueue, Queue!Spec
=============================================================================
