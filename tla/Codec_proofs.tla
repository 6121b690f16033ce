---------------------------- MODULE Codec_proofs ----------------------------
(***************************************************************************)
(* What a repeater writes is what a repeater reads, for packets of every   *)
(* length, and what it reads from any bytes has its type.                  *)
(*                                                                         *)
(* XType lemmas say that X is well typed, XOf lemmas that X reads what     *)
(* was written.  Mentions are written and read by recursive functions;     *)
(* that these exist, and what they are, is proved from their iteration.    *)
(***************************************************************************)
EXTENDS Codec, TLAPS, WellFoundedInduction, SequenceTheorems

\* Zenon tries every step; SMT is named where arithmetic, or what only it knows
\* of functions and records, is needed.
USE ZenonT(40)
----------------------------------------------------------------------------
(* Induction, and functions defined by iteration *)

\* A set of natural numbers that is not empty has a least member.
LEMMA Least ==
  ASSUME NEW T \in SUBSET Nat, T # {}
  PROVE  \E x \in T : \A y \in T : x <= y
<1> DEFINE R == OpToRel(<, Nat)
<1>1. IsWellFoundedOn(R, Nat)
  BY NatLessThanWellFounded
<1>2. \A x, y \in Nat : y < x => <<y, x>> \in R
  BY DEF OpToRel
<1> HIDE DEF R
<1>3. PICK x \in T : \A y \in T : <<y, x>> \notin R
  BY <1>1, WFMin
<1>4. \A y \in T : ~(y < x)
  BY <1>2, <1>3
<1> QED BY SMT, <1>4

\* Induction over the natural numbers, of a set: what holds of 0 and is handed
\* on by n to n + 1 holds of them all.
LEMMA Induction ==
  ASSUME NEW S, 0 \in S, \A n \in Nat : n \in S => n + 1 \in S
  PROVE  Nat \subseteq S
<1> DEFINE T == Nat \ S
<1> SUFFICES ASSUME T # {} PROVE FALSE
  OBVIOUS
<1>1. T \in SUBSET Nat
  OBVIOUS
<1>2. PICK x \in T : \A y \in T : x <= y
  <2> HIDE DEF T
  <2> QED BY <1>1, Least
<1>3. x # 0 /\ x \in Nat
  OBVIOUS
<1>4. x - 1 \in Nat
  BY SMT, <1>3
<1>5. x - 1 \notin T
  BY SMT, <1>2, <1>3, <1>4
<1>6. x - 1 \in S
  BY <1>4, <1>5
<1>7. (x - 1) + 1 \in S
  BY <1>4, <1>6
<1> QED BY SMT, <1>3, <1>7

\* g is the iteration of step from s0.
IsIterate(g, S, s0, step) ==
  g \in [Nat -> S] /\ g[0] = s0 /\ \A n \in Nat : g[n + 1] = step[n][g[n]]

\* An iteration exists: what the recursive functions of Codec are made of.
LEMMA Iterates ==
  ASSUME NEW S, NEW s0 \in S, NEW step \in [Nat -> [S -> S]]
  PROVE  \E g : IsIterate(g, S, s0, step)
<1> DEFINE Upto(n) == {h \in [0..n -> S] :
                         h[0] = s0 /\ \A i \in 0..(n - 1) : h[i + 1] = step[i][h[i]]}
<1> DEFINE D == {n \in Nat : Upto(n) # {}}
<1>1. Nat \subseteq D
  <2>1. 0 \in D
    <3>1. [i \in 0..0 |-> s0] \in Upto(0)
      BY SMT
    <3> QED BY <3>1
  <2>2. ASSUME NEW n \in Nat, n \in D PROVE n + 1 \in D
    <3>1. PICK h : h \in Upto(n)
      BY <2>2
    <3> DEFINE k == [i \in 0..(n + 1) |-> IF i = n + 1 THEN step[n][h[n]] ELSE h[i]]
    <3>2. h \in [0..n -> S] /\ h[0] = s0 /\ \A i \in 0..(n - 1) : h[i + 1] = step[i][h[i]]
      BY <3>1
    <3>3. k \in [0..(n + 1) -> S]
      BY SMT, <3>2
    <3>4. k[0] = s0
      BY SMT, <3>2
    <3>5. ASSUME NEW i \in 0..((n + 1) - 1) PROVE k[i + 1] = step[i][k[i]]
      BY SMT, <3>2
    <3>6. k \in Upto(n + 1)
      BY <3>3, <3>4, <3>5
    <3> HIDE DEF k, Upto
    <3> QED BY SMT, <3>6
  <2> HIDE DEF D
  <2> QED BY <2>1, <2>2, Induction
<1>2. ASSUME NEW n \in Nat, NEW h \in Upto(n), NEW k \in Upto(n + 1)
      PROVE  k[n] = h[n]
  <2> DEFINE E == {i \in Nat : i <= n => k[i] = h[i]}
  <2>1. 0 \in E
    OBVIOUS
  <2>2. ASSUME NEW i \in Nat, i \in E PROVE i + 1 \in E
    <3>1. CASE i + 1 <= n
      <4>1. i \in 0..(n - 1) /\ i \in 0..((n + 1) - 1) /\ k[i] = h[i]
        BY SMT, <2>2, <3>1
      <4>2. h[i + 1] = step[i][h[i]] /\ k[i + 1] = step[i][k[i]]
        BY <4>1
      <4> QED BY SMT, <4>1, <4>2
    <3> QED BY SMT, <3>1
  <2> HIDE DEF E
  <2>3. Nat \subseteq E
    BY <2>1, <2>2, Induction
  <2> QED BY SMT, <2>3 DEF E
<1> DEFINE pick == [n \in Nat |-> CHOOSE h : h \in Upto(n)]
<1>3. \A n \in Nat : pick[n] \in Upto(n)
  <2> SUFFICES ASSUME NEW n \in Nat PROVE pick[n] \in Upto(n)
    OBVIOUS
  <2>1. \E h : h \in Upto(n)
    BY <1>1
  <2>2. (CHOOSE h : h \in Upto(n)) \in Upto(n)
    <3> HIDE DEF Upto
    <3> QED BY <2>1
  <2> QED BY <2>2
<1> DEFINE g == [n \in Nat |-> pick[n][n]]
<1>4. g \in [Nat -> S]
  <2> HIDE DEF pick
  <2> QED BY SMT, <1>3
<1>5. g[0] = s0
  <2> HIDE DEF pick
  <2> QED BY <1>3
<1>6. ASSUME NEW n \in Nat PROVE g[n + 1] = step[n][g[n]]
  <2>1. pick[n + 1] \in Upto(n + 1) /\ pick[n] \in Upto(n)
    <3> HIDE DEF pick, Upto
    <3> QED BY SMT, <1>3
  <2> HIDE DEF pick
  <2>2. pick[n + 1][n + 1] = step[n][pick[n + 1][n]]
    BY SMT, <2>1
  <2>3. pick[n + 1][n] = pick[n][n]
    BY <1>2, <2>1
  <2> QED BY SMT, <2>2, <2>3
<1>7. IsIterate(g, S, s0, step)
  <2> HIDE DEF g
  <2> QED BY <1>4, <1>5, <1>6 DEF IsIterate
<1> QED BY <1>7
----------------------------------------------------------------------------
(* Sequences *)

\* Two sequences that were joined are taken apart at the length of the first.
LEMMA Split ==
  ASSUME NEW S, NEW d \in Seq(S), NEW t \in Seq(S)
  PROVE  /\ SubSeq(d \o t, 1, Len(d)) = d
         /\ After(d \o t, Len(d)) = t
<1>1. /\ d \o t \in Seq(S)
      /\ Len(d \o t) = Len(d) + Len(t)
      /\ \A i \in 1..(Len(d) + Len(t)) : (d \o t)[i] = IF i <= Len(d) THEN d[i] ELSE t[i - Len(d)]
  BY ConcatProperties
<1>2. Len(d) \in Nat /\ Len(t) \in Nat
  BY SMT
<1>3. \A i \in 1..Len(d \o t) : (d \o t)[i] \in S
  BY SMT, <1>1
<1> DEFINE u == d \o t
<1>4. u = d \o t
  OBVIOUS
<1> HIDE DEF u
<1>5. SubSeq(u, 1, Len(d)) = d
  <2>1. \A i \in 1..Len(d) : u[i] \in S
    BY SMT, <1>1, <1>2, <1>3, <1>4
  <2>2. /\ SubSeq(u, 1, Len(d)) \in Seq(S)
        /\ Len(SubSeq(u, 1, Len(d))) = IF 1 <= Len(d) THEN Len(d) - 1 + 1 ELSE 0
        /\ \A i \in 1..(Len(d) - 1 + 1) : SubSeq(u, 1, Len(d))[i] = u[1 + i - 1]
    BY SMT, <1>2, <2>1, SubSeqProperties
  <2>3. Len(SubSeq(u, 1, Len(d))) = Len(d)
    BY SMT, <1>2, <2>2
  <2>4. \A i \in 1..Len(d) : SubSeq(u, 1, Len(d))[i] = d[i]
    BY SMT, <1>1, <1>2, <1>4, <2>2
  <2> QED BY <2>2, <2>3, <2>4, SeqEqual
<1>6. SubSeq(u, Len(d) + 1, Len(u)) = t
  <2> DEFINE v == SubSeq(u, Len(d) + 1, Len(u))
  <2>1. \A i \in (Len(d) + 1)..Len(u) : u[i] \in S
    BY SMT, <1>1, <1>2, <1>3, <1>4
  <2>2. /\ v \in Seq(S)
        /\ Len(v) = IF Len(d) + 1 <= Len(u) THEN Len(u) - (Len(d) + 1) + 1 ELSE 0
        /\ \A i \in 1..(Len(u) - (Len(d) + 1) + 1) : v[i] = u[(Len(d) + 1) + i - 1]
    BY SMT, <1>1, <1>2, <1>4, <2>1, SubSeqProperties
  <2> HIDE DEF v
  <2>3. Len(v) = Len(t)
    BY SMT, <1>1, <1>2, <1>4, <2>2
  <2>4. ASSUME NEW i \in 1..Len(t) PROVE v[i] = t[i]
    <3>1. i \in 1..(Len(u) - (Len(d) + 1) + 1) /\ (Len(d) + 1) + i - 1 = Len(d) + i
      BY SMT, <1>1, <1>2, <1>4
    <3>2. v[i] = u[Len(d) + i]
      BY <2>2, <3>1
    <3>3. /\ Len(d) + i \in 1..(Len(d) + Len(t)) /\ ~(Len(d) + i <= Len(d))
          /\ (Len(d) + i) - Len(d) = i
      BY SMT, <1>2
    <3> QED BY <1>1, <1>4, <3>2, <3>3
  <2>5. v = t
    BY <2>2, <2>3, <2>4, SeqEqual
  <2> QED BY <2>5 DEF v
<1> QED BY <1>4, <1>5, <1>6 DEF After

\* The first part of two joined sequences.
LEMMA FrontOf ==
  ASSUME NEW S, NEW d \in Seq(S), NEW t \in Seq(S)
  PROVE  Len(d \o t) = Len(d) + Len(t) /\ \A i \in 1..Len(d) : (d \o t)[i] = d[i]
<1>1. /\ Len(d \o t) = Len(d) + Len(t)
      /\ \A i \in 1..(Len(d) + Len(t)) : (d \o t)[i] = IF i <= Len(d) THEN d[i] ELSE t[i - Len(d)]
  BY ConcatProperties
<1>2. Len(d) \in Nat /\ Len(t) \in Nat
  BY SMT
<1> DEFINE u == d \o t
<1> HIDE DEF u
<1>3. \A i \in 1..Len(d) : i \in 1..(Len(d) + Len(t)) /\ i <= Len(d)
  BY SMT, <1>2
<1>4. \A i \in 1..Len(d) : u[i] = d[i]
  BY <1>1, <1>3 DEF u
<1> QED BY <1>1, <1>4 DEF u

\* The first n elements, what comes after them, and both joined.
LEMMA Rest ==
  ASSUME NEW S, NEW s \in Seq(S), NEW n \in 0..Len(s)
  PROVE  /\ SubSeq(s, 1, n) \in Seq(S) /\ Len(SubSeq(s, 1, n)) = n
         /\ After(s, n) \in Seq(S) /\ Len(After(s, n)) = Len(s) - n
         /\ s = SubSeq(s, 1, n) \o After(s, n)
<1>1. Len(s) \in Nat /\ n \in Nat /\ n <= Len(s)
  BY SMT
<1>2. \A i \in 1..Len(s) : s[i] \in S
  BY SMT
<1>3. SubSeq(s, 1, n) \in Seq(S) /\ Len(SubSeq(s, 1, n)) = n
  <2>1. \A i \in 1..n : s[i] \in S
    BY SMT, <1>1, <1>2
  <2> QED BY SMT, <1>1, <2>1, SubSeqProperties
<1>4. After(s, n) \in Seq(S) /\ Len(After(s, n)) = Len(s) - n
  <2>1. \A i \in (n + 1)..Len(s) : s[i] \in S
    BY SMT, <1>1, <1>2
  <2> QED BY SMT, <1>1, <2>1, SubSeqProperties DEF After
<1>5. SubSeq(s, 1, n) \o SubSeq(s, n + 1, Len(s)) = SubSeq(s, 1, Len(s))
  <2>1. 1 \in 1..(Len(s) + 1) /\ n \in (1 - 1)..Len(s) /\ Len(s) \in n..Len(s)
    BY SMT, <1>1
  <2> QED BY <2>1, ConcatAdjacentSubSeq
<1> QED BY <1>3, <1>4, <1>5, SubSeqFull DEF After
-----------------------------------------------------------------------------
(* Numbers *)

\* The sizes, cited where numbers are needed; elsewhere Positive, InBytes and
\* InShorts say what a proof uses of them.
LEMMA Sizes == Byte = 256 /\ Short = 65536
BY SMT DEF Byte, Short

\* The sizes are natural numbers above one.
LEMMA Positive == Byte \in Nat /\ 1 < Byte /\ Short \in Nat /\ 1 < Short
BY SMT, Sizes

\* What it is to be a byte.
LEMMA InBytes == \A x : x \in Bytes <=> x \in Int /\ 0 <= x /\ x < Byte
<1>1. Byte \in Int
  BY SMT, Sizes
<1> QED BY SMT, <1>1 DEF Bytes

\* What it is to be a uint16_t.
LEMMA InShorts == \A x : x \in 0..(Short - 1) <=> x \in Int /\ 0 <= x /\ x < Short
<1>1. Short \in Int
  BY SMT, Sizes
<1> QED BY SMT, <1>1

\* A uint64_t has bytes, and the length of its hex digits fits in one.
LEMMA LongSize == LongBytes \in Nat /\ 0 < LongBytes /\ 2 * LongBytes \in Bytes
<1>1. LongBytes \in Int /\ 1 <= LongBytes /\ LongBytes <= (Byte - 1) \div 2
  BY SMT, LengthAssumption, Sizes
<1> QED BY SMT, <1>1, Sizes, InBytes

\* Two bytes make a uint16_t.
LEMMA FromDigits ==
  ASSUME NEW x \in Bytes, NEW y \in Bytes
  PROVE  Byte * x + y \in 0..(Short - 1)
<1>1. x \in Int /\ 0 <= x /\ x < Byte /\ y \in Int /\ 0 <= y /\ y < Byte
  BY InBytes
<1>2. Byte * x + y \in Int /\ 0 <= Byte * x + y /\ Byte * x + y < Short
  BY SMT, <1>1, Sizes
<1> QED BY <1>2, InShorts

\* A uint16_t is made of its high and its low byte.
LEMMA Digits ==
  ASSUME NEW v \in Int, 0 <= v, v < Short
  PROVE  /\ v \div Byte \in Int /\ 0 <= v \div Byte /\ v \div Byte < Byte
         /\ v % Byte \in Int /\ 0 <= v % Byte /\ v % Byte < Byte
         /\ (v \div Byte) % Byte = v \div Byte
         /\ Byte * (v \div Byte) + (v % Byte) = v
BY SMT, Sizes

\* What write_uint16 writes are the two bytes of the value.
LEMMA ToDigits ==
  ASSUME NEW v \in 0..(Short - 1)
  PROVE  /\ (v \div Byte) % Byte \in Bytes
         /\ v % Byte \in Bytes
         /\ Byte * ((v \div Byte) % Byte) + (v % Byte) = v
<1>1. v \in Int /\ 0 <= v /\ v < Short
  BY InShorts
<1>2. /\ v \div Byte \in Int /\ 0 <= v \div Byte /\ v \div Byte < Byte
      /\ v % Byte \in Int /\ 0 <= v % Byte /\ v % Byte < Byte
      /\ (v \div Byte) % Byte = v \div Byte
      /\ Byte * (v \div Byte) + (v % Byte) = v
  BY <1>1, Digits
<1> QED BY <1>2, InBytes

----------------------------------------------------------------------------
(* What BinaryReader returns has its type *)

\* read_uint8 returns a byte, at the end of the data too.
LEMMA TakeByteType ==
  ASSUME NEW b \in Seq(Bytes)
  PROVE  TakeByte(b).value \in Bytes /\ TakeByte(b).rest \in Seq(Bytes)
<1>1. CASE Len(b) < 1
  <2>1. 0 \in Bytes
    BY SMT, InBytes, Sizes
  <2> QED BY <1>1, <2>1 DEF TakeByte
<1>2. CASE ~(Len(b) < 1)
  <2>1. 1 \in 0..Len(b) /\ b[1] \in Bytes
    BY SMT, <1>2
  <2> QED BY <1>2, <2>1, Rest DEF TakeByte
<1> QED BY <1>1, <1>2

\* read_uint16 returns a uint16_t, at the end of the data too.
LEMMA TakeShortType ==
  ASSUME NEW b \in Seq(Bytes)
  PROVE  TakeShort(b).value \in 0..(Short - 1) /\ TakeShort(b).rest \in Seq(Bytes)
<1>1. CASE Len(b) < 2
  <2>0. 0 < Short
    BY SMT, Sizes
  <2>1. 0 \in 0..(Short - 1)
    BY SMT, <2>0, InShorts
  <2> QED BY <1>1, <2>1 DEF TakeShort
<1>2. CASE ~(Len(b) < 2)
  <2>1. 2 \in 0..Len(b) /\ b[1] \in Bytes /\ b[2] \in Bytes
    BY SMT, <1>2
  <2>2. Byte * b[1] + b[2] \in 0..(Short - 1)
    BY <2>1, FromDigits
  <2> QED BY <1>2, <2>1, <2>2, Rest DEF TakeShort
<1> QED BY <1>1, <1>2

\* read_uint64 returns a uint64_t, at the end of the data too.
LEMMA TakeLongType ==
  ASSUME NEW b \in Seq(Bytes)
  PROVE  TakeLong(b).value \in Longs /\ TakeLong(b).rest \in Seq(Bytes)
<1>0. LongBytes \in Nat /\ 0 \in Bytes
  BY SMT, LongSize, InBytes, Sizes
<1>1. CASE Len(b) < LongBytes
  <2>1. Zero \in Longs
    BY <1>0 DEF Zero, Longs
  <2> QED BY <1>1, <2>1 DEF TakeLong
<1>2. CASE ~(Len(b) < LongBytes)
  <2>1. LongBytes \in 0..Len(b)
    BY SMT, <1>0, <1>2
  <2>2. \A i \in 1..LongBytes : LongBytes + 1 - i \in 1..Len(b)
    BY SMT, <1>0, <2>1
  <2>3. [i \in 1..LongBytes |-> b[LongBytes + 1 - i]] \in Longs
    BY SMT, <2>2 DEF Longs
  <2> QED BY <1>2, <2>1, <2>3, Rest DEF TakeLong
<1> QED BY <1>1, <1>2

\* read_data returns at most as many bytes as were asked for.
LEMMA TakeDataType ==
  ASSUME NEW b \in Seq(Bytes), NEW n \in Nat
  PROVE  /\ TakeData(b, n).readable \in BOOLEAN
         /\ TakeData(b, n).value \in Seq(Bytes)
         /\ Len(TakeData(b, n).value) <= n
         /\ TakeData(b, n).rest \in Seq(Bytes)
<1>1. CASE Len(b) < n
  BY SMT, <1>1 DEF TakeData
<1>2. CASE ~(Len(b) < n)
  <2>1. n \in 0..Len(b)
    BY SMT, <1>2
  <2> QED BY SMT, <1>2, <2>1, Rest DEF TakeData
<1> QED BY <1>1, <1>2
----------------------------------------------------------------------------
(* BinaryReader reads what BinaryWriter writes *)

\* read_uint8 reads what write_uint8 writes.
LEMMA TakeByteOf ==
  ASSUME NEW v \in Bytes, NEW t \in Seq(Bytes)
  PROVE  TakeByte(<<v>> \o t) = [value |-> v, rest |-> t]
<1> DEFINE s == <<v>> \o t
<1>1. <<v>> \in Seq(Bytes) /\ Len(<<v>>) = 1
  BY SMT
<1>2. After(s, 1) = t
  BY <1>1, Split
<1>3. Len(s) = 1 + Len(t) /\ s[1] = v
  BY SMT, <1>1, FrontOf
<1>4. ~(Len(s) < 1)
  BY SMT, <1>3
<1> HIDE DEF s
<1>5. TakeByte(s) = [value |-> v, rest |-> t]
  BY <1>2, <1>3, <1>4 DEF TakeByte
<1> QED BY <1>5 DEF s

\* read_uint16 reads what write_uint16 writes.
LEMMA TakeShortOf ==
  ASSUME NEW v \in 0..(Short - 1), NEW t \in Seq(Bytes)
  PROVE  TakeShort(WriteShort(v) \o t) = [value |-> v, rest |-> t]
<1> DEFINE w == WriteShort(v)
           s == w \o t
<1>0. (v \div Byte) % Byte \in Bytes /\ v % Byte \in Bytes
  BY ToDigits
<1>1. w \in Seq(Bytes) /\ Len(w) = 2 /\ w[1] = (v \div Byte) % Byte /\ w[2] = v % Byte
  BY SMT, <1>0 DEF WriteShort
<1> HIDE DEF w
<1>2. After(s, 2) = t
  BY <1>1, Split
<1>3. Len(s) = 2 + Len(t) /\ s[1] = w[1] /\ s[2] = w[2]
  <2>1. Len(s) = Len(w) + Len(t) /\ \A i \in 1..Len(w) : s[i] = w[i]
    BY <1>1, FrontOf
  <2> QED BY SMT, <1>1, <2>1
<1>4. ~(Len(s) < 2)
  BY SMT, <1>3
<1>5. Byte * ((v \div Byte) % Byte) + (v % Byte) = v
  BY ToDigits
<1> HIDE DEF s
<1>6. TakeShort(s) = [value |-> v, rest |-> t]
  BY <1>1, <1>2, <1>3, <1>4, <1>5 DEF TakeShort
<1> QED BY <1>6 DEF s, w

\* read_uint64 reads what write_uint64 writes.
LEMMA TakeLongOf ==
  ASSUME NEW v \in Longs, NEW t \in Seq(Bytes)
  PROVE  /\ WriteLong(v) \in Seq(Bytes) /\ Len(WriteLong(v)) = LongBytes
         /\ TakeLong(WriteLong(v) \o t) = [value |-> v, rest |-> t]
<1> DEFINE w == WriteLong(v)
           s == w \o t
<1>0. LongBytes \in Nat
  BY LongSize
<1>1. w \in Seq(Bytes) /\ Len(w) = LongBytes
  <2>1. \A i \in 1..LongBytes : v[LongBytes + 1 - i] \in Bytes
    BY SMT, <1>0 DEF Longs
  <2>2. w \in [1..LongBytes -> Bytes]
    BY <2>1 DEF WriteLong
  <2> HIDE DEF w
  <2> QED BY SMT, <1>0, <2>2
<1>2. \A i \in 1..LongBytes : w[LongBytes + 1 - i] = v[i]
  BY SMT, <1>0 DEF WriteLong
<1> HIDE DEF w
<1>3. After(s, LongBytes) = t
  BY <1>1, Split
<1>4. Len(s) = LongBytes + Len(t) /\ \A i \in 1..LongBytes : s[i] = w[i]
  BY <1>1, FrontOf
<1>5. ~(Len(s) < LongBytes)
  BY SMT, <1>0, <1>4
<1> HIDE DEF s
<1>6. [i \in 1..LongBytes |-> s[LongBytes + 1 - i]] = v
  BY SMTT(30), <1>0, <1>2, <1>4 DEF Longs
<1>7. TakeLong(s) = [value |-> v, rest |-> t]
  BY <1>3, <1>5, <1>6 DEF TakeLong
<1> QED BY <1>1, <1>7 DEF s, w

\* write_uint64 writes the bytes of a uint64_t.
LEMMA WriteLongType ==
  \A v \in Longs : WriteLong(v) \in Seq(Bytes) /\ Len(WriteLong(v)) = LongBytes
<1> SUFFICES ASSUME NEW v \in Longs
             PROVE  WriteLong(v) \in Seq(Bytes) /\ Len(WriteLong(v)) = LongBytes
  OBVIOUS
<1>1. <<>> \in Seq(Bytes)
  BY SMT
<1> QED BY <1>1, TakeLongOf

\* read_data reads the data whose length it is given.
LEMMA TakeDataOf ==
  ASSUME NEW d \in Seq(Bytes), NEW t \in Seq(Bytes)
  PROVE  TakeData(d \o t, Len(d)) = [readable |-> TRUE, value |-> d, rest |-> t]
<1>1. Len(d \o t) = Len(d) + Len(t)
  BY ConcatProperties
<1>2. ~(Len(d \o t) < Len(d))
  BY SMT, <1>1
<1> QED BY <1>2, Split DEF TakeData
\* Bytes and more bytes are bytes.
LEMMA Joined == \A s, t \in Seq(Bytes) : s \o t \in Seq(Bytes)
BY ConcatProperties

\* What is written in parts is written in any grouping of them.
LEMMA Assoc == \A s, t, u \in Seq(Bytes) : (s \o t) \o u = s \o (t \o u)
BY SMTT(30), ConcatAssociative

\* The bytes of the first part of what is written.
LEMMA FrontAt ==
  \A s, t \in Seq(Bytes) : /\ Len(s \o t) = Len(s) + Len(t)
                           /\ \A i \in 1..Len(s) : (s \o t)[i] = s[i]
BY FrontOf

\* The bytes of the second part of what is written.
LEMMA BackAt ==
  ASSUME NEW s \in Seq(Bytes), NEW t \in Seq(Bytes), NEW i \in 1..Len(t)
  PROVE  (s \o t)[Len(s) + i] = t[i]
<1>1. \A j \in 1..(Len(s) + Len(t)) : (s \o t)[j] = IF j <= Len(s) THEN s[j] ELSE t[j - Len(s)]
  BY ConcatProperties
<1>2. Len(s) \in Nat /\ Len(t) \in Nat
  BY SMT
<1>3. /\ Len(s) + i \in 1..(Len(s) + Len(t)) /\ ~(Len(s) + i <= Len(s))
      /\ (Len(s) + i) - Len(s) = i
  BY SMT, <1>2
<1> QED BY <1>1, <1>3

\* One byte is a sequence of bytes.
LEMMA Single == \A x \in Bytes : <<x>> \in Seq(Bytes)
BY SMT
----------------------------------------------------------------------------
(* Members with a length *)

\* write_uint16 writes bytes.
LEMMA ShortType == \A v \in 0..(Short - 1) : WriteShort(v) \in Seq(Bytes)
<1> SUFFICES ASSUME NEW v \in 0..(Short - 1) PROVE WriteShort(v) \in Seq(Bytes)
  OBVIOUS
<1>1. (v \div Byte) % Byte \in Bytes /\ v % Byte \in Bytes
  BY ToDigits
<1> QED BY SMT, <1>1 DEF WriteShort

\* What is limited is as long as its length can count, and unchanged if it was.
LEMMA LimitedType ==
  ASSUME NEW S, NEW d \in Seq(S), NEW n \in Nat
  PROVE  /\ Limited(d, n) \in Seq(S)
         /\ Len(Limited(d, n)) <= n
         /\ Len(d) <= n => Limited(d, n) = d
<1>1. CASE Len(d) <= n
  BY <1>1 DEF Limited
<1>2. CASE ~(Len(d) <= n)
  <2>1. n \in 0..Len(d)
    BY SMT, <1>2
  <2>2. SubSeq(d, 1, n) \in Seq(S) /\ Len(SubSeq(d, 1, n)) = n
    BY <2>1, Rest
  <2> QED BY SMT, <1>2, <2>2 DEF Limited
<1> QED BY <1>1, <1>2

\* A length and its data are bytes.
LEMMA PrefixedType ==
  ASSUME NEW d \in Seq(Bytes)
  PROVE  Prefixed(d) \in Seq(Bytes) /\ LongPrefixed(d) \in Seq(Bytes)
<1>0. Byte \in Nat /\ Byte - 1 \in Nat /\ Short \in Nat /\ Short - 1 \in Nat
  BY SMT, Sizes
<1>1. /\ Limited(d, Byte - 1) \in Seq(Bytes) /\ Len(Limited(d, Byte - 1)) <= Byte - 1
      /\ Limited(d, Short - 1) \in Seq(Bytes) /\ Len(Limited(d, Short - 1)) <= Short - 1
  BY <1>0, LimitedType
<1>2. Len(Limited(d, Byte - 1)) \in Nat /\ Len(Limited(d, Short - 1)) \in Nat
  BY SMT, <1>1
<1>3. Len(Limited(d, Byte - 1)) \in Bytes
  <2> DEFINE n == Len(Limited(d, Byte - 1))
  <2>1. n \in Nat /\ n <= Byte - 1
    BY <1>1, <1>2
  <2> HIDE DEF n
  <2>2. n \in Bytes
    BY SMT, <1>0, <2>1, InBytes
  <2> QED BY <2>2 DEF n
<1>4. Len(Limited(d, Short - 1)) \in 0..(Short - 1)
  BY SMT, <1>0, <1>1, <1>2, InShorts
<1>5. <<Len(Limited(d, Byte - 1))>> \in Seq(Bytes)
  BY SMT, <1>3
<1>6. WriteShort(Len(Limited(d, Short - 1))) \in Seq(Bytes)
  BY <1>4, ShortType
<1> QED BY <1>1, <1>5, <1>6, ConcatProperties DEF Prefixed, LongPrefixed

\* A length in a byte and its data are read as bytes, from any bytes.
LEMMA ReadDataType ==
  ASSUME NEW b \in Seq(Bytes)
  PROVE  /\ ReadData(b).readable \in BOOLEAN
         /\ ReadData(b).value \in Seq(Bytes)
         /\ ReadData(b).rest \in Seq(Bytes)
<1>1. TakeByte(b).value \in Bytes /\ TakeByte(b).rest \in Seq(Bytes)
  BY TakeByteType
<1>2. TakeByte(b).value \in Nat
  BY SMT, <1>1, InBytes
<1> QED BY <1>1, <1>2, TakeDataType DEF ReadData

\* A length in two bytes and its data are read as bytes, from any bytes.
LEMMA ReadLongDataType ==
  ASSUME NEW b \in Seq(Bytes)
  PROVE  /\ ReadLongData(b).readable \in BOOLEAN
         /\ ReadLongData(b).value \in Seq(Bytes)
         /\ ReadLongData(b).rest \in Seq(Bytes)
<1>1. TakeShort(b).value \in 0..(Short - 1) /\ TakeShort(b).rest \in Seq(Bytes)
  BY TakeShortType
<1>2. TakeShort(b).value \in Nat
  BY SMT, <1>1, InShorts
<1> QED BY <1>1, <1>2, TakeDataType DEF ReadLongData

\* So is a member that the flags announce.
LEMMA ReadIfType ==
  ASSUME NEW b \in Seq(Bytes), NEW announced
  PROVE  /\ ReadIf(announced, b).readable \in BOOLEAN
         /\ ReadIf(announced, b).value \in Seq(Bytes)
         /\ ReadIf(announced, b).rest \in Seq(Bytes)
<1>1. CASE announced
  BY <1>1, ReadDataType DEF ReadIf
<1>2. CASE ~announced
  BY SMT, <1>2 DEF ReadIf
<1> QED BY <1>1, <1>2

\* A length in a byte and its data are read as they were written.
LEMMA ReadDataOf ==
  ASSUME NEW d \in Seq(Bytes), Len(d) < Byte, NEW t \in Seq(Bytes)
  PROVE  ReadData(Prefixed(d) \o t) = [readable |-> TRUE, value |-> d, rest |-> t]
<1>0. Byte \in Nat /\ Byte - 1 \in Nat /\ Len(d) \in Nat /\ Len(d) <= Byte - 1
  BY SMT, Sizes
<1>1. Limited(d, Byte - 1) = d
  BY <1>0, LimitedType
<1>2. Prefixed(d) = <<Len(d)>> \o d
  BY <1>1 DEF Prefixed
<1>3. Len(d) \in Bytes
  BY SMT, <1>0, InBytes
<1>4. <<Len(d)>> \in Seq(Bytes) /\ d \o t \in Seq(Bytes)
  BY SMT, <1>3, ConcatProperties
<1>5. Prefixed(d) \o t = <<Len(d)>> \o (d \o t)
  BY SMT, <1>2, <1>4, ConcatAssociative
<1>6. TakeByte(Prefixed(d) \o t) = [value |-> Len(d), rest |-> d \o t]
  BY <1>3, <1>4, <1>5, TakeByteOf
<1>7. ReadData(Prefixed(d) \o t) = TakeData(d \o t, Len(d))
  BY SMT, <1>6 DEF ReadData
<1> QED BY <1>7, TakeDataOf

\* A length in two bytes and its data are read as they were written.
LEMMA ReadLongDataOf ==
  ASSUME NEW d \in Seq(Bytes), Len(d) < Short, NEW t \in Seq(Bytes)
  PROVE  ReadLongData(LongPrefixed(d) \o t) = [readable |-> TRUE, value |-> d, rest |-> t]
<1>0. Short \in Nat /\ Short - 1 \in Nat /\ Len(d) \in Nat /\ Len(d) <= Short - 1
  BY SMT, Sizes
<1>1. Limited(d, Short - 1) = d
  BY <1>0, LimitedType
<1>2. LongPrefixed(d) = WriteShort(Len(d)) \o d
  BY <1>1 DEF LongPrefixed
<1>3. Len(d) \in 0..(Short - 1)
  BY SMT, <1>0, InShorts
<1>4. WriteShort(Len(d)) \in Seq(Bytes) /\ d \o t \in Seq(Bytes)
  BY <1>3, ShortType, ConcatProperties
<1>5. LongPrefixed(d) \o t = WriteShort(Len(d)) \o (d \o t)
  BY SMTT(30), <1>2, <1>4, ConcatAssociative
<1>6. TakeShort(LongPrefixed(d) \o t) = [value |-> Len(d), rest |-> d \o t]
  BY <1>3, <1>4, <1>5, TakeShortOf
<1>7. ReadLongData(LongPrefixed(d) \o t) = TakeData(d \o t, Len(d))
  BY SMT, <1>6 DEF ReadLongData
<1> QED BY <1>7, TakeDataOf

\* A member that the flags announce is read as it was written.
LEMMA ReadIfOf ==
  ASSUME NEW announced \in BOOLEAN, NEW d \in Seq(Bytes), Len(d) < Byte, NEW t \in Seq(Bytes),
         ~announced => d = <<>>
  PROVE  ReadIf(announced, When(announced, Prefixed(d)) \o t)
           = [readable |-> TRUE, value |-> d, rest |-> t]
<1>1. CASE announced
  BY <1>1, ReadDataOf DEF ReadIf, When
<1>2. CASE ~announced
  <2>1. When(announced, Prefixed(d)) \o t = t
    BY <1>2, ConcatEmptySeq DEF When
  <2> QED BY <1>2, <2>1 DEF ReadIf
<1> QED BY <1>1, <1>2
----------------------------------------------------------------------------
(* The peer id in hexadecimal *)

\* The nibble processMessage reads from a character is the one hexify wrote.
LEMMA HexDigit ==
  ASSUME NEW d \in Int, 0 <= d, d < 16
  PROVE  /\ Hexify(d) \in Int /\ 0 <= Hexify(d) /\ Hexify(d) < 256
         /\ Nibble(Hexify(d)) = d
<1>1. CASE d < 10
  BY SMT, <1>1 DEF Hexify, Nibble, Bit
<1>2. CASE ~(d < 10)
  BY SMT, <1>2 DEF Hexify, Nibble, Bit
<1> QED BY <1>1, <1>2

\* A byte is made of its two nibbles.
LEMMA HexByte ==
  ASSUME NEW b \in Int, 0 <= b, b < 256
  PROVE  /\ b \div 16 \in Int /\ 0 <= b \div 16 /\ b \div 16 < 16
         /\ b % 16 \in Int /\ 0 <= b % 16 /\ b % 16 < 16
         /\ 16 * (b \div 16) + (b % 16) = b
BY SMT

\* The peer id processMessage reads is the one write_uint64_hex16 wrote.
LEMMA FromHexOf ==
  ASSUME NEW v \in Longs
  PROVE  /\ WriteHex(v) \in Seq(Bytes) /\ Len(WriteHex(v)) = 2 * LongBytes
         /\ FromHex(WriteHex(v)) = <<v>>
<1> DEFINE L == LongBytes
           at(i) == 2 * (L - i)
           w == WriteHex(v)
<1>0. L \in Nat /\ 0 < L
  BY LongSize
<1> HIDE DEF L
<1>1. ASSUME NEW i \in 1..(2 * L) PROVE L - ((i - 1) \div 2) \in 1..L
  BY SMT, <1>0
<1>2. \A j \in 1..L : v[j] \in Int /\ 0 <= v[j] /\ v[j] < 256
  BY SMT, InBytes, Sizes DEF Longs, L
<1>3. ASSUME NEW i \in 1..(2 * L)
      PROVE  /\ w[i] = Hexify(IF i % 2 = 1 THEN v[L - ((i - 1) \div 2)] \div 16
                              ELSE v[L - ((i - 1) \div 2)] % 16)
             /\ w[i] \in Bytes
  <2> DEFINE b == v[L - ((i - 1) \div 2)]
             d == IF i % 2 = 1 THEN b \div 16 ELSE b % 16
  <2>1. w[i] = Hexify(d)
    BY DEF WriteHex, L
  <2>2. b \in Int /\ 0 <= b /\ b < 256
    BY <1>1, <1>2
  <2> HIDE DEF b
  <2>3. d \in Int /\ 0 <= d /\ d < 16
    BY <2>2, HexByte
  <2> HIDE DEF d
  <2>4. Hexify(d) \in Int /\ 0 <= Hexify(d) /\ Hexify(d) < Byte
    BY SMT, <2>3, HexDigit, Sizes
  <2> QED BY <2>1, <2>4, InBytes DEF d, b
<1>4. w \in [1..(2 * L) -> Bytes]
  <2>1. w = [i \in 1..(2 * L) |-> w[i]]
    BY DEF WriteHex, L
  <2> HIDE DEF w
  <2> QED BY <1>3, <2>1
<1> HIDE DEF w
<1>5. w \in Seq(Bytes) /\ Len(w) = 2 * L
  BY SMT, <1>0, <1>4
<1>6. ASSUME NEW i \in 1..L
      PROVE  16 * Nibble(w[at(i) + 1]) + Nibble(w[at(i) + 2]) = v[i]
  <2>1. /\ at(i) + 1 \in 1..(2 * L) /\ at(i) + 2 \in 1..(2 * L)
        /\ (at(i) + 1) % 2 = 1 /\ (at(i) + 2) % 2 # 1
        /\ L - (((at(i) + 1) - 1) \div 2) = i /\ L - (((at(i) + 2) - 1) \div 2) = i
    BY SMT, <1>0
  <2> HIDE DEF at
  <2>2. w[at(i) + 1] = Hexify(v[i] \div 16) /\ w[at(i) + 2] = Hexify(v[i] % 16)
    BY <1>3, <2>1
  <2>3. v[i] \in Int /\ 0 <= v[i] /\ v[i] < 256
    BY <1>2
  <2>4. Nibble(w[at(i) + 1]) = v[i] \div 16 /\ Nibble(w[at(i) + 2]) = v[i] % 16
    BY <2>2, <2>3, HexByte, HexDigit
  <2> QED BY <2>3, <2>4, HexByte
<1>7. [i \in 1..L |-> 16 * Nibble(w[at(i) + 1]) + Nibble(w[at(i) + 2])] = v
  <2>1. v = [i \in 1..L |-> v[i]]
    BY DEF Longs, L
  <2> QED BY <1>6, <2>1
<1>8. FromHex(w) = <<[i \in 1..L |-> 16 * Nibble(w[at(i) + 1]) + Nibble(w[at(i) + 2])]>>
  BY <1>5 DEF FromHex, L
<1> QED BY <1>5, <1>7, <1>8 DEF w, L

\* Whatever its characters are, a peer id is read as a uint64_t or not at all.
LEMMA FromHexType ==
  ASSUME NEW s \in Seq(Bytes)
  PROVE  FromHex(s) = <<>> \/ \E v \in Longs : FromHex(s) = <<v>>
<1>1. ASSUME Len(s) = 2 * LongBytes
      PROVE  \E v \in Longs : FromHex(s) = <<v>>
  <2> DEFINE nibbles(i) ==
        16 * Nibble(s[2 * (LongBytes - i) + 1]) + Nibble(s[2 * (LongBytes - i) + 2])
             v == [i \in 1..LongBytes |-> nibbles(i)]
  <2>1. FromHex(s) = <<v>>
    BY <1>1 DEF FromHex
  <2>2. ASSUME NEW i \in 1..LongBytes PROVE nibbles(i) \in Bytes
    <3> DEFINE j == 2 * (LongBytes - i) + 1
               k == 2 * (LongBytes - i) + 2
    <3>1. j \in 1..Len(s) /\ k \in 1..Len(s)
      BY SMT, <1>1, LongSize
    <3> HIDE DEF j, k
    <3>2. s[j] \in Int /\ s[k] \in Int
      BY SMT, <3>1, InBytes
    <3>3. \A c \in Int : Nibble(c) \in Int /\ 0 <= Nibble(c) /\ Nibble(c) < 16
      BY SMT DEF Nibble, Bit
    <3>4. \A x, y \in Int : 0 <= x /\ x < 16 /\ 0 <= y /\ y < 16
             => 16 * x + y \in Int /\ 0 <= 16 * x + y /\ 16 * x + y < 256
      BY SMT
    <3>5. /\ Nibble(s[j]) \in Int /\ 0 <= Nibble(s[j]) /\ Nibble(s[j]) < 16
          /\ Nibble(s[k]) \in Int /\ 0 <= Nibble(s[k]) /\ Nibble(s[k]) < 16
      BY <3>2, <3>3
    <3> DEFINE b == 16 * Nibble(s[j]) + Nibble(s[k])
    <3>6. b \in Int /\ 0 <= b /\ b < Byte
      BY SMT, <3>4, <3>5, Sizes
    <3> HIDE DEF b
    <3>7. b \in Bytes
      BY <3>6, InBytes
    <3> QED BY <3>7 DEF b, j, k
  <2>3. v \in Longs
    BY <2>2 DEF Longs
  <2> QED BY <2>1, <2>3
<1>2. CASE Len(s) # 2 * LongBytes
  BY <1>2 DEF FromHex
<1> QED BY <1>1, <1>2
----------------------------------------------------------------------------
(* Mentions *)

\* What reading the mentions yields
Readers == [readable : BOOLEAN, value : Texts, rest : Seq(Bytes)]

\* The function writing the mentions from the i-th on exists, and is what its
\* recursive definition says.
LEMMA WriteMentionsUnfold ==
  ASSUME NEW ms \in Texts
  PROVE  \E from \in [1..(Len(ms) + 1) -> Seq(Bytes)] :
           /\ from[Len(ms) + 1] = <<>>
           /\ \A i \in 1..Len(ms) : from[i] = Prefixed(ms[i]) \o from[i + 1]
           /\ WriteMentions(ms) = <<Len(Limited(ms, Byte - 1))>> \o from[1]
<1> DEFINE n == Len(ms)
           S == Seq(Bytes)
           step == [j \in Nat |-> [s \in S |-> IF j < n THEN Prefixed(ms[n - j]) \o s ELSE s]]
           Def(f) == f = [i \in 1..(n + 1) |-> IF i > n THEN <<>> ELSE Prefixed(ms[i]) \o f[i + 1]]
           from == CHOOSE f : Def(f)
<1>1. n \in Nat /\ <<>> \in S
  BY SMT
<1>2. \A i \in 1..n : Prefixed(ms[i]) \in S
  BY SMT, PrefixedType DEF Texts
<1>3. step \in [Nat -> [S -> S]]
  <2>1. ASSUME NEW j \in Nat, NEW s \in S
        PROVE  (IF j < n THEN Prefixed(ms[n - j]) \o s ELSE s) \in S
    <3>1. CASE j < n
      <4>1. n - j \in 1..n
        BY SMT, <1>1, <3>1
      <4> QED BY <1>2, <3>1, <4>1, ConcatProperties
    <3> QED BY <3>1
  <2> HIDE DEF S, n
  <2> QED BY <2>1
<1>4. PICK h : h \in [Nat -> S] /\ h[0] = <<>> /\ \A j \in Nat : h[j + 1] = step[j][h[j]]
  <2> HIDE DEF S, step
  <2>1. \E h : IsIterate(h, S, <<>>, step)
    BY <1>1, <1>3, Iterates
  <2> QED BY <2>1 DEF IsIterate
<1>5. \E f : Def(f)
  <2> DEFINE f == [i \in 1..(n + 1) |-> h[n + 1 - i]]
  <2> HIDE DEF n, S
  <2>1. ASSUME NEW i \in 1..(n + 1)
        PROVE  f[i] = IF i > n THEN <<>> ELSE Prefixed(ms[i]) \o f[i + 1]
    <3>1. CASE i > n
      <4>1. n + 1 - i = 0
        BY SMT, <1>1, <3>1
      <4> QED BY <1>4, <3>1, <4>1
    <3>2. CASE ~(i > n)
      <4>1. /\ n - i \in Nat /\ (n - i) + 1 = n + 1 - i /\ n - i < n /\ n - (n - i) = i
            /\ n + 1 - (i + 1) = n - i /\ i + 1 \in 1..(n + 1)
        BY SMT, <1>1, <3>2
      <4>2. h[(n - i) + 1] = Prefixed(ms[n - (n - i)]) \o h[n - i]
        BY <1>4, <4>1
      <4>3. f[i] = h[n + 1 - i] /\ f[i + 1] = h[n - i]
        BY <4>1
      <4> QED BY <3>2, <4>1, <4>2, <4>3
    <3> QED BY <3>1, <3>2
  <2>2. Def(f)
    BY <2>1
  <2> QED BY <2>2
<1>6. Def(from)
  <2> HIDE DEF Def
  <2> QED BY <1>5
<1>7. WriteMentions(ms) = <<Len(Limited(ms, Byte - 1))>> \o from[1]
  BY DEF WriteMentions
<1> HIDE DEF from, S, n
<1>8. from[n + 1] = <<>> /\ \A i \in 1..n : from[i] = Prefixed(ms[i]) \o from[i + 1]
  <2>1. \A i \in 1..(n + 1) : from[i] = IF i > n THEN <<>> ELSE Prefixed(ms[i]) \o from[i + 1]
    BY <1>6
  <2>2. n + 1 \in 1..(n + 1) /\ n + 1 > n /\ \A i \in 1..n : i \in 1..(n + 1) /\ ~(i > n)
    BY SMT, <1>1
  <2> QED BY <2>1, <2>2
<1>9. ASSUME NEW i \in 1..(n + 1) PROVE from[i] \in S
  <2> DEFINE E == {j \in Nat : j <= n => from[n + 1 - j] \in S}
  <2>1. 0 \in E
    BY SMT, <1>1, <1>8
  <2>2. ASSUME NEW j \in Nat, j \in E PROVE j + 1 \in E
    <3>1. CASE j + 1 <= n
      <4>1. n + 1 - (j + 1) \in 1..n /\ (n + 1 - (j + 1)) + 1 = n + 1 - j /\ j <= n
        BY SMT, <1>1, <3>1
      <4>2. from[n + 1 - (j + 1)] = Prefixed(ms[n + 1 - (j + 1)]) \o from[n + 1 - j]
        BY <1>8, <4>1
      <4>3. from[n + 1 - j] \in S
        BY <2>2, <4>1
      <4>4. from[n + 1 - (j + 1)] \in S
        BY <1>2, <4>1, <4>2, <4>3, ConcatProperties DEF S
      <4> QED BY SMT, <4>4
    <3> QED BY SMT, <3>1
  <2> HIDE DEF E
  <2>3. Nat \subseteq E
    BY <2>1, <2>2, Induction
  <2>4. n + 1 - i \in Nat /\ n + 1 - i <= n /\ n + 1 - (n + 1 - i) = i
    BY SMT, <1>1
  <2>5. n + 1 - i \in E
    BY <2>3, <2>4
  <2> QED BY <2>4, <2>5 DEF E
<1>10. from = [i \in 1..(n + 1) |-> from[i]]
  BY <1>6
<1>11. from \in [1..(n + 1) -> S]
  BY <1>9, <1>10
<1> QED BY <1>7, <1>8, <1>11 DEF n, S

\* Reading one more mention keeps the types.
LEMMA AddMentionType ==
  ASSUME NEW r \in Readers
  PROVE  AddMention(r) \in Readers
<1>1. r.rest \in Seq(Bytes) /\ r.value \in Texts /\ r.readable \in BOOLEAN
  BY DEF Readers
<1>2. ReadData(r.rest).value \in Seq(Bytes) /\ ReadData(r.rest).rest \in Seq(Bytes)
  BY <1>1, ReadDataType
<1>3. Append(r.value, ReadData(r.rest).value) \in Texts
  BY <1>1, <1>2, AppendProperties DEF Texts
<1>4. CASE r.readable /\ ReadData(r.rest).readable
  BY <1>2, <1>3, <1>4 DEF AddMention, Readers
<1>5. CASE ~(r.readable /\ ReadData(r.rest).readable)
  BY <1>1, <1>5 DEF AddMention, Readers
<1> QED BY <1>4, <1>5

\* The function reading the first i mentions exists, and is what its recursive
\* definition says.
LEMMA ReadMentionsUnfold ==
  ASSUME NEW b \in Seq(Bytes)
  PROVE  /\ TakeByte(b).value \in Nat
         /\ \E upTo \in [0..TakeByte(b).value -> Readers] :
              /\ upTo[0] = NoMentions(TakeByte(b).rest)
              /\ \A i \in 0..(TakeByte(b).value - 1) : upTo[i + 1] = AddMention(upTo[i])
              /\ ReadMentions(b) = upTo[TakeByte(b).value]
<1> DEFINE n == TakeByte(b).value
           start == NoMentions(TakeByte(b).rest)
           step == [j \in Nat |-> [r \in Readers |-> AddMention(r)]]
           Def(f) == f = [i \in 0..n |-> IF i = 0 THEN start ELSE AddMention(f[i - 1])]
           upTo == CHOOSE f : Def(f)
<1>1. n \in Nat
  BY SMT, TakeByteType, InBytes
<1>2. start \in Readers
  BY SMT, TakeByteType DEF NoMentions, Readers, Texts
<1>3. step \in [Nat -> [Readers -> Readers]]
  BY AddMentionType
<1>4. PICK h : h \in [Nat -> Readers] /\ h[0] = start /\ \A j \in Nat : h[j + 1] = step[j][h[j]]
  <2> HIDE DEF start, step
  <2>1. \E h : IsIterate(h, Readers, start, step)
    BY <1>2, <1>3, Iterates
  <2> QED BY <2>1 DEF IsIterate
<1> HIDE DEF n, start
<1>5. \E f : Def(f)
  <2> DEFINE f == [i \in 0..n |-> h[i]]
  <2>1. ASSUME NEW i \in 0..n
        PROVE  f[i] = IF i = 0 THEN start ELSE AddMention(f[i - 1])
    <3>1. CASE i # 0
      <4>1. i - 1 \in Nat /\ i - 1 \in 0..n /\ (i - 1) + 1 = i
        BY SMT, <1>1, <3>1
      <4>2. h[(i - 1) + 1] = AddMention(h[i - 1])
        BY <1>4, <4>1
      <4> QED BY <3>1, <4>1, <4>2
    <3> QED BY <1>4, <3>1
  <2>2. Def(f)
    BY <2>1
  <2> QED BY <2>2
<1>6. Def(upTo)
  <2> HIDE DEF Def
  <2> QED BY <1>5
<1>7. ReadMentions(b) = upTo[n]
  BY DEF ReadMentions, n, start
<1> HIDE DEF upTo
<1>8. upTo[0] = start /\ \A i \in 0..(n - 1) : upTo[i + 1] = AddMention(upTo[i])
  <2>1. upTo[0] = start
    BY SMT, <1>1, <1>6
  <2>2. ASSUME NEW i \in 0..(n - 1) PROVE upTo[i + 1] = AddMention(upTo[i])
    <3>1. i + 1 \in 0..n /\ i + 1 # 0 /\ (i + 1) - 1 = i
      BY SMT, <1>1
    <3> QED BY <1>6, <3>1
  <2> QED BY <2>1, <2>2
<1>9. \A i \in 0..n : upTo[i] \in Readers
  <2> DEFINE E == {i \in Nat : i <= n => upTo[i] \in Readers}
  <2>1. 0 \in E
    BY <1>2, <1>8
  <2>2. ASSUME NEW i \in Nat, i \in E PROVE i + 1 \in E
    <3>1. CASE i + 1 <= n
      <4>1. i \in 0..(n - 1) /\ upTo[i] \in Readers
        BY SMT, <1>1, <2>2, <3>1
      <4> QED BY SMT, <1>8, <4>1, AddMentionType
    <3> QED BY SMT, <3>1
  <2> HIDE DEF E
  <2>3. Nat \subseteq E
    BY <2>1, <2>2, Induction
  <2> QED BY SMT, <1>1, <2>3 DEF E
<1>10. upTo \in [0..n -> Readers]
  <2>1. upTo = [i \in 0..n |-> upTo[i]]
    BY <1>6
  <2> QED BY <1>9, <2>1
<1> QED BY <1>1, <1>7, <1>8, <1>10 DEF n, start

\* Mentions are read as texts, from any bytes.
LEMMA ReadMentionsType ==
  ASSUME NEW b \in Seq(Bytes)
  PROVE  ReadMentions(b) \in Readers
<1> DEFINE n == TakeByte(b).value
<1>1. n \in Nat
  BY ReadMentionsUnfold
<1>2. PICK upTo \in [0..n -> Readers] : ReadMentions(b) = upTo[n]
  BY ReadMentionsUnfold
<1> HIDE DEF n
<1>3. n \in 0..n
  BY SMT, <1>1
<1> QED BY <1>2, <1>3

\* Mentions are written as bytes.
LEMMA WriteMentionsType ==
  ASSUME NEW ms \in Texts
  PROVE  WriteMentions(ms) \in Seq(Bytes)
<1>1. PICK from \in [1..(Len(ms) + 1) -> Seq(Bytes)] :
        WriteMentions(ms) = <<Len(Limited(ms, Byte - 1))>> \o from[1]
  BY WriteMentionsUnfold
<1>2. Len(ms) \in Nat
  BY SMT DEF Texts
<1>3. from[1] \in Seq(Bytes)
  BY SMT, <1>2
<1> DEFINE n == Len(Limited(ms, Byte - 1))
<1>4. n \in Nat /\ n <= Byte - 1
  BY SMT, Sizes, LimitedType DEF Texts
<1> HIDE DEF n
<1>5. n \in Bytes
  BY SMT, <1>4, InBytes, Sizes
<1>6. <<n>> \in Seq(Bytes)
  BY SMT, <1>5
<1> QED BY <1>1, <1>3, <1>6, ConcatProperties DEF n

\* Any number of mentions that a byte can count is read as it was written.
LEMMA ReadMentionsOf ==
  ASSUME NEW ms \in Texts, Len(ms) < Byte, \A i \in 1..Len(ms) : Len(ms[i]) < Byte,
         NEW t \in Seq(Bytes)
  PROVE  ReadMentions(WriteMentions(ms) \o t) = [readable |-> TRUE, value |-> ms, rest |-> t]
<1> DEFINE n == Len(ms)
           b == WriteMentions(ms) \o t
<1>1. PICK from \in [1..(n + 1) -> Seq(Bytes)] :
        /\ from[n + 1] = <<>>
        /\ \A i \in 1..n : from[i] = Prefixed(ms[i]) \o from[i + 1]
        /\ WriteMentions(ms) = <<Len(Limited(ms, Byte - 1))>> \o from[1]
  BY WriteMentionsUnfold
<1>2. n \in Nat /\ n <= Byte - 1 /\ Byte - 1 \in Nat
  BY SMT, Sizes DEF Texts
<1>3. Limited(ms, Byte - 1) = ms
  BY <1>2, LimitedType DEF Texts
<1>4. n \in Bytes
  BY SMT, <1>2, InBytes, Sizes
<1>5. from[1] \in Seq(Bytes) /\ <<n>> \in Seq(Bytes)
  BY SMT, <1>2, <1>4
<1>6. b = <<n>> \o (from[1] \o t) /\ from[1] \o t \in Seq(Bytes)
  <2> DEFINE f == from[1]
             c == <<n>>
             w == WriteMentions(ms)
  <2>1. f \in Seq(Bytes) /\ c \in Seq(Bytes) /\ w = c \o f
    BY <1>1, <1>3, <1>5
  <2> HIDE DEF f, c, w
  <2>2. w \o t = c \o (f \o t) /\ f \o t \in Seq(Bytes)
    BY <2>1, Assoc, Joined
  <2> QED BY <2>2 DEF f, c, w
<1>7. TakeByte(b) = [value |-> n, rest |-> from[1] \o t]
  BY <1>4, <1>6, TakeByteOf
<1>8. b \in Seq(Bytes)
  BY WriteMentionsType, ConcatProperties
<1> HIDE DEF b
<1>9. PICK upTo \in [0..n -> Readers] :
        /\ upTo[0] = NoMentions(from[1] \o t)
        /\ \A i \in 0..(n - 1) : upTo[i + 1] = AddMention(upTo[i])
        /\ ReadMentions(b) = upTo[n]
  <2>1. TakeByte(b).value = n /\ TakeByte(b).rest = from[1] \o t
    BY SMT, <1>7
  <2>2. PICK f \in [0..TakeByte(b).value -> Readers] :
          /\ f[0] = NoMentions(TakeByte(b).rest)
          /\ \A i \in 0..(TakeByte(b).value - 1) : f[i + 1] = AddMention(f[i])
          /\ ReadMentions(b) = f[TakeByte(b).value]
    BY <1>8, ReadMentionsUnfold
  <2> HIDE DEF n
  <2> QED BY <2>1, <2>2
<1> DEFINE Is(i) == [readable |-> TRUE, value |-> SubSeq(ms, 1, i), rest |-> from[i + 1] \o t]
           E == {i \in Nat : i <= n => upTo[i] = Is(i)}
<1>10. 0 \in E
  <2>1. SubSeq(ms, 1, 0) = <<>>
    BY SMT, SubSeqEmpty
  <2>2. 0 + 1 = 1
    BY SMT
  <2>3. upTo[0] = Is(0)
    BY <1>9, <2>1, <2>2 DEF NoMentions
  <2> HIDE DEF Is
  <2> QED BY <2>3
<1>11. ASSUME NEW i \in Nat, i \in E PROVE i + 1 \in E
  <2>1. CASE i + 1 <= n
    <3>1. /\ i \in 0..(n - 1) /\ i + 1 \in 1..n /\ i <= n
          /\ i + 1 \in 1..(n + 1) /\ (i + 1) + 1 \in 1..(n + 1)
      BY SMT, <1>2, <2>1
    <3>2. upTo[i] = Is(i) /\ upTo[i + 1] = AddMention(upTo[i])
      BY <1>9, <1>11, <3>1
    <3>3. ms[i + 1] \in Seq(Bytes) /\ Len(ms[i + 1]) < Byte
      BY SMT, <3>1 DEF Texts
    <3>4. from[i + 2] \in Seq(Bytes) /\ from[i + 1] = Prefixed(ms[i + 1]) \o from[i + 2]
      <4>1. (i + 1) + 1 = i + 2
        BY SMT
      <4> QED BY <1>1, <3>1, <4>1
    <3>5. Prefixed(ms[i + 1]) \in Seq(Bytes) /\ from[i + 2] \o t \in Seq(Bytes)
      BY <3>3, <3>4, PrefixedType, ConcatProperties
    <3>6. from[i + 1] \o t = Prefixed(ms[i + 1]) \o (from[i + 2] \o t)
      <4> DEFINE f == from[i + 1]
                 g == from[i + 2]
                 p == Prefixed(ms[i + 1])
      <4>1. f = p \o g /\ p \in Seq(Bytes) /\ g \in Seq(Bytes)
        BY <3>4, <3>5
      <4> HIDE DEF f, g, p
      <4>2. f \o t = p \o (g \o t)
        BY <4>1, Assoc
      <4> QED BY <4>2 DEF f, g, p
    <3>7. ReadData(from[i + 1] \o t)
            = [readable |-> TRUE, value |-> ms[i + 1], rest |-> from[i + 2] \o t]
      BY <3>3, <3>5, <3>6, ReadDataOf
    <3>8. AddMention(Is(i)) = [readable |-> TRUE,
                               value |-> Append(SubSeq(ms, 1, i), ms[i + 1]),
                               rest |-> from[i + 2] \o t]
      <4> DEFINE r == from[i + 1] \o t
      <4>1. /\ ReadData(r).readable /\ ReadData(r).value = ms[i + 1]
            /\ ReadData(r).rest = from[i + 2] \o t
        BY SMT, <3>7
      <4> HIDE DEF r
      <4>2. Is(i).readable = TRUE /\ Is(i).value = SubSeq(ms, 1, i) /\ Is(i).rest = r
        BY DEF r
      <4> HIDE DEF Is
      <4>3. ReadData(Is(i).rest).readable
        BY <4>1, <4>2
      <4>4. AddMention(Is(i)) = [readable |-> TRUE,
                                 value |-> Append(Is(i).value, ReadData(Is(i).rest).value),
                                 rest |-> ReadData(Is(i).rest).rest]
        BY <4>2, <4>3 DEF AddMention
      <4> QED BY <4>1, <4>2, <4>4
    <3>9. SubSeq(ms, 1, i + 1) = Append(SubSeq(ms, 1, i), ms[i + 1])
      <4>1. SubSeq(ms, 1, i + 1) = SubSeq(ms, 1, (i + 1) - 1) \o <<ms[i + 1]>>
        <5>1. 1 \in 1..Len(ms) /\ i + 1 \in 1..Len(ms)
          BY SMT, <1>2, <3>1
        <5> QED BY <5>1, SubSeqRecursiveSecond DEF Texts
      <4>2. (i + 1) - 1 = i
        BY SMT
      <4>3. SubSeq(ms, 1, i) \in Texts
        BY SMT, <3>1, Rest DEF Texts
      <4> QED BY <3>3, <4>1, <4>2, <4>3, AppendIsConcat DEF Texts
    <3>10. (i + 1) + 1 = i + 2
      BY SMT
    <3>11. upTo[i + 1] = Is(i + 1)
      BY <3>2, <3>8, <3>9, <3>10
    <3> HIDE DEF Is
    <3> QED BY SMT, <3>11
  <2> QED BY SMT, <2>1
<1>12. Nat \subseteq E
  <2> HIDE DEF E
  <2> QED BY <1>10, <1>11, Induction
<1>13. upTo[n] = Is(n)
  <2> HIDE DEF Is
  <2>1. n \in E
    BY <1>2, <1>12
  <2> QED BY SMT, <1>2, <2>1
<1>14. SubSeq(ms, 1, n) = ms
  BY SubSeqFull DEF Texts
<1>15. from[n + 1] \o t = t
  BY <1>1, ConcatEmptySeq
<1> QED BY <1>9, <1>13, <1>14, <1>15 DEF b
----------------------------------------------------------------------------
(* Types of messages and packets *)

\* A part that is written on a condition is bytes.
LEMMA WhenType == ASSUME NEW c, NEW s \in Seq(Bytes) PROVE When(c, s) \in Seq(Bytes)
BY SMT DEF When

\* Zero, and the bytes 0 and 1
LEMMA ZeroType == Zero \in Longs /\ 0 \in Bytes /\ 1 \in Bytes
<1>1. 0 \in Bytes /\ 1 \in Bytes
  BY SMT, InBytes, Sizes
<1> QED BY <1>1 DEF Zero, Longs

\* The message as processMessage keeps it, and as it will be written.
Stored(m) ==
  [flags |-> m.flags, timestamp |-> m.timestamp, id |-> m.id, sender |-> m.sender,
   content |-> When(~IsEncrypted(m.flags), m.content),
   encrypted |-> When(IsEncrypted(m.flags), m.content),
   original |-> m.original, recipient |-> m.recipient, peer |-> m.peer,
   mentions |-> m.mentions, channel |-> m.channel]

\* What processMessage keeps is a message.
LEMMA StoredType ==
  ASSUME NEW m \in Messages
  PROVE  Stored(m) \in Messages
<1> DEFINE content == When(~IsEncrypted(m.flags), m.content)
           encrypted == When(IsEncrypted(m.flags), m.content)
<1>1. m.content \in Seq(Bytes)
  BY DEF Messages
<1>2. content \in Seq(Bytes) /\ encrypted \in Seq(Bytes)
  BY <1>1, WhenType
<1> HIDE DEF content, encrypted
<1> QED BY <1>2 DEF Stored, Messages, content, encrypted

\* A message as its constructor leaves it is a message.
LEMMA NoMessageType == NoMessage \in Messages
BY SMT, ZeroType DEF NoMessage, Messages, Texts

\* The id read through sender_peer is a uint64_t, also if it is nullptr.
LEMMA PeerIdType ==
  ASSUME NEW m \in Messages
  PROVE  SenderPeerId(m) \in Longs
<1>1. CASE m.peer = <<>>
  BY <1>1, NullAssumption DEF SenderPeerId
<1>2. CASE m.peer # <<>>
  <2>1. PICK v \in Longs : m.peer = <<v>>
    BY <1>2 DEF Messages
  <2> QED BY SMT, <1>2, <2>1 DEF SenderPeerId
<1> QED BY <1>1, <1>2

\* writeMessagePayload writes bytes.
LEMMA WriteMessagePayloadType ==
  ASSUME NEW m \in Messages
  PROVE  WriteMessagePayload(m) \in Seq(Bytes)
<1>1. m.flags \in Bytes /\ m.timestamp \in Longs /\ m.mentions \in Texts
  BY DEF Messages
<1>2. /\ m.id \in Seq(Bytes) /\ m.sender \in Seq(Bytes) /\ m.content \in Seq(Bytes)
      /\ m.original \in Seq(Bytes) /\ m.recipient \in Seq(Bytes) /\ m.channel \in Seq(Bytes)
  BY DEF Messages
<1>3. <<m.flags>> \in Seq(Bytes) /\ WriteLong(m.timestamp) \in Seq(Bytes)
  BY <1>1, Single, WriteLongType
<1>4. /\ Prefixed(m.id) \in Seq(Bytes) /\ Prefixed(m.sender) \in Seq(Bytes)
      /\ LongPrefixed(m.content) \in Seq(Bytes)
  BY <1>2, PrefixedType
<1>5. /\ When(HasOriginalSender(m.flags), Prefixed(m.original)) \in Seq(Bytes)
      /\ When(HasRecipientNickname(m.flags), Prefixed(m.recipient)) \in Seq(Bytes)
      /\ When(HasChannel(m.flags), Prefixed(m.channel)) \in Seq(Bytes)
  BY <1>2, PrefixedType, WhenType
<1>6. When(HasSenderPeerID(m.flags), <<2 * LongBytes>> \o WriteHex(SenderPeerId(m))) \in Seq(Bytes)
  <2>1. <<2 * LongBytes>> \in Seq(Bytes)
    BY SMT, LongSize
  <2>2. WriteHex(SenderPeerId(m)) \in Seq(Bytes)
    BY PeerIdType, FromHexOf
  <2> QED BY <2>1, <2>2, Joined, WhenType
<1>7. When(HasMentions(m.flags), WriteMentions(m.mentions)) \in Seq(Bytes)
  BY <1>1, WriteMentionsType, WhenType
<1> QED BY <1>3, <1>4, <1>5, <1>6, <1>7, Joined DEF WriteMessagePayload

\* Whatever the payload is, processMessage makes a message of it.
LEMMA ProcessMessageType ==
  ASSUME NEW b \in Seq(Bytes)
  PROVE  ProcessMessage(b).readable \in BOOLEAN /\ ProcessMessage(b).message \in Messages
<1> DEFINE flags == TakeByte(b).value
           timestamp == TakeLong(TakeByte(b).rest)
           id == ReadData(timestamp.rest)
           sender == ReadData(id.rest)
           content == ReadLongData(sender.rest)
           original == ReadIf(HasOriginalSender(flags), content.rest)
           recipient == ReadIf(HasRecipientNickname(flags), original.rest)
           peer == ReadIf(HasSenderPeerID(flags), recipient.rest)
           mentions == IF HasMentions(flags) THEN ReadMentions(peer.rest)
                                             ELSE NoMentions(peer.rest)
           channel == ReadIf(HasChannel(flags), mentions.rest)
           message ==
             [flags |-> flags, timestamp |-> timestamp.value, id |-> id.value,
              sender |-> sender.value,
              content |-> When(~IsEncrypted(flags), content.value),
              encrypted |-> When(IsEncrypted(flags), content.value),
              original |-> original.value, recipient |-> recipient.value,
              peer |-> FromHex(peer.value), mentions |-> mentions.value,
              channel |-> channel.value]
<1>1. ProcessMessage(b).readable \in BOOLEAN /\ ProcessMessage(b).message = message
  BY DEF ProcessMessage
<1>2. flags \in Bytes /\ TakeByte(b).rest \in Seq(Bytes)
  BY TakeByteType
<1>3. timestamp.value \in Longs /\ timestamp.rest \in Seq(Bytes)
  BY <1>2, TakeLongType
<1> HIDE DEF flags, timestamp
<1>4. id.value \in Seq(Bytes) /\ id.rest \in Seq(Bytes)
  BY <1>3, ReadDataType
<1> HIDE DEF id
<1>5. sender.value \in Seq(Bytes) /\ sender.rest \in Seq(Bytes)
  BY <1>4, ReadDataType
<1> HIDE DEF sender
<1>6. content.value \in Seq(Bytes) /\ content.rest \in Seq(Bytes)
  BY <1>5, ReadLongDataType
<1> HIDE DEF content
<1>7. original.value \in Seq(Bytes) /\ original.rest \in Seq(Bytes)
  BY <1>6, ReadIfType
<1> HIDE DEF original
<1>8. recipient.value \in Seq(Bytes) /\ recipient.rest \in Seq(Bytes)
  BY <1>7, ReadIfType
<1> HIDE DEF recipient
<1>9. peer.value \in Seq(Bytes) /\ peer.rest \in Seq(Bytes)
  BY <1>8, ReadIfType
<1> HIDE DEF peer
<1>10. mentions.value \in Texts /\ mentions.rest \in Seq(Bytes)
  <2>1. mentions \in Readers
    <3>1. NoMentions(peer.rest) \in Readers
      BY SMT, <1>9 DEF NoMentions, Readers, Texts
    <3> QED BY <1>9, <3>1, ReadMentionsType
  <2> HIDE DEF mentions
  <2> QED BY <2>1 DEF Readers
<1> HIDE DEF mentions
<1>11. channel.value \in Seq(Bytes)
  BY <1>10, ReadIfType
<1> HIDE DEF channel
<1>12. FromHex(peer.value) \in {<<>>} \cup {<<v>> : v \in Longs}
  BY <1>9, FromHexType
<1>13. /\ When(~IsEncrypted(flags), content.value) \in Seq(Bytes)
       /\ When(IsEncrypted(flags), content.value) \in Seq(Bytes)
  BY <1>6, WhenType
<1>14. message \in Messages
  BY <1>2, <1>3, <1>4, <1>5, <1>6, <1>7, <1>8, <1>10, <1>11, <1>12, <1>13 DEF Messages
<1> QED BY <1>1, <1>14

\* Whatever the bytes are, processWrite reads a header from them.
LEMMA ReadHeaderType ==
  ASSUME NEW b \in Seq(Bytes)
  PROVE  /\ ReadHeader(b).type \in Bytes /\ ReadHeader(b).ttl \in Bytes
         /\ ReadHeader(b).timestamp \in Longs /\ ReadHeader(b).flags \in Bytes
         /\ ReadHeader(b).length \in 0..(Short - 1) /\ ReadHeader(b).sender \in Longs
         /\ ReadHeader(b).recipient \in Longs /\ ReadHeader(b).rest \in Seq(Bytes)
<1> DEFINE version == TakeByte(b)
           type == TakeByte(version.rest)
           ttl == TakeByte(type.rest)
           timestamp == TakeLong(ttl.rest)
           flags == TakeByte(timestamp.rest)
           length == TakeShort(flags.rest)
           sender == TakeLong(length.rest)
           recipient == IF HasRecipient(flags.value) THEN TakeLong(sender.rest)
                        ELSE [value |-> Zero, rest |-> sender.rest]
<1>1. ReadHeader(b) =
        [version |-> version.value, type |-> type.value, ttl |-> ttl.value,
         timestamp |-> timestamp.value, flags |-> flags.value, length |-> length.value,
         sender |-> sender.value, recipient |-> recipient.value, rest |-> recipient.rest]
  BY DEF ReadHeader
<1>2. version.rest \in Seq(Bytes)
  BY TakeByteType
<1> HIDE DEF version
<1>3. type.value \in Bytes /\ type.rest \in Seq(Bytes)
  BY <1>2, TakeByteType
<1> HIDE DEF type
<1>4. ttl.value \in Bytes /\ ttl.rest \in Seq(Bytes)
  BY <1>3, TakeByteType
<1> HIDE DEF ttl
<1>5. timestamp.value \in Longs /\ timestamp.rest \in Seq(Bytes)
  BY <1>4, TakeLongType
<1> HIDE DEF timestamp
<1>6. flags.value \in Bytes /\ flags.rest \in Seq(Bytes)
  BY <1>5, TakeByteType
<1> HIDE DEF flags
<1>7. length.value \in 0..(Short - 1) /\ length.rest \in Seq(Bytes)
  BY <1>6, TakeShortType
<1> HIDE DEF length
<1>8. sender.value \in Longs /\ sender.rest \in Seq(Bytes)
  BY <1>7, TakeLongType
<1> HIDE DEF sender
<1>9. recipient.value \in Longs /\ recipient.rest \in Seq(Bytes)
  BY <1>8, TakeLongType, ZeroType
<1> HIDE DEF recipient
<1> QED BY SMTT(30), <1>1, <1>3, <1>4, <1>5, <1>6, <1>7, <1>8, <1>9

\* Whatever follows the header, processWrite reads bytes as the payload.
LEMMA ReadPayloadType ==
  ASSUME NEW h, h.rest \in Seq(Bytes), h.length \in 0..(Short - 1)
  PROVE  /\ ReadPayload(h).readable \in BOOLEAN
         /\ ReadPayload(h).value \in Seq(Bytes)
         /\ ReadPayload(h).rest \in Seq(Bytes)
<1> DEFINE size == TakeShort(h.rest)
           n == (h.length - 2) % Short
           data == TakeData(size.rest, n)
<1>0. h.length \in Int /\ h.length \in Nat
  BY SMT, InShorts
<1>1. CASE ~IsCompressed(h.flags)
  BY <1>0, <1>1, TakeDataType DEF ReadPayload
<1>2. CASE IsCompressed(h.flags)
  <2>1. size.rest \in Seq(Bytes)
    BY TakeShortType
  <2>2. n \in Nat
    <3> DEFINE k == h.length - 2
    <3>1. k \in Int
      BY SMT, <1>0
    <3> HIDE DEF k
    <3>2. Short \in Nat /\ Short > 0
      BY SMT, Positive
    <3>3. k % Short \in Nat
      BY SMT, <3>1, <3>2
    <3> QED BY <3>3 DEF k
  <2>3. ReadPayload(h) = [data EXCEPT !.value = Decompressed(@, size.value)]
    BY <1>2 DEF ReadPayload
  <2>4. data \in [readable : BOOLEAN, value : Seq(Bytes), rest : Seq(Bytes)]
    <3> HIDE DEF size, n
    <3>1. CASE Len(size.rest) < n
      BY SMT, <2>1, <3>1 DEF TakeData
    <3>2. CASE ~(Len(size.rest) < n)
      <4>1. n \in 0..Len(size.rest)
        BY SMT, <2>1, <2>2, <3>2
      <4>2. SubSeq(size.rest, 1, n) \in Seq(Bytes) /\ After(size.rest, n) \in Seq(Bytes)
        BY <2>1, <4>1, Rest
      <4> QED BY <3>2, <4>2 DEF TakeData
    <3> QED BY <3>1, <3>2
  <2> HIDE DEF data
  <2>5. Decompressed(data.value, size.value) \in Seq(Bytes)
    BY <2>4, InflateAssumption DEF Decompressed
  <2> QED BY <2>3, <2>4, <2>5
<1> QED BY <1>1, <1>2

\* Whatever bytes a link delivers, what processWrite makes of them is typed.
LEMMA ReadPacketType ==
  ASSUME NEW b \in Seq(Bytes)
  PROVE  ReadPacket(b) \in Packets
<1> DEFINE h == ReadHeader(b)
           data == ReadPayload(h)
           parsed == ProcessMessage(data.value)
           isMessage == h.type = type_message
<1>1. ReadPacket(b) =
        [type |-> h.type, ttl |-> h.ttl, timestamp |-> h.timestamp, flags |-> h.flags,
         sender |-> h.sender, recipient |-> h.recipient,
         signature |-> When(HasSignature(h.flags), ReadSignature(data.rest)),
         payload |-> When(~isMessage, data.value),
         message |-> IF isMessage THEN parsed.message ELSE NoMessage,
         readable |-> /\ h.version = 1
                      /\ data.readable
                      /\ isMessage => parsed.readable]
  BY DEF ReadPacket
<1>2. /\ h.type \in Bytes /\ h.ttl \in Bytes /\ h.timestamp \in Longs /\ h.flags \in Bytes
      /\ h.length \in 0..(Short - 1) /\ h.sender \in Longs
      /\ h.recipient \in Longs /\ h.rest \in Seq(Bytes)
  BY ReadHeaderType
<1> HIDE DEF h
<1>3. data.value \in Seq(Bytes) /\ data.rest \in Seq(Bytes)
  BY <1>2, ReadPayloadType
<1> HIDE DEF data
<1>4. parsed.message \in Messages
  BY <1>3, ProcessMessageType
<1> HIDE DEF parsed
<1>5. ReadSignature(data.rest) \in Seq(Bytes)
  <2>1. SignatureLength \in Nat
    BY SMT, LengthAssumption, InBytes
  <2>2. NullSignature \in Seq(Bytes)
    BY SMT, <2>1, NullAssumption
  <2> QED BY <1>3, <2>1, <2>2, TakeDataType DEF ReadSignature
<1>6. When(HasSignature(h.flags), ReadSignature(data.rest)) \in Seq(Bytes)
  BY <1>5, WhenType
<1>7. When(~isMessage, data.value) \in Seq(Bytes)
  BY <1>3, WhenType
<1>8. (IF isMessage THEN parsed.message ELSE NoMessage) \in Messages
  BY <1>4, NoMessageType
<1> QED BY SMT, <1>1, <1>2, <1>6, <1>7, <1>8 DEF Packets

\* The header that writePacket writes: its length, and where its type, its ttl
\* and its flags are.
LEMMA WriteHeaderType ==
  ASSUME NEW p \in Packets, NEW ttl \in Bytes, NEW n \in 0..(Short - 1)
  PROVE  /\ WriteHeader(p, ttl, n) \in Seq(Bytes)
         /\ Len(WriteHeader(p, ttl, n)) =
              6 + 2 * LongBytes + (IF HasRecipient(p.flags) THEN LongBytes ELSE 0)
         /\ WriteHeader(p, ttl, n)[2] = p.type
         /\ WriteHeader(p, ttl, n)[3] = ttl
         /\ WriteHeader(p, ttl, n)[4 + LongBytes] = p.flags
<1> DEFINE a == <<1, p.type, ttl>>
           b == WriteLong(p.timestamp)
           c == <<p.flags>>
           d == WriteShort(n)
           e == WriteLong(p.sender)
           r == WriteLong(p.recipient)
           f == When(HasRecipient(p.flags), r)
<1>1. /\ p.type \in Bytes /\ p.flags \in Bytes /\ p.timestamp \in Longs
      /\ p.sender \in Longs /\ p.recipient \in Longs
  BY DEF Packets
<1>2. a \in Seq(Bytes) /\ Len(a) = 3 /\ a[2] = p.type /\ a[3] = ttl
  BY SMT, <1>1, ZeroType
<1>3. b \in Seq(Bytes) /\ Len(b) = LongBytes
  BY <1>1, WriteLongType
<1>4. c \in Seq(Bytes) /\ Len(c) = 1 /\ c[1] = p.flags
  BY <1>1, Single
<1>5. d \in Seq(Bytes) /\ Len(d) = 2
  BY ShortType DEF WriteShort
<1>6. e \in Seq(Bytes) /\ Len(e) = LongBytes
  BY <1>1, WriteLongType
<1>7. r \in Seq(Bytes) /\ Len(r) = LongBytes
  BY <1>1, WriteLongType
<1>8. f \in Seq(Bytes) /\ Len(f) = IF HasRecipient(p.flags) THEN LongBytes ELSE 0
  BY SMT, <1>7 DEF When
<1> DEFINE w == ((((a \o b) \o c) \o d) \o e) \o f
<1>9. WriteHeader(p, ttl, n) = w
  BY DEF WriteHeader
<1>10. LongBytes \in Nat
  BY LongSize
<1> HIDE DEF a, b, c, d, e, f
<1>11. /\ a \o b \in Seq(Bytes) /\ Len(a \o b) = 3 + LongBytes
       /\ (a \o b)[2] = p.type /\ (a \o b)[3] = ttl
  <2>1. a \o b \in Seq(Bytes) /\ Len(a \o b) = Len(a) + Len(b)
    BY <1>2, <1>3, Joined, FrontAt
  <2>2. 2 \in 1..Len(a) /\ 3 \in 1..Len(a)
    BY SMT, <1>2
  <2>3. (a \o b)[2] = a[2] /\ (a \o b)[3] = a[3]
    BY <1>2, <1>3, <2>2, FrontAt
  <2> QED BY <1>2, <1>3, <2>1, <2>3
<1> DEFINE ab == a \o b
<1> HIDE DEF ab
<1>12. /\ ab \o c \in Seq(Bytes) /\ Len(ab \o c) = 4 + LongBytes
       /\ (ab \o c)[2] = p.type /\ (ab \o c)[3] = ttl /\ (ab \o c)[4 + LongBytes] = p.flags
  <2>1. ab \in Seq(Bytes) /\ Len(ab) = 3 + LongBytes /\ ab[2] = p.type /\ ab[3] = ttl
    BY <1>11 DEF ab
  <2>2. ab \o c \in Seq(Bytes) /\ Len(ab \o c) = 4 + LongBytes
    <3>1. ab \o c \in Seq(Bytes) /\ Len(ab \o c) = Len(ab) + Len(c)
      BY <1>4, <2>1, Joined, FrontAt
    <3> QED BY SMT, <1>4, <1>10, <2>1, <3>1
  <2>3. (ab \o c)[2] = p.type /\ (ab \o c)[3] = ttl
    <3>1. 2 \in 1..Len(ab) /\ 3 \in 1..Len(ab)
      BY SMT, <1>10, <2>1
    <3> QED BY <1>4, <2>1, <3>1, FrontAt
  <2>4. (ab \o c)[Len(ab) + 1] = c[1]
    <3>1. 1 \in 1..Len(c)
      BY SMT, <1>4
    <3> QED BY <1>4, <2>1, <3>1, BackAt
  <2>5. Len(ab) + 1 = 4 + LongBytes
    BY SMT, <1>10, <2>1
  <2> QED BY <1>4, <2>2, <2>3, <2>4, <2>5
<1> DEFINE abc == ab \o c
           g == d
<1> HIDE DEF abc
<1>13. abc \in Seq(Bytes) /\ Len(abc) = 4 + LongBytes
  BY <1>12 DEF abc
<1>14. /\ abc \o d \in Seq(Bytes) /\ Len(abc \o d) = 6 + LongBytes
       /\ (abc \o d) \o e \in Seq(Bytes) /\ Len((abc \o d) \o e) = 6 + 2 * LongBytes
  <2>1. abc \o d \in Seq(Bytes) /\ Len(abc \o d) = Len(abc) + Len(d)
    BY <1>5, <1>13, Joined, FrontAt
  <2>2. (abc \o d) \o e \in Seq(Bytes) /\ Len((abc \o d) \o e) = Len(abc \o d) + Len(e)
    BY <1>6, <2>1, Joined, FrontAt
  <2> QED BY SMT, <1>5, <1>6, <1>10, <1>13, <2>1, <2>2
<1>15. /\ ((abc \o d) \o e) \o f \in Seq(Bytes)
       /\ Len(((abc \o d) \o e) \o f) = 6 + 2 * LongBytes + Len(f)
  BY <1>8, <1>14, Joined, FrontAt
<1>16. ASSUME NEW i \in 1..(4 + LongBytes)
       PROVE  (((abc \o d) \o e) \o f)[i] = abc[i]
  <2>1. /\ i \in 1..Len(abc) /\ i \in 1..Len(abc \o d)
        /\ i \in 1..Len((abc \o d) \o e)
    BY SMT, <1>10, <1>13, <1>14
  <2> QED BY SMTT(30), <1>5, <1>6, <1>8, <1>13, <1>14, <2>1, FrontAt
<1>17. w = ((abc \o d) \o e) \o f
  BY DEF abc, ab
<1>18. 2 \in 1..(4 + LongBytes) /\ 3 \in 1..(4 + LongBytes) /\ 4 + LongBytes \in 1..(4 + LongBytes)
  BY SMT, <1>10
<1>19. abc[2] = p.type /\ abc[3] = ttl /\ abc[4 + LongBytes] = p.flags
  BY <1>12 DEF abc
<1> QED BY <1>8, <1>9, <1>15, <1>16, <1>17, <1>18, <1>19

\* The payload that writePacket writes is as long as its length says.
LEMMA WritePayloadType ==
  ASSUME NEW p \in Packets
  PROVE  /\ Limited(WritePayload(p), Short - 1) \in Seq(Bytes)
         /\ Len(Limited(WritePayload(p), Short - 1)) \in 0..(Short - 1)
         /\ Len(WritePayload(p)) < Short => Limited(WritePayload(p), Short - 1) = WritePayload(p)
<1>1. p.payload \in Seq(Bytes) /\ p.message \in Messages
  BY DEF Packets
<1>2. WritePayload(p) \in Seq(Bytes)
  BY <1>1, WriteMessagePayloadType DEF WritePayload
<1> DEFINE w == WritePayload(p)
           l == Limited(w, Short - 1)
<1> HIDE DEF w
<1>3. w \in Seq(Bytes) /\ Short - 1 \in Nat
  BY SMT, <1>2, Positive DEF w
<1>4. l \in Seq(Bytes) /\ Len(l) <= Short - 1 /\ (Len(w) <= Short - 1 => l = w)
  BY <1>3, LimitedType
<1> HIDE DEF l
<1>5. Len(l) \in Nat /\ Len(w) \in Nat
  BY SMT, <1>3, <1>4
<1>6. Len(l) \in 0..(Short - 1)
  BY SMT, <1>4, <1>5, Positive, InShorts
<1>7. Len(w) < Short => l = w
  BY SMT, <1>4, <1>5, Positive
<1> QED BY <1>4, <1>6, <1>7 DEF l, w

\* What writePacket writes before the signature are bytes, the third of which
\* is the ttl.
LEMMA WriteUnsignedType ==
  ASSUME NEW p \in Packets, NEW ttl \in Bytes
  PROVE  /\ WriteUnsigned(p, ttl) \in Seq(Bytes)
         /\ Len(WriteUnsigned(p, ttl)) \in Nat
         /\ Len(WriteUnsigned(p, ttl)) >= 6 + 2 * LongBytes
         /\ WriteUnsigned(p, ttl)[3] = ttl
<1> DEFINE l == Limited(WritePayload(p), Short - 1)
           h == WriteHeader(p, ttl, Len(l))
<1>1. l \in Seq(Bytes) /\ Len(l) \in 0..(Short - 1)
  BY WritePayloadType
<1>2. WriteUnsigned(p, ttl) = h \o l
  BY DEF WriteUnsigned
<1> HIDE DEF l
<1>3. /\ h \in Seq(Bytes) /\ h[3] = ttl
      /\ Len(h) = 6 + 2 * LongBytes + (IF HasRecipient(p.flags) THEN LongBytes ELSE 0)
  BY <1>1, WriteHeaderType
<1> HIDE DEF h
<1>4. LongBytes \in Nat /\ Len(l) \in Nat
  BY SMT, <1>1, LongSize
<1>5. h \o l \in Seq(Bytes) /\ Len(h \o l) = Len(h) + Len(l)
  BY <1>1, <1>3, Joined, FrontAt
<1>6. Len(h) \in Nat /\ Len(h) >= 6 + 2 * LongBytes
  BY SMT, <1>3, <1>4
<1>7. 3 \in 1..Len(h)
  BY SMT, <1>4, <1>6
<1>8. (h \o l)[3] = h[3]
  BY <1>1, <1>3, <1>7, FrontAt
<1> QED BY SMTT(30), <1>2, <1>3, <1>4, <1>5, <1>6, <1>8

\* What writePacket writes are bytes, the third of which is the lowered ttl.
LEMMA WritePacketType ==
  ASSUME NEW p \in Packets
  PROVE  /\ WritePacket(p) \in Seq(Bytes)
         /\ Len(WritePacket(p)) \in Nat
         /\ Len(WritePacket(p)) >= 6 + 2 * LongBytes
         /\ WritePacket(p)[3] = (p.ttl - 1) % Byte
<1> DEFINE t == (p.ttl - 1) % Byte
           u == WriteUnsigned(p, t)
           s == When(HasSignature(p.flags), Prefixed(p.signature))
<1>1. t \in Bytes
  <2>1. p.ttl \in Int
    BY InBytes DEF Packets
  <2> DEFINE k == p.ttl - 1
  <2>2. k \in Int
    BY SMT, <2>1
  <2> HIDE DEF k
  <2>3. k % Byte \in Int /\ 0 <= k % Byte /\ k % Byte < Byte
    BY SMT, <2>2, Positive
  <2>4. k % Byte \in Bytes
    BY <2>3, InBytes
  <2> QED BY <2>4 DEF k
<1>2. s \in Seq(Bytes) /\ <<0>> \in Seq(Bytes)
  <2>1. p.signature \in Seq(Bytes)
    BY DEF Packets
  <2> QED BY <2>1, PrefixedType, WhenType, ZeroType, Single
<1>3. WritePacket(p) = (u \o s) \o <<0>>
  BY DEF WritePacket
<1> HIDE DEF t, s
<1>4. u \in Seq(Bytes) /\ Len(u) \in Nat /\ Len(u) >= 6 + 2 * LongBytes /\ u[3] = t
  BY <1>1, WriteUnsignedType
<1> HIDE DEF u
<1>5. u \o s \in Seq(Bytes) /\ Len(u \o s) = Len(u) + Len(s)
  BY <1>2, <1>4, Joined, FrontAt
<1> DEFINE z == <<0>>
<1>6. z \in Seq(Bytes) /\ Len(z) = 1
  BY <1>2
<1> HIDE DEF z
<1>7. (u \o s) \o z \in Seq(Bytes) /\ Len((u \o s) \o z) = Len(u \o s) + Len(z)
  BY <1>5, <1>6, Joined, FrontAt
<1>8. LongBytes \in Nat /\ Len(s) \in Nat
  BY SMT, <1>2, LongSize
<1>9. 3 \in 1..Len(u) /\ 3 \in 1..Len(u \o s)
  BY SMT, <1>4, <1>5, <1>8
<1>10. ((u \o s) \o z)[3] = (u \o s)[3] /\ (u \o s)[3] = u[3]
  BY <1>2, <1>4, <1>5, <1>6, <1>9, FrontAt
<1> QED BY SMT, <1>3, <1>4, <1>5, <1>6, <1>7, <1>8, <1>10 DEF t, z
----------------------------------------------------------------------------
(* processWrite reads what writePacket writes *)

\* processWrite reads the header that writePacket writes.
LEMMA ReadHeaderOf ==
  ASSUME NEW p \in Packets, NEW ttl \in Bytes, NEW n \in 0..(Short - 1), NEW z \in Seq(Bytes)
  PROVE  ReadHeader(WriteHeader(p, ttl, n) \o z) =
           [version |-> 1, type |-> p.type, ttl |-> ttl, timestamp |-> p.timestamp,
            flags |-> p.flags, length |-> n, sender |-> p.sender,
            recipient |-> IF HasRecipient(p.flags) THEN p.recipient ELSE Zero,
            rest |-> z]
<1> DEFINE r == WriteLong(p.recipient)
           f == When(HasRecipient(p.flags), r)
           e == WriteLong(p.sender)
           d == WriteShort(n)
           c == <<p.flags>>
           b == WriteLong(p.timestamp)
           a3 == <<ttl>>
           a2 == <<p.type>>
           a1 == <<1>>
           x7 == f \o z
           x6 == e \o x7
           x5 == d \o x6
           x4 == c \o x5
           x3 == b \o x4
           x2 == a3 \o x3
           x1 == a2 \o x2
           x0 == a1 \o x1
<1>1. /\ p.type \in Bytes /\ p.flags \in Bytes /\ p.timestamp \in Longs
      /\ p.sender \in Longs /\ p.recipient \in Longs
  BY DEF Packets
<1>2. /\ r \in Seq(Bytes) /\ f \in Seq(Bytes) /\ e \in Seq(Bytes) /\ d \in Seq(Bytes)
      /\ b \in Seq(Bytes)
  BY <1>1, WriteLongType, ShortType, WhenType
<1>3. c \in Seq(Bytes) /\ a3 \in Seq(Bytes) /\ a2 \in Seq(Bytes) /\ a1 \in Seq(Bytes)
  BY <1>1, ZeroType, Single
<1>4. <<1, p.type, ttl>> = (a1 \o a2) \o a3
  BY SMT
<1>5. WriteHeader(p, ttl, n) = (((((((a1 \o a2) \o a3) \o b) \o c) \o d) \o e) \o f)
  BY <1>4 DEF WriteHeader
<1> HIDE DEF a1, a2, a3, b, c, d, e, f, r
<1>6. /\ x7 \in Seq(Bytes) /\ x6 \in Seq(Bytes) /\ x5 \in Seq(Bytes) /\ x4 \in Seq(Bytes)
      /\ x3 \in Seq(Bytes) /\ x2 \in Seq(Bytes) /\ x1 \in Seq(Bytes) /\ x0 \in Seq(Bytes)
  BY <1>2, <1>3, Joined
<1>7. WriteHeader(p, ttl, n) \o z = x0
  <2> DEFINE y1 == a1 \o a2
             y2 == y1 \o a3
             y3 == y2 \o b
             y4 == y3 \o c
             y5 == y4 \o d
             y6 == y5 \o e
  <2>1. /\ y1 \in Seq(Bytes) /\ y2 \in Seq(Bytes) /\ y3 \in Seq(Bytes) /\ y4 \in Seq(Bytes)
        /\ y5 \in Seq(Bytes) /\ y6 \in Seq(Bytes)
    BY <1>2, <1>3, Joined
  <2> HIDE DEF y1, y2, y3, y4, y5, y6, x0, x1, x2, x3, x4, x5, x6, x7
  <2>2. (y6 \o f) \o z = y6 \o x7
    <3>1. y6 \in Seq(Bytes) /\ f \in Seq(Bytes) /\ z \in Seq(Bytes)
      BY <1>2, <1>3, <1>6, <2>1
    <3> QED BY <3>1, Assoc DEF x7
  <2>3. y6 \o x7 = y5 \o x6
    <3>1. y5 \in Seq(Bytes) /\ e \in Seq(Bytes) /\ x7 \in Seq(Bytes)
      BY <1>2, <1>3, <1>6, <2>1
    <3> QED BY <3>1, Assoc DEF x6, y6
  <2>4. y5 \o x6 = y4 \o x5
    <3>1. y4 \in Seq(Bytes) /\ d \in Seq(Bytes) /\ x6 \in Seq(Bytes)
      BY <1>2, <1>3, <1>6, <2>1
    <3> QED BY SMTT(30), <3>1, Assoc DEF x5, y5
  <2>5. y4 \o x5 = y3 \o x4
    <3>1. y3 \in Seq(Bytes) /\ c \in Seq(Bytes) /\ x5 \in Seq(Bytes)
      BY <1>2, <1>3, <1>6, <2>1
    <3> QED BY <3>1, Assoc DEF x4, y4
  <2>6. y3 \o x4 = y2 \o x3
    <3>1. y2 \in Seq(Bytes) /\ b \in Seq(Bytes) /\ x4 \in Seq(Bytes)
      BY <1>2, <1>3, <1>6, <2>1
    <3> QED BY SMTT(30), <3>1, Assoc DEF x3, y3
  <2>7. y2 \o x3 = y1 \o x2
    <3>1. y1 \in Seq(Bytes) /\ a3 \in Seq(Bytes) /\ x3 \in Seq(Bytes)
      BY <1>2, <1>3, <1>6, <2>1
    <3> QED BY <3>1, Assoc DEF x2, y2
  <2>8. y1 \o x2 = x0
    <3>1. a1 \in Seq(Bytes) /\ a2 \in Seq(Bytes) /\ x2 \in Seq(Bytes)
      BY <1>2, <1>3, <1>6, <2>1
    <3> QED BY <3>1, Assoc DEF x1, x0, y1
  <2> QED BY <1>5, <2>2, <2>3, <2>4, <2>5, <2>6, <2>7, <2>8 DEF y1, y2, y3, y4, y5, y6
<1>8. TakeByte(x0) = [value |-> 1, rest |-> x1]
  <2> HIDE DEF x1
  <2> QED BY <1>6, ZeroType, TakeByteOf DEF a1
<1>9. TakeByte(x1) = [value |-> p.type, rest |-> x2]
  <2> HIDE DEF x2
  <2> QED BY <1>1, <1>6, TakeByteOf DEF a2
<1>10. TakeByte(x2) = [value |-> ttl, rest |-> x3]
  <2> HIDE DEF x3
  <2> QED BY <1>6, TakeByteOf DEF a3
<1>11. TakeLong(x3) = [value |-> p.timestamp, rest |-> x4]
  <2> HIDE DEF x4
  <2> QED BY <1>1, <1>6, TakeLongOf DEF b
<1>12. TakeByte(x4) = [value |-> p.flags, rest |-> x5]
  <2> HIDE DEF x5
  <2> QED BY <1>1, <1>6, TakeByteOf DEF c
<1>13. TakeShort(x5) = [value |-> n, rest |-> x6]
  <2> HIDE DEF x6
  <2> QED BY <1>6, TakeShortOf DEF d
<1>14. TakeLong(x6) = [value |-> p.sender, rest |-> x7]
  <2> HIDE DEF x7
  <2> QED BY <1>1, <1>6, TakeLongOf DEF e
<1>15. HasRecipient(p.flags) => TakeLong(x7) = [value |-> p.recipient, rest |-> z]
  BY <1>1, TakeLongOf DEF f, r, When
<1>16. ~HasRecipient(p.flags) => x7 = z
  BY ConcatEmptySeq DEF f, When
<1> HIDE DEF x0, x1, x2, x3, x4, x5, x6, x7
<1> DEFINE recipient == IF HasRecipient(p.flags) THEN TakeLong(x7)
                        ELSE [value |-> Zero, rest |-> x7]
<1>17. ReadHeader(x0) =
         [version |-> 1, type |-> p.type, ttl |-> ttl, timestamp |-> p.timestamp,
          flags |-> p.flags, length |-> n, sender |-> p.sender,
          recipient |-> recipient.value, rest |-> recipient.rest]
  <2> DEFINE version == TakeByte(x0)
             type == TakeByte(version.rest)
             hops == TakeByte(type.rest)
             timestamp == TakeLong(hops.rest)
             flags == TakeByte(timestamp.rest)
             length == TakeShort(flags.rest)
             sender == TakeLong(length.rest)
             to == IF HasRecipient(flags.value) THEN TakeLong(sender.rest)
                   ELSE [value |-> Zero, rest |-> sender.rest]
  <2>1. ReadHeader(x0) =
          [version |-> version.value, type |-> type.value, ttl |-> hops.value,
           timestamp |-> timestamp.value, flags |-> flags.value, length |-> length.value,
           sender |-> sender.value, recipient |-> to.value, rest |-> to.rest]
    BY DEF ReadHeader
  <2>2. version = [value |-> 1, rest |-> x1]
    BY <1>8
  <2> HIDE DEF version
  <2>3. type = [value |-> p.type, rest |-> x2]
    BY <2>2, <1>9
  <2> HIDE DEF type
  <2>4. hops = [value |-> ttl, rest |-> x3]
    BY <2>3, <1>10
  <2> HIDE DEF hops
  <2>5. timestamp = [value |-> p.timestamp, rest |-> x4]
    BY <2>4, <1>11
  <2> HIDE DEF timestamp
  <2>6. flags = [value |-> p.flags, rest |-> x5]
    BY <2>5, <1>12
  <2> HIDE DEF flags
  <2>7. length = [value |-> n, rest |-> x6]
    BY <2>6, <1>13
  <2> HIDE DEF length
  <2>8. sender = [value |-> p.sender, rest |-> x7]
    BY <2>7, <1>14
  <2> HIDE DEF sender
  <2>9. to = recipient
    BY <2>6, <2>8
  <2> HIDE DEF to, recipient
  <2> QED BY <2>1, <2>2, <2>3, <2>4, <2>5, <2>6, <2>7, <2>8, <2>9
<1>18. recipient = [value |-> IF HasRecipient(p.flags) THEN p.recipient ELSE Zero, rest |-> z]
  BY <1>15, <1>16
<1> QED BY SMT, <1>7, <1>17, <1>18

\* A length and its data are at least as long as the length.
LEMMA PrefixedLen ==
  ASSUME NEW d \in Seq(Bytes)
  PROVE  Len(Prefixed(d)) \in Nat /\ Len(Prefixed(d)) >= 1
         /\ Len(LongPrefixed(d)) \in Nat /\ Len(LongPrefixed(d)) >= 2
<1> DEFINE b == Limited(d, Byte - 1)
           s == Limited(d, Short - 1)
           v == <<Len(b)>>
           w == WriteShort(Len(s))
<1>1. Byte - 1 \in Nat /\ Short - 1 \in Nat
  BY SMT, Positive
<1>2. /\ b \in Seq(Bytes) /\ Len(b) <= Byte - 1
      /\ s \in Seq(Bytes) /\ Len(s) <= Short - 1
  BY <1>1, LimitedType
<1>3. Prefixed(d) = v \o b /\ LongPrefixed(d) = w \o s
  BY DEF Prefixed, LongPrefixed
<1> HIDE DEF b, s
<1>4. Len(b) \in Nat /\ Len(s) \in Nat
  BY SMT, <1>2
<1>5. Len(b) \in Bytes /\ Len(s) \in 0..(Short - 1)
  <2>1. Len(b) \in Bytes
    <3> DEFINE n == Len(b)
    <3>1. n \in Nat /\ n <= Byte - 1
      BY <1>2, <1>4
    <3> HIDE DEF n
    <3>2. n \in Bytes
      BY SMT, <3>1, Positive, InBytes
    <3> QED BY <3>2 DEF n
  <2>2. Len(s) \in 0..(Short - 1)
    BY SMT, <1>2, <1>4, Positive, InShorts
  <2> QED BY <2>1, <2>2
<1>6. v \in Seq(Bytes) /\ w \in Seq(Bytes) /\ Len(v) = 1 /\ Len(w) = 2
  <2>1. v \in Seq(Bytes) /\ w \in Seq(Bytes)
    BY <1>5, Single, ShortType
  <2> QED BY <2>1 DEF WriteShort
<1> HIDE DEF v, w
<1>7. Len(v \o b) = Len(v) + Len(b) /\ Len(w \o s) = Len(w) + Len(s)
  BY <1>2, <1>6, FrontAt
<1> QED BY SMT, <1>3, <1>4, <1>6, <1>7

\* The peer id is written with its length in a byte, as the other members are.
LEMMA HexPrefixed ==
  ASSUME NEW v \in Longs
  PROVE  <<2 * LongBytes>> \o WriteHex(v) = Prefixed(WriteHex(v)) /\ Len(WriteHex(v)) < Byte
<1> DEFINE h == WriteHex(v)
<1>1. h \in Seq(Bytes) /\ Len(h) = 2 * LongBytes
  BY FromHexOf
<1> HIDE DEF h
<1>2. 2 * LongBytes \in Int /\ 2 * LongBytes < Byte
  BY LongSize, InBytes
<1>3. Byte - 1 \in Nat /\ Len(h) <= Byte - 1
  BY SMT, <1>1, <1>2, Positive
<1>4. Limited(h, Byte - 1) = h
  BY <1>1, <1>3, LimitedType
<1>5. Prefixed(h) = <<Len(h)>> \o h
  BY <1>4 DEF Prefixed
<1> QED BY <1>1, <1>2, <1>5 DEF h

\* processMessage reads what writeMessagePayload writes.
LEMMA ProcessMessageOf ==
  ASSUME NEW m \in Messages, WellFormedMessage(m)
  PROVE  /\ ProcessMessage(WriteMessagePayload(m)).readable
         /\ ProcessMessage(WriteMessagePayload(m)).message = Stored(m)
<1> DEFINE z == <<>>
           text == IF HasSenderPeerID(m.flags) THEN WriteHex(SenderPeerId(m)) ELSE <<>>
           a0 == <<m.flags>>
           a1 == WriteLong(m.timestamp)
           a2 == Prefixed(m.id)
           a3 == Prefixed(m.sender)
           a4 == LongPrefixed(m.content)
           a5 == When(HasOriginalSender(m.flags), Prefixed(m.original))
           a6 == When(HasRecipientNickname(m.flags), Prefixed(m.recipient))
           a7 == When(HasSenderPeerID(m.flags), Prefixed(text))
           a8 == When(HasMentions(m.flags), WriteMentions(m.mentions))
           a9 == When(HasChannel(m.flags), Prefixed(m.channel))
           x9 == a9 \o z
           x8 == a8 \o x9
           x7 == a7 \o x8
           x6 == a6 \o x7
           x5 == a5 \o x6
           x4 == a4 \o x5
           x3 == a3 \o x4
           x2 == a2 \o x3
           x1 == a1 \o x2
           x0 == a0 \o x1
           w == WriteMessagePayload(m)
<1>1. m.flags \in Bytes /\ m.timestamp \in Longs /\ m.mentions \in Texts
  BY DEF Messages
<1>2. /\ m.id \in Seq(Bytes) /\ m.sender \in Seq(Bytes) /\ m.content \in Seq(Bytes)
      /\ m.original \in Seq(Bytes) /\ m.recipient \in Seq(Bytes) /\ m.channel \in Seq(Bytes)
  BY DEF Messages
<1>3. /\ text \in Seq(Bytes) /\ Len(text) < Byte
      /\ ~HasSenderPeerID(m.flags) => text = <<>>
      /\ When(HasSenderPeerID(m.flags), <<2 * LongBytes>> \o WriteHex(SenderPeerId(m))) = a7
      /\ FromHex(text) = m.peer
  <2>1. CASE HasSenderPeerID(m.flags)
    <3>1. SenderPeerId(m) \in Longs
      BY PeerIdType
    <3>2. <<SenderPeerId(m)>> = m.peer
      <4>1. m.peer # <<>>
        BY <2>1 DEF WellFormedMessage
      <4>2. PICK v \in Longs : m.peer = <<v>>
        BY <4>1 DEF Messages
      <4> QED BY SMT, <4>1, <4>2 DEF SenderPeerId
    <3>3. text = WriteHex(SenderPeerId(m))
      BY <2>1
    <3>4. text \in Seq(Bytes) /\ FromHex(text) = m.peer
      BY <3>1, <3>2, <3>3, FromHexOf
    <3>5. <<2 * LongBytes>> \o WriteHex(SenderPeerId(m)) = Prefixed(text) /\ Len(text) < Byte
      BY <3>1, <3>3, HexPrefixed
    <3> QED BY <2>1, <3>4, <3>5 DEF When
  <2>2. CASE ~HasSenderPeerID(m.flags)
    <3>1. text = <<>> /\ m.peer = <<>>
      BY <2>2 DEF WellFormedMessage
    <3>2. <<>> \in Seq(Bytes) /\ Len(<<>>) = 0 /\ 0 # 2 * LongBytes /\ 0 < Byte
      BY SMT, LongSize, Positive
    <3>3. FromHex(<<>>) = <<>>
      BY <3>2 DEF FromHex
    <3> HIDE DEF text
    <3> QED BY <2>2, <3>1, <3>2, <3>3 DEF When
  <2> QED BY <2>1, <2>2
<1> HIDE DEF text
<1>4. w = ((((((((a0 \o a1) \o a2) \o a3) \o a4) \o a5) \o a6) \o a7) \o a8) \o a9
  BY <1>3 DEF WriteMessagePayload
<1>5. a0 \in Seq(Bytes) /\ Len(a0) = 1
  BY <1>1, Single
<1>6. a1 \in Seq(Bytes) /\ Len(a1) = LongBytes
  BY <1>1, WriteLongType, LongSize
<1>7. /\ a2 \in Seq(Bytes) /\ Len(a2) \in Nat /\ Len(a2) >= 1
      /\ a3 \in Seq(Bytes) /\ Len(a3) \in Nat /\ Len(a3) >= 1
      /\ a4 \in Seq(Bytes) /\ Len(a4) \in Nat /\ Len(a4) >= 2
  BY <1>2, PrefixedType, PrefixedLen
<1>8. a5 \in Seq(Bytes) /\ a6 \in Seq(Bytes) /\ a7 \in Seq(Bytes) /\ a9 \in Seq(Bytes)
  BY <1>2, <1>3, PrefixedType, WhenType
<1>9. a8 \in Seq(Bytes) /\ z \in Seq(Bytes)
  BY SMT, <1>1, WriteMentionsType, WhenType
<1> HIDE DEF a0, a1, a2, a3, a4, a5, a6, a7, a8, a9, z
<1>10. x9 \in Seq(Bytes) /\ x8 \in Seq(Bytes)
  BY <1>8, <1>9, Joined
<1> HIDE DEF x9, x8
<1>11. x7 \in Seq(Bytes) /\ x6 \in Seq(Bytes)
  BY <1>8, <1>10, Joined
<1> HIDE DEF x7, x6
<1>12. x5 \in Seq(Bytes) /\ x4 \in Seq(Bytes)
  BY <1>7, <1>8, <1>11, Joined
<1> HIDE DEF x5, x4
<1>13. x3 \in Seq(Bytes) /\ x2 \in Seq(Bytes)
  BY <1>7, <1>12, Joined
<1> HIDE DEF x3, x2
<1>14. x1 \in Seq(Bytes) /\ x0 \in Seq(Bytes)
  BY <1>5, <1>6, <1>13, Joined
<1> HIDE DEF x1, x0, w
<1>15. w = x0
  <2> DEFINE y1 == a0 \o a1
             y2 == y1 \o a2
             y3 == y2 \o a3
             y4 == y3 \o a4
             y5 == y4 \o a5
             y6 == y5 \o a6
             y7 == y6 \o a7
             y8 == y7 \o a8
             y9 == y8 \o a9
  <2>1. y1 \in Seq(Bytes) /\ y2 \in Seq(Bytes) /\ y3 \in Seq(Bytes)
    BY <1>5, <1>6, <1>7, Joined
  <2>2. w = y9
    BY <1>4
  <2> HIDE DEF y1, y2, y3
  <2>3. y4 \in Seq(Bytes) /\ y5 \in Seq(Bytes) /\ y6 \in Seq(Bytes)
    BY <2>1, <1>7, <1>8, Joined
  <2> HIDE DEF y4, y5, y6
  <2>4. y7 \in Seq(Bytes) /\ y8 \in Seq(Bytes) /\ y9 \in Seq(Bytes)
    BY <2>3, <1>8, <1>9, Joined
  <2> HIDE DEF y7, y8, y9
  <2>5. w = w \o z
    BY <2>2, <2>4, ConcatEmptySeq DEF z
  <2>6. y9 \o z = y8 \o x9
    <3>1. y8 \in Seq(Bytes) /\ a9 \in Seq(Bytes) /\ z \in Seq(Bytes)
      BY <1>5, <1>6, <1>7, <1>8, <1>9, <1>10, <1>11, <1>12, <1>13, <2>1, <2>3, <2>4
    <3> QED BY <3>1, Assoc DEF y9, x9
  <2>7. y8 \o x9 = y7 \o x8
    <3>1. y7 \in Seq(Bytes) /\ a8 \in Seq(Bytes) /\ x9 \in Seq(Bytes)
      BY <1>5, <1>6, <1>7, <1>8, <1>9, <1>10, <1>11, <1>12, <1>13, <2>1, <2>3, <2>4
    <3> QED BY <3>1, Assoc DEF y8, x8
  <2>8. y7 \o x8 = y6 \o x7
    <3>1. y6 \in Seq(Bytes) /\ a7 \in Seq(Bytes) /\ x8 \in Seq(Bytes)
      BY <1>5, <1>6, <1>7, <1>8, <1>9, <1>10, <1>11, <1>12, <1>13, <2>1, <2>3, <2>4
    <3> QED BY <3>1, Assoc DEF y7, x7
  <2>9. y6 \o x7 = y5 \o x6
    <3>1. y5 \in Seq(Bytes) /\ a6 \in Seq(Bytes) /\ x7 \in Seq(Bytes)
      BY <1>5, <1>6, <1>7, <1>8, <1>9, <1>10, <1>11, <1>12, <1>13, <2>1, <2>3, <2>4
    <3> QED BY <3>1, Assoc DEF y6, x6
  <2>10. y5 \o x6 = y4 \o x5
    <3>1. y4 \in Seq(Bytes) /\ a5 \in Seq(Bytes) /\ x6 \in Seq(Bytes)
      BY <1>5, <1>6, <1>7, <1>8, <1>9, <1>10, <1>11, <1>12, <1>13, <2>1, <2>3, <2>4
    <3> QED BY <3>1, Assoc DEF y5, x5
  <2>11. y4 \o x5 = y3 \o x4
    <3>1. y3 \in Seq(Bytes) /\ a4 \in Seq(Bytes) /\ x5 \in Seq(Bytes)
      BY <1>5, <1>6, <1>7, <1>8, <1>9, <1>10, <1>11, <1>12, <1>13, <2>1, <2>3, <2>4
    <3> QED BY <3>1, Assoc DEF y4, x4
  <2>12. y3 \o x4 = y2 \o x3
    <3>1. y2 \in Seq(Bytes) /\ a3 \in Seq(Bytes) /\ x4 \in Seq(Bytes)
      BY <1>5, <1>6, <1>7, <1>8, <1>9, <1>10, <1>11, <1>12, <1>13, <2>1, <2>3, <2>4
    <3> QED BY <3>1, Assoc DEF y3, x3
  <2>13. y2 \o x3 = y1 \o x2
    <3>1. y1 \in Seq(Bytes) /\ a2 \in Seq(Bytes) /\ x3 \in Seq(Bytes)
      BY <1>5, <1>6, <1>7, <1>8, <1>9, <1>10, <1>11, <1>12, <1>13, <2>1, <2>3, <2>4
    <3> QED BY <3>1, Assoc DEF y2, x2
  <2>14. y1 \o x2 = x0
    <3>1. a0 \in Seq(Bytes) /\ a1 \in Seq(Bytes) /\ x2 \in Seq(Bytes)
      BY <1>5, <1>6, <1>7, <1>8, <1>9, <1>10, <1>11, <1>12, <1>13, <2>1, <2>3, <2>4
    <3> QED BY <3>1, Assoc DEF y1, x1, x0
  <2> QED BY <2>2, <2>5, <2>6, <2>7, <2>8, <2>9, <2>10, <2>11, <2>12, <2>13, <2>14
<1>16. Len(x0) >= LongBytes + 5
  <2>1. Len(x0) = Len(a0) + Len(x1) /\ Len(x1) = Len(a1) + Len(x2)
    BY <1>5, <1>6, <1>13, <1>14, FrontAt DEF x0, x1
  <2>2. Len(x2) = Len(a2) + Len(x3) /\ Len(x3) = Len(a3) + Len(x4)
    BY <1>7, <1>12, <1>13, FrontAt DEF x2, x3
  <2>3. Len(x4) = Len(a4) + Len(x5)
    BY <1>7, <1>12, FrontAt DEF x4
  <2>4. Len(x5) \in Nat
    BY SMT, <1>12
  <2> QED BY SMTT(30), <2>1, <2>2, <2>3, <2>4, <1>5, <1>6, <1>7, LongSize
<1> DEFINE first == TakeByte(x0)
           flags == first.value
           timestamp == TakeLong(first.rest)
           id == ReadData(timestamp.rest)
           sender == ReadData(id.rest)
           content == ReadLongData(sender.rest)
           original == ReadIf(HasOriginalSender(flags), content.rest)
           recipient == ReadIf(HasRecipientNickname(flags), original.rest)
           peer == ReadIf(HasSenderPeerID(flags), recipient.rest)
           mentions == IF HasMentions(flags) THEN ReadMentions(peer.rest)
                                             ELSE NoMentions(peer.rest)
           channel == ReadIf(HasChannel(flags), mentions.rest)
<1>17. ProcessMessage(x0) =
         [readable |-> /\ Len(x0) >= LongBytes + 5
                       /\ id.readable /\ sender.readable /\ content.readable
                       /\ original.readable /\ recipient.readable /\ peer.readable
                       /\ mentions.readable /\ channel.readable,
          message |->
            [flags |-> flags, timestamp |-> timestamp.value, id |-> id.value,
             sender |-> sender.value,
             content |-> When(~IsEncrypted(flags), content.value),
             encrypted |-> When(IsEncrypted(flags), content.value),
             original |-> original.value, recipient |-> recipient.value,
             peer |-> FromHex(peer.value), mentions |-> mentions.value,
             channel |-> channel.value]]
  BY DEF ProcessMessage
<1>18. first = [value |-> m.flags, rest |-> x1]
  BY <1>1, <1>14, TakeByteOf DEF x0, a0
<1>19. flags = m.flags /\ first.rest = x1
  BY SMT, <1>18
<1> HIDE DEF flags, first
<1>20. timestamp = [value |-> m.timestamp, rest |-> x2]
  BY <1>1, <1>13, <1>19, TakeLongOf DEF x1, a1
<1> HIDE DEF timestamp
<1>21. id = [readable |-> TRUE, value |-> m.id, rest |-> x3]
  <2>1. Len(m.id) < Byte
    BY DEF WellFormedMessage
  <2> QED BY <2>1, <1>2, <1>13, <1>20, ReadDataOf DEF x2, a2
<1> HIDE DEF id
<1>22. sender = [readable |-> TRUE, value |-> m.sender, rest |-> x4]
  <2>1. Len(m.sender) < Byte
    BY DEF WellFormedMessage
  <2> QED BY <2>1, <1>2, <1>12, <1>21, ReadDataOf DEF x3, a3
<1> HIDE DEF sender
<1>23. content = [readable |-> TRUE, value |-> m.content, rest |-> x5]
  <2>1. Len(m.content) < Short
    BY DEF WellFormedMessage
  <2> QED BY <2>1, <1>2, <1>12, <1>22, ReadLongDataOf DEF x4, a4
<1> HIDE DEF content
<1>24. original = [readable |-> TRUE, value |-> m.original, rest |-> x6]
  <2>1. /\ Len(m.original) < Byte
        /\ ~HasOriginalSender(m.flags) => m.original = <<>>
        /\ HasOriginalSender(m.flags) \in BOOLEAN
    BY DEF WellFormedMessage, HasOriginalSender, Bit
  <2> QED BY <2>1, <1>2, <1>11, <1>19, <1>23, ReadIfOf DEF x5, a5
<1> HIDE DEF original
<1>25. recipient = [readable |-> TRUE, value |-> m.recipient, rest |-> x7]
  <2>1. /\ Len(m.recipient) < Byte
        /\ ~HasRecipientNickname(m.flags) => m.recipient = <<>>
        /\ HasRecipientNickname(m.flags) \in BOOLEAN
    BY DEF WellFormedMessage, HasRecipientNickname, Bit
  <2> QED BY <2>1, <1>2, <1>11, <1>19, <1>24, ReadIfOf DEF x6, a6
<1> HIDE DEF recipient
<1>26. peer = [readable |-> TRUE, value |-> text, rest |-> x8]
  <2>1. HasSenderPeerID(m.flags) \in BOOLEAN
    BY DEF HasSenderPeerID, Bit
  <2> QED BY <2>1, <1>3, <1>10, <1>19, <1>25, ReadIfOf DEF x7, a7
<1> HIDE DEF peer
<1>27. mentions = [readable |-> TRUE, value |-> m.mentions, rest |-> x9]
  <2>1. CASE HasMentions(m.flags)
    <3>1. /\ Len(m.mentions) < Byte
          /\ \A i \in 1..Len(m.mentions) : Len(m.mentions[i]) < Byte
      BY DEF WellFormedMessage
    <3>2. a8 = WriteMentions(m.mentions)
      BY <2>1 DEF a8, When
    <3>3. ReadMentions(x8) = [readable |-> TRUE, value |-> m.mentions, rest |-> x9]
      BY <3>1, <3>2, <1>1, <1>10, ReadMentionsOf DEF x8
    <3> QED BY <2>1, <3>3, <1>19, <1>26
  <2>2. CASE ~HasMentions(m.flags)
    <3>1. m.mentions = <<>> /\ a8 = <<>>
      BY <2>2 DEF WellFormedMessage, a8, When
    <3>2. x8 = x9
      BY <3>1, <1>10, ConcatEmptySeq DEF x8
    <3> QED BY <2>2, <3>1, <3>2, <1>19, <1>26 DEF NoMentions
  <2> QED BY <2>1, <2>2
<1> HIDE DEF mentions
<1>28. channel = [readable |-> TRUE, value |-> m.channel, rest |-> z]
  <2>1. /\ Len(m.channel) < Byte
        /\ ~HasChannel(m.flags) => m.channel = <<>>
        /\ HasChannel(m.flags) \in BOOLEAN
    BY DEF WellFormedMessage, HasChannel, Bit
  <2> QED BY <2>1, <1>2, <1>9, <1>19, <1>27, ReadIfOf DEF x9, a9
<1> HIDE DEF channel
<1>29. ProcessMessage(x0).readable
  BY SMTT(30), <1>16, <1>17, <1>21, <1>22, <1>23, <1>24, <1>25, <1>26, <1>27, <1>28
<1>30. ProcessMessage(x0).message =
            [flags |-> m.flags, timestamp |-> m.timestamp, id |-> m.id,
             sender |-> m.sender,
             content |-> When(~IsEncrypted(m.flags), m.content),
             encrypted |-> When(IsEncrypted(m.flags), m.content),
             original |-> m.original, recipient |-> m.recipient,
             peer |-> m.peer, mentions |-> m.mentions,
             channel |-> m.channel]
  BY SMTT(30), <1>3, <1>17, <1>19, <1>20, <1>21, <1>22, <1>23, <1>24, <1>25, <1>26, <1>27, <1>28
<1> QED BY <1>15, <1>29, <1>30 DEF w, Stored

\* A member that is written shorter makes the payload shorter.
LEMMA Shorter ==
  ASSUME NEW f \in Seq(Bytes), NEW g \in Seq(Bytes),
         NEW a5 \in Seq(Bytes), NEW a6 \in Seq(Bytes),
         NEW a7 \in Seq(Bytes), NEW a8 \in Seq(Bytes), NEW a9 \in Seq(Bytes),
         Len(g) <= Len(f)
  PROVE  Len(((((g \o a5) \o a6) \o a7) \o a8) \o a9)
           <= Len(((((f \o a5) \o a6) \o a7) \o a8) \o a9)
<1>1. \A s \in Seq(Bytes), b \in Seq(Bytes) :
        Len(((((s \o a5) \o a6) \o a7) \o a8) \o b)
          = Len(s) + Len(a5) + Len(a6) + Len(a7) + Len(a8) + Len(b)
  <2> SUFFICES ASSUME NEW s \in Seq(Bytes), NEW b \in Seq(Bytes)
               PROVE  Len(((((s \o a5) \o a6) \o a7) \o a8) \o b)
                        = Len(s) + Len(a5) + Len(a6) + Len(a7) + Len(a8) + Len(b)
    OBVIOUS
  <2> DEFINE y5 == s \o a5
             y6 == y5 \o a6
             y7 == y6 \o a7
             y8 == y7 \o a8
  <2>1. y5 \in Seq(Bytes) /\ Len(y5) = Len(s) + Len(a5)
    BY Joined, FrontAt
  <2> HIDE DEF y5
  <2>2. y6 \in Seq(Bytes) /\ Len(y6) = Len(y5) + Len(a6)
    BY <2>1, Joined, FrontAt
  <2> HIDE DEF y6
  <2>3. y7 \in Seq(Bytes) /\ Len(y7) = Len(y6) + Len(a7)
    BY <2>2, Joined, FrontAt
  <2> HIDE DEF y7
  <2>4. y8 \in Seq(Bytes) /\ Len(y8) = Len(y7) + Len(a8)
    BY <2>3, Joined, FrontAt
  <2> HIDE DEF y8
  <2>5. Len(y8 \o b) = Len(y8) + Len(b)
    BY <2>4, FrontAt
  <2>6. Len(y8 \o b) = Len(s) + Len(a5) + Len(a6) + Len(a7) + Len(a8) + Len(b)
    BY <2>1, <2>2, <2>3, <2>4, <2>5
  <2> QED BY <2>6 DEF y5, y6, y7, y8
<1>2. /\ Len(f) \in Nat /\ Len(g) \in Nat /\ Len(a5) \in Nat /\ Len(a6) \in Nat
      /\ Len(a7) \in Nat /\ Len(a8) \in Nat /\ Len(a9) \in Nat
  BY SMT
<1>3. Len(((((g \o a5) \o a6) \o a7) \o a8) \o a9)
        = Len(g) + Len(a5) + Len(a6) + Len(a7) + Len(a8) + Len(a9)
  BY <1>1
<1>4. Len(((((f \o a5) \o a6) \o a7) \o a8) \o a9)
        = Len(f) + Len(a5) + Len(a6) + Len(a7) + Len(a8) + Len(a9)
  BY <1>1
<1> QED BY SMT, <1>2, <1>3, <1>4

\* What a repeater keeps of a message has the same id, is written no longer, and
\* writing what it reads back changes nothing further.
LEMMA StoredOf ==
  ASSUME NEW m \in Messages, WellFormedMessage(m)
  PROVE  /\ Stored(m) \in Messages
         /\ WellFormedMessage(Stored(m))
         /\ Stored(m).id = m.id
         /\ ~IsEncrypted(m.flags) => WriteMessagePayload(Stored(m)) = WriteMessagePayload(m)
         /\ WriteMessagePayload(Stored(Stored(m))) = WriteMessagePayload(Stored(m))
         /\ Len(WriteMessagePayload(Stored(m))) <= Len(WriteMessagePayload(m))
<1> DEFINE content == When(~IsEncrypted(m.flags), m.content)
           encrypted == When(IsEncrypted(m.flags), m.content)
           s == Stored(m)
<1>1. m.content \in Seq(Bytes) /\ Len(m.content) \in Nat
  BY SMT DEF Messages
<1>2. content \in Seq(Bytes) /\ encrypted \in Seq(Bytes)
  BY <1>1, WhenType
<1>3. content = m.content \/ content = <<>>
  BY DEF When
<1>4. /\ ~IsEncrypted(m.flags) => content = m.content
      /\ When(~IsEncrypted(m.flags), content) = content
  BY DEF When
<1>5. /\ s.flags = m.flags /\ s.timestamp = m.timestamp /\ s.id = m.id /\ s.sender = m.sender
      /\ s.content = content /\ s.encrypted = encrypted
      /\ s.original = m.original /\ s.recipient = m.recipient /\ s.peer = m.peer
      /\ s.mentions = m.mentions /\ s.channel = m.channel
  BY DEF Stored
<1> HIDE DEF content, encrypted
<1>6. s \in Messages
  BY <1>2 DEF Stored, Messages, content, encrypted
<1>7. Len(content) < Short
  BY SMT, <1>3, Positive DEF WellFormedMessage
<1> HIDE DEF s
<1>8. WellFormedMessage(s)
  BY <1>5, <1>7 DEF WellFormedMessage
<1>9. SenderPeerId(s) = SenderPeerId(m)
  BY <1>5 DEF SenderPeerId
<1>10. ~IsEncrypted(m.flags) => WriteMessagePayload(s) = WriteMessagePayload(m)
  BY <1>4, <1>5, <1>9 DEF WriteMessagePayload
<1>11. WriteMessagePayload(Stored(s)) = WriteMessagePayload(s)
  <2> DEFINE r == Stored(s)
  <2>1. /\ r.flags = s.flags /\ r.timestamp = s.timestamp /\ r.id = s.id /\ r.sender = s.sender
        /\ r.content = s.content
        /\ r.original = s.original /\ r.recipient = s.recipient /\ r.peer = s.peer
        /\ r.mentions = s.mentions /\ r.channel = s.channel
    BY <1>4, <1>5 DEF Stored
  <2> HIDE DEF r
  <2>2. SenderPeerId(r) = SenderPeerId(s)
    BY <2>1 DEF SenderPeerId
  <2>3. WriteMessagePayload(r) = WriteMessagePayload(s)
    BY <2>1, <2>2 DEF WriteMessagePayload
  <2> QED BY <2>3 DEF r
<1>12. Len(WriteMessagePayload(s)) <= Len(WriteMessagePayload(m))
  <2> DEFINE a0 == <<m.flags>>
             a1 == WriteLong(m.timestamp)
             a2 == Prefixed(m.id)
             a3 == Prefixed(m.sender)
             a4 == LongPrefixed(m.content)
             b4 == LongPrefixed(content)
             a5 == When(HasOriginalSender(m.flags), Prefixed(m.original))
             a6 == When(HasRecipientNickname(m.flags), Prefixed(m.recipient))
             a7 == When(HasSenderPeerID(m.flags), <<2 * LongBytes>> \o WriteHex(SenderPeerId(m)))
             a8 == When(HasMentions(m.flags), WriteMentions(m.mentions))
             a9 == When(HasChannel(m.flags), Prefixed(m.channel))
             y == ((a0 \o a1) \o a2) \o a3
             f == y \o a4
             g == y \o b4
  <2>1. m.flags \in Bytes /\ m.timestamp \in Longs /\ m.mentions \in Texts
    BY DEF Messages
  <2>2. /\ m.id \in Seq(Bytes) /\ m.sender \in Seq(Bytes)
        /\ m.original \in Seq(Bytes) /\ m.recipient \in Seq(Bytes) /\ m.channel \in Seq(Bytes)
    BY DEF Messages
  <2>3. a0 \in Seq(Bytes) /\ a1 \in Seq(Bytes)
    BY <2>1, Single, WriteLongType
  <2>4. a2 \in Seq(Bytes) /\ a3 \in Seq(Bytes) /\ a4 \in Seq(Bytes) /\ b4 \in Seq(Bytes)
    BY <1>1, <1>2, <2>2, PrefixedType
  <2>5. a5 \in Seq(Bytes) /\ a6 \in Seq(Bytes) /\ a9 \in Seq(Bytes)
    BY <2>2, PrefixedType, WhenType
  <2>6. a7 \in Seq(Bytes)
    <3>1. <<2 * LongBytes>> \in Seq(Bytes)
      BY SMT, LongSize
    <3>2. WriteHex(SenderPeerId(m)) \in Seq(Bytes)
      BY PeerIdType, FromHexOf
    <3> QED BY <3>1, <3>2, Joined, WhenType
  <2>7. a8 \in Seq(Bytes)
    BY <2>1, WriteMentionsType, WhenType
  <2>8. WriteMessagePayload(m) = ((((f \o a5) \o a6) \o a7) \o a8) \o a9
    BY DEF WriteMessagePayload
  <2>9. WriteMessagePayload(s) = ((((g \o a5) \o a6) \o a7) \o a8) \o a9
    BY <1>5, <1>9 DEF WriteMessagePayload
  <2>10. Len(b4) <= Len(a4)
    <3>1. CASE content = m.content
      <4>1. Len(a4) \in Nat
        BY SMT, <2>4
      <4> QED BY SMT, <3>1, <4>1
    <3>2. CASE content = <<>>
      <4>1. Len(LongPrefixed(<<>>)) = 2
        <5> DEFINE e == <<>>
                   l == WriteShort(0)
        <5>1. e \in Seq(Bytes) /\ Len(e) = 0 /\ Limited(e, Short - 1) = e
          BY SMT, Positive DEF Limited
        <5>2. LongPrefixed(e) = l \o e
          BY <5>1 DEF LongPrefixed
        <5>3. l \in Seq(Bytes) /\ Len(l) = 2
          <6>1. 0 \in 0..(Short - 1)
            BY SMT, Positive
          <6>2. WriteShort(0) \in Seq(Bytes)
            BY <6>1, ShortType
          <6> QED BY <6>2 DEF WriteShort
        <5> HIDE DEF e, l
        <5>4. Len(l \o e) = Len(l) + Len(e)
          BY <5>1, <5>3, FrontAt
        <5>5. Len(LongPrefixed(e)) = 2
          BY SMTT(30), <5>1, <5>2, <5>3, <5>4
        <5> QED BY <5>5 DEF e
      <4>2. Len(a4) \in Nat /\ Len(a4) >= 2
        BY <1>1, PrefixedLen
      <4> QED BY <3>2, <4>1, <4>2
    <3> QED BY <1>3, <3>1, <3>2
  <2> HIDE DEF a0, a1, a2, a3, a4, b4, a5, a6, a7, a8, a9
  <2>11. y \in Seq(Bytes)
    BY <2>3, <2>4, Joined
  <2> HIDE DEF y
  <2>12. /\ f \in Seq(Bytes) /\ g \in Seq(Bytes)
         /\ Len(f) = Len(y) + Len(a4) /\ Len(g) = Len(y) + Len(b4)
    BY <2>4, <2>11, Joined, FrontAt
  <2>13. Len(g) <= Len(f)
    <3>1. Len(y) \in Nat /\ Len(a4) \in Nat /\ Len(b4) \in Nat
      BY SMT, <2>4, <2>11
    <3> HIDE DEF f, g
    <3> QED BY SMTT(30), <3>1, <2>10, <2>12
  <2> HIDE DEF f, g
  <2> QED BY SMTT(30), <2>5, <2>6, <2>7, <2>8, <2>9, <2>12, <2>13, Shorter
<1> QED BY <1>5, <1>6, <1>8, <1>10, <1>11, <1>12 DEF s

\* The packet as a repeater keeps it.
Kept(p) == [p EXCEPT !.message = Stored(p.message)]

\* What is read is the packet that was written: the repeaters tell it from no
\* other, and write it again as they keep it.
SamePacket(r, p) ==
  /\ r.type = p.type /\ r.flags = p.flags /\ r.timestamp = p.timestamp
  /\ r.sender = p.sender /\ r.recipient = p.recipient
  /\ Identity(r) = Identity(p)
  /\ WritePayload(r) = WritePayload(Kept(p))

\* A repeater keeps every member of a packet but the content of an encrypted
\* message.
LEMMA KeptFields ==
  ASSUME NEW p \in Packets
  PROVE  /\ Kept(p).type = p.type /\ Kept(p).flags = p.flags
         /\ Kept(p).timestamp = p.timestamp /\ Kept(p).sender = p.sender
         /\ Kept(p).recipient = p.recipient /\ Kept(p).payload = p.payload
         /\ Kept(p).message = Stored(p.message)
BY DEF Kept, Packets

\* What a repeater keeps is well formed, and keeping it again keeps the same.
LEMMA KeptOf ==
  ASSUME NEW p \in Packets, WellFormedPacket(p)
  PROVE  /\ Kept(p) \in Packets /\ WellFormedPacket(Kept(p))
         /\ \A r : SamePacket(r, Kept(p)) => SamePacket(r, p)
<1>1. /\ Kept(p).type = p.type /\ Kept(p).flags = p.flags
      /\ Kept(p).timestamp = p.timestamp /\ Kept(p).sender = p.sender
      /\ Kept(p).recipient = p.recipient /\ Kept(p).payload = p.payload
      /\ Kept(p).message = Stored(p.message)
  BY KeptFields
<1>0. Kept(p) \in Packets
  <2>1. p.message \in Messages
    BY DEF Packets
  <2>2. Stored(p.message) \in Messages
    BY <2>1, StoredType
  <2> QED BY <2>2 DEF Kept, Packets
<1>2. CASE p.type = type_message
  <2>1. p.message \in Messages /\ WellFormedMessage(p.message)
    BY <1>2 DEF Packets, WellFormedPacket
  <2> DEFINE m == p.message
  <2>2. /\ Stored(m) \in Messages /\ WellFormedMessage(Stored(m)) /\ Stored(m).id = m.id
        /\ WriteMessagePayload(Stored(Stored(m))) = WriteMessagePayload(Stored(m))
        /\ Len(WriteMessagePayload(Stored(m))) <= Len(WriteMessagePayload(m))
    BY <2>1, StoredOf
  <2>3. Kept(p) \in Packets
    BY <1>0
  <2>4. WriteMessagePayload(m) \in Seq(Bytes) /\ WriteMessagePayload(Stored(m)) \in Seq(Bytes)
    BY <2>1, <2>2, WriteMessagePayloadType
  <2> DEFINE k == Kept(p)
  <2>5. WritePayload(k) = WriteMessagePayload(Stored(m)) /\ WritePayload(p) = WriteMessagePayload(m)
    BY <1>1, <1>2 DEF WritePayload
  <2>6. Len(WritePayload(k)) < Short
    <3> DEFINE a == Len(WriteMessagePayload(m))
               b == Len(WriteMessagePayload(Stored(m)))
    <3>1. a \in Nat /\ b \in Nat /\ b <= a
      BY SMT, <2>2, <2>4
    <3>2. a < Short
      BY <2>5 DEF WellFormedPacket
    <3>3. Len(WritePayload(k)) = b
      BY <2>5
    <3> HIDE DEF a, b, k
    <3> QED BY SMTT(30), <3>1, <3>2, <3>3, Positive
  <2>7. WritePayload(Kept(k)) = WritePayload(k)
    <3>1. Kept(k).type = k.type /\ Kept(k).message = Stored(k.message)
      BY <2>3, KeptFields
    <3>2. WritePayload(Kept(k)) = WriteMessagePayload(Stored(Stored(m)))
      BY <1>1, <1>2, <3>1 DEF WritePayload
    <3> QED BY <2>2, <2>5, <3>2
  <2>8. Identity(k) = Identity(p)
    BY <1>1, <1>2, <2>2 DEF Identity
  <2> HIDE DEF k
  <2>9. WellFormedPacket(k)
    BY <1>1, <2>2, <2>6 DEF WellFormedPacket, k
  <2>10. \A r : SamePacket(r, k) => SamePacket(r, p)
    BY <1>1, <2>7, <2>8 DEF SamePacket, k
  <2> QED BY <2>3, <2>9, <2>10 DEF k
<1>3. CASE p.type # type_message
  <2> DEFINE k == Kept(p)
  <2>1. Kept(k).type = k.type /\ Kept(k).payload = k.payload
    BY <1>1 DEF Kept, Packets
  <2>2. Identity(k) = Identity(p)
    BY <1>1, <1>3 DEF Identity
  <2>3. WritePayload(Kept(k)) = WritePayload(k)
    BY <1>1, <1>3, <2>1 DEF WritePayload
  <2> HIDE DEF k
  <2>4. \A r : SamePacket(r, k) => SamePacket(r, p)
    BY <1>1, <2>2, <2>3 DEF SamePacket, k
  <2>5. WritePayload(k) = WritePayload(p)
    BY <1>1, <1>3 DEF WritePayload, k
  <2>6. WellFormedPacket(k)
    BY <1>1, <1>3, <2>5 DEF WellFormedPacket, k
  <2> QED BY <1>0, <2>4, <2>6 DEF k
<1> QED BY <1>2, <1>3

\* processWrite reads what writePacket writes, whatever follows it.
THEOREM ReadPacketOf ==
  ASSUME NEW p \in Packets, WellFormedPacket(p), NEW ttl \in Bytes, NEW t \in Seq(Bytes)
  PROVE  /\ ReadPacket(WriteUnsigned(p, ttl) \o t).readable
         /\ ReadPacket(WriteUnsigned(p, ttl) \o t).ttl = ttl
         /\ SamePacket(ReadPacket(WriteUnsigned(p, ttl) \o t), p)
<1> DEFINE w == WritePayload(p)
           head == WriteHeader(p, ttl, Len(w))
           z == w \o t
           b == head \o z
           h == ReadHeader(b)
           data == ReadPayload(h)
           parsed == ProcessMessage(data.value)
           isMessage == h.type = type_message
           r == ReadPacket(b)
<1>1. /\ ~IsCompressed(p.flags) /\ Len(w) < Short
      /\ ~HasRecipient(p.flags) => p.recipient = Zero
  BY DEF WellFormedPacket
<1>2. Limited(w, Short - 1) = w /\ w \in Seq(Bytes) /\ Len(w) \in 0..(Short - 1)
  BY <1>1, WritePayloadType
<1>3. WriteUnsigned(p, ttl) = head \o w
  BY <1>2 DEF WriteUnsigned
<1>4. head \in Seq(Bytes)
  BY <1>2, WriteHeaderType
<1> HIDE DEF w
<1>5. z \in Seq(Bytes)
  BY <1>2, Joined
<1>6. WriteUnsigned(p, ttl) \o t = b
  <2> HIDE DEF head
  <2> QED BY SMTT(30), <1>2, <1>3, <1>4, Assoc
<1>7. h = [version |-> 1, type |-> p.type, ttl |-> ttl, timestamp |-> p.timestamp,
           flags |-> p.flags, length |-> Len(w), sender |-> p.sender,
           recipient |-> IF HasRecipient(p.flags) THEN p.recipient ELSE Zero,
           rest |-> z]
  <2> HIDE DEF z
  <2> QED BY <1>2, <1>5, ReadHeaderOf
<1>8. r = [type |-> h.type, ttl |-> h.ttl, timestamp |-> h.timestamp, flags |-> h.flags,
           sender |-> h.sender, recipient |-> h.recipient,
           signature |-> When(HasSignature(h.flags), ReadSignature(data.rest)),
           payload |-> When(~isMessage, data.value),
           message |-> IF isMessage THEN parsed.message ELSE NoMessage,
           readable |-> /\ h.version = 1
                        /\ data.readable
                        /\ isMessage => parsed.readable]
  BY DEF ReadPacket
<1> HIDE DEF b, h, r
<1>9. /\ h.version = 1 /\ h.type = p.type /\ h.ttl = ttl /\ h.timestamp = p.timestamp
      /\ h.flags = p.flags /\ h.length = Len(w) /\ h.sender = p.sender
      /\ h.recipient = p.recipient /\ h.rest = z
  BY <1>1, <1>7
<1>10. data = [readable |-> TRUE, value |-> w, rest |-> t]
  <2>1. data = TakeData(z, Len(w))
    BY <1>1, <1>9 DEF ReadPayload
  <2> QED BY <1>2, <2>1, TakeDataOf
<1> HIDE DEF data
<1>11. /\ r.type = p.type /\ r.ttl = ttl /\ r.timestamp = p.timestamp /\ r.flags = p.flags
       /\ r.sender = p.sender /\ r.recipient = p.recipient
       /\ r.payload = When(~isMessage, data.value)
       /\ r.message = IF isMessage THEN parsed.message ELSE NoMessage
       /\ r.readable <=> h.version = 1 /\ data.readable /\ (isMessage => parsed.readable)
  BY <1>8, <1>9
<1>12. CASE p.type = type_message
  <2>1. p.message \in Messages /\ WellFormedMessage(p.message) /\ isMessage
    BY <1>9, <1>12 DEF Packets, WellFormedPacket
  <2>2. data.value = WriteMessagePayload(p.message)
    BY <1>10, <1>12 DEF w, WritePayload
  <2>3. parsed.readable /\ parsed.message = Stored(p.message)
    BY <2>1, <2>2, ProcessMessageOf
  <2> HIDE DEF parsed
  <2>4. r.readable /\ r.message = Stored(p.message)
    BY <1>9, <1>10, <1>11, <2>1, <2>3
  <2>5. Kept(p).type = p.type /\ Kept(p).message = Stored(p.message)
    BY KeptFields
  <2>6. Identity(r) = Identity(p)
    <3>1. Stored(p.message).id = p.message.id
      BY DEF Stored
    <3> QED BY <1>11, <1>12, <2>4, <3>1 DEF Identity
  <2>7. WritePayload(r) = WritePayload(Kept(p))
    BY <1>11, <1>12, <2>4, <2>5 DEF WritePayload
  <2> QED BY <1>6, <1>11, <2>4, <2>6, <2>7 DEF SamePacket, r
<1>13. CASE p.type # type_message
  <2>1. ~isMessage /\ w = p.payload
    BY <1>9, <1>13 DEF w, WritePayload
  <2>2. r.payload = p.payload
    BY <1>10, <1>11, <2>1 DEF When
  <2>3. r.readable
    BY <1>9, <1>10, <1>11, <2>1
  <2>4. Kept(p).type = p.type /\ Kept(p).payload = p.payload
    BY KeptFields
  <2>5. Identity(r) = Identity(p)
    BY <1>11, <1>13, <2>2 DEF Identity
  <2>6. WritePayload(r) = WritePayload(Kept(p))
    BY <1>11, <1>13, <2>2, <2>4 DEF WritePayload
  <2> QED BY <1>6, <1>11, <2>3, <2>5, <2>6 DEF SamePacket, r
<1> QED BY <1>12, <1>13

\* A packet of which part of the payload is missing is not read.
THEOREM ReadPacketCut ==
  ASSUME NEW p \in Packets, WellFormedPacket(p), NEW ttl \in Bytes,
         NEW z \in Seq(Bytes), Len(z) < Len(WritePayload(p))
  PROVE  ~ReadPacket(WriteHeader(p, ttl, Len(WritePayload(p))) \o z).readable
<1> DEFINE w == WritePayload(p)
           b == WriteHeader(p, ttl, Len(w)) \o z
           h == ReadHeader(b)
           data == ReadPayload(h)
<1>1. ~IsCompressed(p.flags) /\ Len(w) < Short
  BY DEF WellFormedPacket
<1>2. Len(w) \in 0..(Short - 1)
  BY <1>1, WritePayloadType
<1>3. h.flags = p.flags /\ h.length = Len(w) /\ h.rest = z
  BY SMT, <1>2, ReadHeaderOf
<1>4. ReadPacket(b).readable => data.readable
  BY DEF ReadPacket
<1> HIDE DEF h
<1>5. data = TakeData(z, Len(w))
  BY <1>1, <1>3 DEF ReadPayload
<1>6. ~TakeData(z, Len(w)).readable
  BY DEF TakeData
<1> QED BY <1>4, <1>5, <1>6
=============================================================================
