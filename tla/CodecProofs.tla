----------------------------- MODULE CodecProofs -----------------------------
(***************************************************************************)
(* What is written is what is read, for every base, every size of words,   *)
(* all values and lists of any length.                                     *)
(*                                                                         *)
(* Every encoding w of a value v delimits itself: a reader that is given   *)
(* bytes p that agree with w fails if p is shorter than w, and otherwise   *)
(* reads v and leaves what follows w (Decodes).  This holds for the        *)
(* encoding of a list if it does for its elements, and so for a message.   *)
(***************************************************************************)
EXTENDS Codec, DigitsProofs

\* p and w agree as far as both go.
Agrees(p, w) ==
  p \in Seq(Byte) /\ w \in Seq(Byte) /\ \A i \in 1 .. Len(p) : i <= Len(w) => p[i] = w[i]

Drop(p, n) == SubSeq(p, n + 1, Len(p))

\* r is what a reader makes of p if w is the encoding of v.
Decodes(r, p, w, v) == r = IF Len(p) < Len(w) THEN Fail ELSE Ok(v, Drop(p, Len(w)))

\* One reader after another, as in Then.
Both(r1, r2) == IF r1.ok THEN r2 ELSE Fail

-----------------------------------------------------------------------------
\* Bytes.

LEMMA ResultFields ==
  ASSUME NEW v, NEW b
  PROVE  Ok(v, b).ok /\ Ok(v, b).val = v /\ Ok(v, b).rest = b /\ ~Fail.ok
  BY DEF Ok, Fail

LEMMA Elements ==
  ASSUME NEW S, NEW b \in Seq(S)
  PROVE  Len(b) \in Nat /\ \A i \in 1 .. Len(b) : b[i] \in S
  OBVIOUS

LEMMA DropFacts ==
  ASSUME NEW S, NEW p \in Seq(S), NEW n \in Nat, n <= Len(p)
  PROVE  /\ Drop(p, n) \in Seq(S) /\ Len(Drop(p, n)) = Len(p) - n
         /\ \A i \in 1 .. Len(p) - n : Drop(p, n)[i] = p[n + i]
  BY DEF Drop

\* Sequences are equal if they have the same length and elements.
LEMMA SameSequence ==
  ASSUME NEW S, NEW p \in Seq(S), NEW q \in Seq(S), Len(p) = Len(q),
         \A i \in 1 .. Len(p) : p[i] = q[i]
  PROVE  p = q
  OBVIOUS

LEMMA DropTwice ==
  ASSUME NEW S, NEW p \in Seq(S), NEW m \in Nat, NEW n \in Nat, m + n <= Len(p)
  PROVE  Drop(Drop(p, m), n) = Drop(p, m + n)
  <1>0. Len(p) \in Nat /\ m <= Len(p) /\ m + n \in Nat
    OBVIOUS
  <1>1. /\ Drop(p, m) \in Seq(S) /\ Len(Drop(p, m)) = Len(p) - m /\ Len(p) \in Nat
        /\ \A i \in 1 .. Len(p) - m : Drop(p, m)[i] = p[m + i]
    BY <1>0, DropFacts
  <1>2. /\ Drop(Drop(p, m), n) \in Seq(S) /\ Len(Drop(Drop(p, m), n)) = Len(p) - m - n
        /\ \A i \in 1 .. Len(p) - m - n : Drop(Drop(p, m), n)[i] = Drop(p, m)[n + i]
    <2>1. n <= Len(Drop(p, m)) /\ Len(Drop(p, m)) - n = Len(p) - m - n
      BY <1>1
    <2>2. /\ Drop(Drop(p, m), n) \in Seq(S)
          /\ Len(Drop(Drop(p, m), n)) = Len(Drop(p, m)) - n
          /\ \A i \in 1 .. Len(Drop(p, m)) - n : Drop(Drop(p, m), n)[i] = Drop(p, m)[n + i]
      BY <1>1, <2>1, DropFacts, Zenon
    <2> QED
      BY <2>1, <2>2
  <1>3. /\ Drop(p, m + n) \in Seq(S) /\ Len(Drop(p, m + n)) = Len(p) - (m + n)
        /\ \A i \in 1 .. Len(p) - (m + n) : Drop(p, m + n)[i] = p[(m + n) + i]
    BY <1>0, DropFacts
  <1>4. ASSUME NEW i \in 1 .. Len(p) - (m + n)
        PROVE  Drop(Drop(p, m), n)[i] = Drop(p, m + n)[i]
    <2>1. n + i \in 1 .. Len(p) - m /\ i \in 1 .. Len(p) - m - n /\ m + (n + i) = (m + n) + i
      BY <1>1
    <2> QED
      BY <1>1, <1>2, <1>3, <2>1
  <1> QED
    BY <1>1, <1>2, <1>3, <1>4, SameSequence

LEMMA ConcatFacts ==
  ASSUME NEW S, NEW a \in Seq(S), NEW b \in Seq(S)
  PROVE  /\ a \o b \in Seq(S) /\ Len(a \o b) = Len(a) + Len(b)
         /\ \A i \in 1 .. Len(a) : (a \o b)[i] = a[i]
         /\ \A i \in 1 .. Len(b) : (a \o b)[Len(a) + i] = b[i]
  OBVIOUS

\* Bytes that agree with two parts agree with the first, and what is left after it
\* with the second.
LEMMA AgreesWithParts ==
  ASSUME NEW a \in Seq(Byte), NEW b \in Seq(Byte), NEW p, Agrees(p, a \o b)
  PROVE  Agrees(p, a) /\ (Len(p) >= Len(a) => Agrees(Drop(p, Len(a)), b))
  <1>1. /\ p \in Seq(Byte) /\ Len(p) \in Nat /\ Len(a) \in Nat /\ Len(b) \in Nat
        /\ \A i \in 1 .. Len(p) : i <= Len(a \o b) => p[i] = (a \o b)[i]
    BY DEF Agrees
  <1>2. /\ Len(a \o b) = Len(a) + Len(b)
        /\ \A i \in 1 .. Len(a) : (a \o b)[i] = a[i]
        /\ \A i \in 1 .. Len(b) : (a \o b)[Len(a) + i] = b[i]
    BY ConcatFacts
  <1>3. Agrees(p, a)
    BY <1>1, <1>2 DEF Agrees
  <1>4. ASSUME Len(p) >= Len(a) PROVE Agrees(Drop(p, Len(a)), b)
    <2>1. /\ Drop(p, Len(a)) \in Seq(Byte) /\ Len(Drop(p, Len(a))) = Len(p) - Len(a)
          /\ \A i \in 1 .. Len(p) - Len(a) : Drop(p, Len(a))[i] = p[Len(a) + i]
      <3>1. p \in Seq(Byte) /\ Len(a) \in Nat /\ Len(a) <= Len(p)
        BY <1>1, <1>4
      <3> QED
        BY <3>1, DropFacts, Zenon
    <2>2. ASSUME NEW i \in 1 .. Len(p) - Len(a), i <= Len(b) PROVE Drop(p, Len(a))[i] = b[i]
      <3>1. Len(a) + i \in 1 .. Len(p) /\ Len(a) + i <= Len(a \o b) /\ i \in 1 .. Len(b)
        BY <1>1, <1>2, <2>2
      <3> QED
        BY <1>1, <1>2, <2>1, <3>1
    <2> QED
      BY <2>1, <2>2 DEF Agrees
  <1> QED
    BY <1>3, <1>4

\* Reading one encoding after another (Then).
LEMMA Chain ==
  ASSUME NEW a \in Seq(Byte), NEW b \in Seq(Byte), NEW p, Agrees(p, a \o b),
         NEW u, NEW v, NEW r1, NEW r2, Decodes(r1, p, a, u),
         r1.ok => Decodes(r2, Drop(p, Len(a)), b, v)
  PROVE  Decodes(Both(r1, r2), p, a \o b, v)
  <1>1. p \in Seq(Byte) /\ Len(p) \in Nat /\ Len(a) \in Nat /\ Len(b) \in Nat
        /\ Len(a \o b) = Len(a) + Len(b)
    BY ConcatFacts DEF Agrees
  <1>2. CASE Len(p) < Len(a)
    <2>1. ~r1.ok
      BY <1>2, ResultFields DEF Decodes
    <2>2. Len(p) < Len(a \o b)
      BY <1>1, <1>2
    <2> QED
      BY <2>1, <2>2 DEF Decodes, Both
  <1>3. CASE ~(Len(p) < Len(a))
    <2>1. r1.ok
      BY <1>3, ResultFields DEF Decodes
    <2>2. Decodes(r2, Drop(p, Len(a)), b, v) /\ Len(Drop(p, Len(a))) = Len(p) - Len(a)
      BY <1>1, <1>3, <2>1, DropFacts
    <2>3. CASE Len(p) < Len(a \o b)
      <3>1. Len(Drop(p, Len(a))) < Len(b)
        BY <1>1, <1>3, <2>2, <2>3
      <3> QED
        BY <2>1, <2>2, <2>3, <3>1 DEF Decodes, Both
    <2>4. CASE ~(Len(p) < Len(a \o b))
      <3>1. ~(Len(Drop(p, Len(a))) < Len(b)) /\ Len(a) + Len(b) <= Len(p)
        BY <1>1, <1>3, <2>2, <2>4
      <3>2. Drop(Drop(p, Len(a)), Len(b)) = Drop(p, Len(a) + Len(b))
        BY <1>1, <3>1, DropTwice
      <3> QED
        BY <1>1, <2>1, <2>2, <2>4, <3>1, <3>2 DEF Decodes, Both
    <2> QED
      BY <2>3, <2>4
  <1> QED
    BY <1>2, <1>3

\* Turning what was read into something else.
LEMMA Converted ==
  ASSUME NEW p, NEW a, NEW u, NEW v, NEW r, Decodes(r, p, a, u)
  PROVE  Decodes(Both(r, Ok(v, r.rest)), p, a, v)
  BY ResultFields DEF Decodes, Both

\* A reader that succeeds leaves what follows the encoding.
LEMMA Succeeds ==
  ASSUME NEW p, NEW a, NEW u, NEW r, Decodes(r, p, a, u), r.ok
  PROVE  r.val = u /\ r.rest = Drop(p, Len(a)) /\ ~(Len(p) < Len(a))
  BY ResultFields DEF Decodes

\* ... and these bytes agree with what was written next.
LEMMA ReadOn ==
  ASSUME NEW a \in Seq(Byte), NEW b \in Seq(Byte), NEW p, Agrees(p, a \o b),
         NEW u, NEW r, Decodes(r, p, a, u), r.ok
  PROVE  r.val = u /\ r.rest = Drop(p, Len(a)) /\ Agrees(r.rest, b)
  <1>1. r.val = u /\ r.rest = Drop(p, Len(a)) /\ ~(Len(p) < Len(a))
    BY Succeeds
  <1>2. Len(p) \in Nat /\ Len(a) \in Nat
    BY DEF Agrees
  <1> QED
    BY <1>1, <1>2, AgreesWithParts

\* Take reads as many bytes as there are in w.
\* One part after another.
LEMMA Sequenced ==
  ASSUME NEW a \in Seq(Byte), NEW b \in Seq(Byte), NEW p, Agrees(p, a \o b),
         NEW u, NEW r1, Decodes(r1, p, a, u), NEW v, NEW r2,
         r1.ok /\ r1.val = u /\ Agrees(r1.rest, b) => Decodes(r2, r1.rest, b, v)
  PROVE  Decodes(Both(r1, r2), p, a \o b, v)
  <1>1. r1.ok => r1.val = u /\ r1.rest = Drop(p, Len(a)) /\ Agrees(r1.rest, b)
    BY ReadOn
  <1>2. r1.ok => Decodes(r2, Drop(p, Len(a)), b, v)
    BY <1>1
  <1> QED
    BY <1>2, Chain

LEMMA TakeRead ==
  ASSUME NEW p, NEW w, Agrees(p, w)
  PROVE  Decodes(Take(p, Len(w)), p, w, w)
  <1>1. /\ p \in Seq(Byte) /\ w \in Seq(Byte) /\ Len(p) \in Nat /\ Len(w) \in Nat
        /\ \A i \in 1 .. Len(p) : i <= Len(w) => p[i] = w[i]
    BY DEF Agrees
  <1>2. CASE Len(p) < Len(w)
    BY <1>2 DEF Take, Decodes
  <1>3. CASE ~(Len(p) < Len(w))
    <2>1. SubSeq(p, 1, Len(w)) = w
      <3>1. /\ SubSeq(p, 1, Len(w)) \in Seq(Byte) /\ Len(SubSeq(p, 1, Len(w))) = Len(w)
            /\ \A i \in 1 .. Len(w) : SubSeq(p, 1, Len(w))[i] = p[i]
        BY <1>1, <1>3
      <3>2. \A i \in 1 .. Len(w) : SubSeq(p, 1, Len(w))[i] = w[i]
        BY <1>1, <1>3, <3>1
      <3> QED
        BY <1>1, <3>1, <3>2, SameSequence
    <2> QED
      BY <1>3, <2>1 DEF Take, Decodes, Drop
  <1> QED
    BY <1>2, <1>3

-----------------------------------------------------------------------------
\* Numbers.

LEMMA Sizes ==
  /\ Base \in Nat \ {0} /\ N32 \in Nat \ {0} /\ N64 \in Nat \ {0} /\ N64 = N32 + N32
  /\ Power(Base, N32) \in Nat \ {0} /\ Power(Base, N64) \in Nat \ {0}
  /\ Null \in Nat /\ Null + 1 = Power(Base, N32)
  <1>1. Base \in Nat \ {0} /\ N32 \in Nat \ {0} /\ N64 \in Nat \ {0} /\ N64 = N32 + N32
    BY BufferAssumption
  <1>2. Power(Base, N32) \in Nat \ {0} /\ Power(Base, N64) \in Nat \ {0}
    BY <1>1, PowerPositive
  <1> QED
    BY <1>1, <1>2 DEF Null

LEMMA AddUint ==
  ASSUME NEW n \in Nat, NEW w \in Nat
  PROVE  /\ addUint(n, w) \in Seq(Byte) /\ Len(addUint(n, w)) = w
         /\ n < Power(Base, w) => Number(addUint(n, w), Base) = n
  <1> DEFINE a == addUint(n, w)
  <1>1. \A i \in 1 .. w : (n \div Power(Base, w - i)) % Base \in Byte
    <2> TAKE i \in 1 .. w
    <2>1. w - i \in Nat
      OBVIOUS
    <2>2. Power(Base, w - i) \in Nat \ {0} /\ Base \in Nat \ {0}
      BY <2>1, Sizes, PowerPositive
    <2>3. \A x \in Nat, y, b \in Nat \ {0} : (x \div y) % b \in 0 .. b - 1
      OBVIOUS
    <2> QED
      BY <2>2, <2>3 DEF Byte
  <1>2. a = [i \in 1 .. w |-> (n \div Power(Base, w - i)) % Base]
    BY DEF addUint
  <1> HIDE DEF a
  <1>3. /\ a \in Seq(Byte) /\ Len(a) = w
        /\ \A i \in 1 .. w : a[i] = (n \div Power(Base, w - i)) % Base
    BY <1>1, <1>2
  <1>4. a \in Seq(Nat)
    BY <1>3, Sizes DEF Byte
  <1>5. ASSUME n < Power(Base, w) PROVE Number(a, Base) = n
    BY <1>3, <1>4, <1>5, Sizes, NumberOfDigits
  <1> QED
    BY <1>3, <1>5 DEF a

LEMMA ByteRead ==
  ASSUME NEW x \in Byte, NEW p, Agrees(p, <<x>>)
  PROVE  Decodes(byte(p), p, <<x>>, x)
  <1>1. Decodes(Take(p, 1), p, <<x>>, <<x>>)
    <2>1. Len(<<x>>) = 1
      OBVIOUS
    <2>2. Decodes(Take(p, Len(<<x>>)), p, <<x>>, <<x>>)
      BY TakeRead
    <2> QED
      BY <2>1, <2>2
  <1>2. byte(p) = Both(Take(p, 1), Ok(Take(p, 1).val[1], Take(p, 1).rest))
    BY DEF byte, Then, Both
  <1>3. Take(p, 1).ok => Take(p, 1).val[1] = x
    BY <1>1, Succeeds
  <1>4. Decodes(Both(Take(p, 1), Ok(x, Take(p, 1).rest)), p, <<x>>, x)
    BY <1>1, Converted
  <1> QED
    BY <1>2, <1>3, <1>4 DEF Both

\* The bytes of a word are read as the number they stand for.
LEMMA WordRead ==
  ASSUME NEW w \in Seq(Byte), NEW p, Agrees(p, w)
  PROVE  /\ Len(w) = N32 => Decodes(uint32(p), p, w, Number(w, Base))
         /\ Len(w) = N64 => Decodes(uint64(p), p, w, Number(w, Base))
  <1> DEFINE t == Take(p, Len(w))
             r == Both(t, Ok(Number(t.val, Base), t.rest))
  <1>1. Decodes(t, p, w, w)
    BY TakeRead
  <1>2. Len(w) = N32 => uint32(p) = r
    BY DEF uint32, Then, Both
  <1>3. Len(w) = N64 => uint64(p) = r
    BY DEF uint64, Then, Both
  <1> HIDE DEF t
  <1>4. t.ok => t.val = w
    BY <1>1, Succeeds
  <1>5. Decodes(Both(t, Ok(Number(w, Base), t.rest)), p, w, Number(w, Base))
    BY <1>1, Converted
  <1> QED
    BY <1>2, <1>3, <1>4, <1>5 DEF Both

LEMMA Uint32Written ==
  ASSUME NEW n \in Nat
  PROVE  addUint32(n) \in Seq(Byte) /\ Len(addUint32(n)) = N32
  BY AddUint, Sizes DEF addUint32

LEMMA Uint32Read ==
  ASSUME NEW n \in 0 .. Null, NEW p, Agrees(p, addUint32(n))
  PROVE  Decodes(uint32(p), p, addUint32(n), n)
  <1>1. n \in Nat /\ n < Power(Base, N32) /\ N32 \in Nat
    BY Sizes
  <1>2. Number(addUint32(n), Base) = n
    BY <1>1, AddUint DEF addUint32
  <1> QED
    BY <1>1, <1>2, Uint32Written, WordRead

LEMMA Uint64Read ==
  ASSUME NEW n \in Ulong
  PROVE  /\ addUint64(n) \in Seq(Byte) /\ Len(addUint64(n)) = N64
         /\ \A p : Agrees(p, addUint64(n)) => Decodes(uint64(p), p, addUint64(n), n)
  <1>1. n \in Nat /\ n < Power(Base, N64) /\ N64 \in Nat
    BY Sizes DEF Ulong
  <1>2. addUint64(n) \in Seq(Byte) /\ Len(addUint64(n)) = N64 /\ Number(addUint64(n), Base) = n
    BY <1>1, AddUint DEF addUint64
  <1> QED
    BY <1>2, WordRead

\* A byte array is read as such, and never as NULL.
LEMMA ByteArrayRead ==
  ASSUME NEW a, IsArray(a)
  PROVE  /\ addByteArray(a) \in Seq(Byte)
         /\ \A p : Agrees(p, addByteArray(a)) => Decodes(byteArray(p), p, addByteArray(a), a)
  <1> DEFINE w == addUint32(Len(a))
  <1>1. a \in Seq(Byte) /\ Len(a) \in 0 .. Null /\ Len(a) # Null /\ Len(a) \in Nat
    BY Sizes DEF IsArray
  <1>2. w \in Seq(Byte)
    BY <1>1, Uint32Written
  <1>3. addByteArray(a) = w \o a
    BY DEF addByteArray
  <1>4. addByteArray(a) \in Seq(Byte)
    BY <1>1, <1>2, <1>3, ConcatFacts
  <1>5. ASSUME NEW p, Agrees(p, w \o a) PROVE Decodes(byteArray(p), p, w \o a, a)
    <2> DEFINE r1 == uint32(p)
               r2 == IF r1.val = Null THEN Ok(Nil, r1.rest) ELSE Take(r1.rest, r1.val)
    <2>1. byteArray(p) = Both(r1, r2)
      BY DEF byteArray, Then, Both
    <2>2. Agrees(p, w) /\ (Len(p) >= Len(w) => Agrees(Drop(p, Len(w)), a))
      BY <1>1, <1>2, <1>5, AgreesWithParts
    <2>3. Decodes(r1, p, w, Len(a))
      BY <1>1, <2>2, Uint32Read
    <2> HIDE DEF r1, w
    <2>4. ASSUME r1.ok PROVE Decodes(r2, Drop(p, Len(w)), a, a)
      <3>1. r1.val = Len(a) /\ r1.rest = Drop(p, Len(w)) /\ ~(Len(p) < Len(w))
        BY <2>3, <2>4, Succeeds
      <3>2. Agrees(Drop(p, Len(w)), a)
        BY <1>2, <1>5, <2>2, <3>1 DEF Agrees
      <3> QED
        BY <1>1, <3>1, <3>2, TakeRead
    <2> HIDE DEF r2
    <2>5. Decodes(Both(r1, r2), p, w \o a, a)
      BY <1>1, <1>2, <1>5, <2>3, <2>4, Chain
    <2> QED
      BY <2>1, <2>5
  <1> QED
    BY <1>3, <1>4, <1>5

\* A client may pass a NULL array, which is read as none.
LEMMA ClientArrayRead ==
  ASSUME NEW a, IsArray(a) \/ a = Nil
  PROVE  /\ ClientArray(a) \in Seq(Byte)
         /\ \A p : Agrees(p, ClientArray(a)) => Decodes(byteArray(p), p, ClientArray(a), a)
  <1>1. CASE a = Nil
    <2> DEFINE w == addUint32(Null)
    <2>1. ClientArray(a) = w /\ w \in Seq(Byte)
      BY <1>1, Uint32Written, Sizes DEF ClientArray
    <2>2. ASSUME NEW p, Agrees(p, w) PROVE Decodes(byteArray(p), p, w, Nil)
      <3> DEFINE r1 == uint32(p)
                 r2 == IF r1.val = Null THEN Ok(Nil, r1.rest) ELSE Take(r1.rest, r1.val)
      <3>1. byteArray(p) = Both(r1, r2)
        BY DEF byteArray, Then, Both
      <3>2. Decodes(r1, p, w, Null)
        BY <2>2, Uint32Read, Sizes
      <3> HIDE DEF r1, w
      <3>3. r1.ok => r2 = Ok(Nil, r1.rest)
        BY <3>2, Succeeds
      <3> HIDE DEF r2
      <3>4. Both(r1, r2) = Both(r1, Ok(Nil, r1.rest))
        BY <3>3 DEF Both
      <3> QED
        BY <3>1, <3>2, <3>4, Converted
    <2> QED
      BY <1>1, <2>1, <2>2
  <1>2. CASE a # Nil
    BY <1>2, ByteArrayRead DEF ClientArray
  <1> QED
    BY <1>1, <1>2

-----------------------------------------------------------------------------
\* Dates and attributes.

LEMMA EightDigits ==
  ASSUME NEW S, NEW a \in S, NEW b \in S, NEW c \in S, NEW d \in S,
         NEW e \in S, NEW f \in S, NEW g \in S, NEW h \in S
  PROVE  <<a, b, c, d, e, f, g, h>> \in Seq(S) /\ Len(<<a, b, c, d, e, f, g, h>>) = 8
  OBVIOUS

\* A date is written as eight digits, and read as the date.
LEMMA DateRead ==
  ASSUME NEW t, t \in Years \X (1 .. 12) \X (1 .. 31)
  PROVE  /\ addDate(t) \in Seq(Byte) /\ Len(addDate(t)) = 8
         /\ \A p : Agrees(p, addDate(t)) => Decodes(date(p), p, addDate(t), t)
  <1>1. PICK y, m, d : y = t[1] /\ m = t[2] /\ d = t[3]
    OBVIOUS
  <1>2. t[1] \in Years /\ m \in 1 .. 12 /\ d \in 1 .. 31 /\ t = <<y, m, d>>
    BY <1>1
  <1>3. y \in Int /\ 1000 <= y /\ y <= 9999 /\ m \in Int /\ 1 <= m /\ m <= 12 /\ d \in Int /\ 1 <= d /\ d <= 31
    <2>1. y \in Years
      BY <1>1, <1>2
    <2>2. \A x \in Years : x \in Int /\ 1000 <= x /\ x <= 9999
      BY DEF Years
    <2> QED
      BY <1>2, <2>1, <2>2
  <1>4. PICK w : w = addDate(t)
    OBVIOUS
  <1>5. w = <<y \div 1000, (y \div 100) % 10, (y \div 10) % 10, y % 10,
              m \div 10, m % 10, d \div 10, d % 10>>
    BY <1>1, <1>2, <1>4 DEF addDate
  <1>6. /\ y \div 1000 \in 0 .. 9 /\ (y \div 100) % 10 \in 0 .. 9
        /\ (y \div 10) % 10 \in 0 .. 9 /\ y % 10 \in 0 .. 9
        /\ m \div 10 \in 0 .. 9 /\ m % 10 \in 0 .. 9 /\ d \div 10 \in 0 .. 9 /\ d % 10 \in 0 .. 9
    BY <1>3
  <1>7. w \in Seq(Byte) /\ Len(w) = 8
    <2>1. \A x \in 0 .. 9 : x \in Byte
      BY BufferAssumption DEF Byte
    <2>2. /\ y \div 1000 \in Byte /\ (y \div 100) % 10 \in Byte
          /\ (y \div 10) % 10 \in Byte /\ y % 10 \in Byte
          /\ m \div 10 \in Byte /\ m % 10 \in Byte /\ d \div 10 \in Byte /\ d % 10 \in Byte
      BY <1>6, <2>1
    <2> QED
      BY <1>5, <2>2, EightDigits
  <1>8. /\ w[1] = y \div 1000 /\ w[2] = (y \div 100) % 10 /\ w[3] = (y \div 10) % 10 /\ w[4] = y % 10
        /\ w[5] = m \div 10 /\ w[6] = m % 10 /\ w[7] = d \div 10 /\ w[8] = d % 10
    BY <1>5
  <1>9. ~ \E i \in 1 .. 8 : w[i] > 9
    <2>1. \A i \in 1 .. 8 : i = 1 \/ i = 2 \/ i = 3 \/ i = 4 \/ i = 5 \/ i = 6 \/ i = 7 \/ i = 8
      OBVIOUS
    <2>2. \A x \in 0 .. 9 : ~(x > 9)
      OBVIOUS
    <2> QED
      BY <1>6, <1>8, <2>1, <2>2
  <1>10. /\ w[1] * 1000 + w[2] * 100 + w[3] * 10 + w[4] = y
         /\ w[5] * 10 + w[6] = m /\ w[7] * 10 + w[8] = d
    BY <1>3, <1>8
  <1>11. ASSUME NEW p, Agrees(p, w) PROVE Decodes(date(p), p, w, t)
    <2> DEFINE r == Take(p, 8)
               x == r.val
    <2>1. Decodes(r, p, w, w)
      <3>1. Decodes(Take(p, Len(w)), p, w, w)
        BY <1>11, TakeRead
      <3> QED
        BY <1>7, <3>1
    <2>2. date(p) = Both(r, IF \E i \in 1 .. 8 : x[i] > 9 THEN Fail
                            ELSE Ok(<<x[1] * 1000 + x[2] * 100 + x[3] * 10 + x[4],
                                      x[5] * 10 + x[6], x[7] * 10 + x[8]>>, r.rest))
      BY DEF date, Then, Both
    <2> HIDE DEF r
    <2>3. r.ok => x = w
      BY <2>1, Succeeds
    <2> HIDE DEF x
    <2>4. date(p) = Both(r, Ok(t, r.rest))
      BY <1>2, <1>9, <1>10, <2>2, <2>3 DEF Both
    <2> QED
      BY <2>1, <2>4, Converted
  <1> QED
    BY <1>4, <1>7, <1>11

LEMMA ConcatAssociative ==
  ASSUME NEW S, NEW a \in Seq(S), NEW b \in Seq(S), NEW c \in Seq(S)
  PROVE  (a \o b) \o c = a \o (b \o c)
  OBVIOUS

LEMMA SmallBytes ==
  /\ 0 \in Byte /\ 1 \in Byte /\ <<0>> \in Seq(Byte) /\ <<1>> \in Seq(Byte)
  /\ \A p : Agrees(p, <<0>>) => Decodes(byte(p), p, <<0>>, 0)
  /\ \A p : Agrees(p, <<1>>) => Decodes(byte(p), p, <<1>>, 1)
  <1>1. 0 \in Byte /\ 1 \in Byte
    BY BufferAssumption DEF Byte
  <1> QED
    BY <1>1, ByteRead

\* What is read becomes the value of the attribute.
LEMMA AttributeWrapped ==
  ASSUME NEW a, a = [typ |-> a.typ, val |-> a.val], NEW p, NEW w, NEW r, Decodes(r, p, w, a.val)
  PROVE  Decodes(Both(r, Ok([typ |-> a.typ, val |-> r.val], r.rest)), p, w, a)
  <1>1. r.ok => r.val = a.val
    BY Succeeds
  <1>2. Both(r, Ok([typ |-> a.typ, val |-> r.val], r.rest)) = Both(r, Ok(a, r.rest))
    BY <1>1 DEF Both
  <1> QED
    BY <1>2, Converted

\* The value of an attribute, of each kind.
LEMMA ValueRead ==
  ASSUME NEW a, IsAttribute(a), a.val # Nil
  PROVE  /\ value(a) \in Seq(Byte)
         /\ \A p : Agrees(p, value(a)) => Decodes(attributeOf(a.typ, p), p, value(a), a)
  <1>1. a = [typ |-> a.typ, val |-> a.val]
    BY DEF IsAttribute
  <1>2. CASE valueType[a.typ] = "byte" /\ a.val \in Byte
    <2>1. value(a) = <<a.val>>
      BY <1>2 DEF value
    <2>2. \A p : attributeOf(a.typ, p) = Both(byte(p), Ok([typ |-> a.typ, val |-> byte(p).val], byte(p).rest))
      BY <1>2 DEF attributeOf, Then, Both
    <2>3. <<a.val>> \in Seq(Byte)
      BY <1>2
    <2> QED
      BY <1>1, <1>2, <2>1, <2>2, <2>3, ByteRead, AttributeWrapped
  <1>3. CASE valueType[a.typ] = "ulong" /\ a.val \in Ulong
    <2>1. value(a) = addUint64(a.val)
      BY <1>3 DEF value
    <2>2. \A p : attributeOf(a.typ, p) = Both(uint64(p), Ok([typ |-> a.typ, val |-> uint64(p).val], uint64(p).rest))
      BY <1>3 DEF attributeOf, Then, Both
    <2> QED
      BY <1>1, <1>3, <2>1, <2>2, Uint64Read, AttributeWrapped
  <1>4. CASE valueType[a.typ] = "bytes" /\ IsArray(a.val)
    <2>1. value(a) = addByteArray(a.val)
      BY <1>4 DEF value
    <2>2. \A p : attributeOf(a.typ, p) = Both(byteArray(p), Ok([typ |-> a.typ, val |-> byteArray(p).val], byteArray(p).rest))
      BY <1>4 DEF attributeOf, Then, Both
    <2> QED
      BY <1>1, <1>4, <2>1, <2>2, ByteArrayRead, AttributeWrapped
  <1>5. CASE valueType[a.typ] = "date" /\ a.val \in Years \X (1 .. 12) \X (1 .. 31)
    <2>1. value(a) = addDate(a.val)
      BY <1>5 DEF value
    <2>2. \A p : attributeOf(a.typ, p) = Both(date(p), Ok([typ |-> a.typ, val |-> date(p).val], date(p).rest))
      BY <1>5 DEF attributeOf, Then, Both
    <2> QED
      BY <1>1, <1>5, <2>1, <2>2, DateRead, AttributeWrapped
  <1> QED
    BY <1>2, <1>3, <1>4, <1>5 DEF IsAttribute

\* The length of every value fits a word.
LEMMA NullLarge == Null >= 10 /\ Null >= N64
  <1> DEFINE P == {i \in Nat : Power(Base, i) >= 10 * i + 1}
  <1>0. Base \in Nat /\ Base >= 11
    BY BufferAssumption
  <1>1. 0 \in P
    BY <1>0, PowerRules
  <1>2. ASSUME NEW i \in P PROVE i + 1 \in P
    <2>1. Power(Base, i + 1) = Power(Base, i) * Base /\ Power(Base, i) \in Nat
      BY <1>0, PowerRules
    <2>2. \A x, b \in Nat : b >= 11 => x * b >= x * 11
      OBVIOUS
    <2>3. Power(Base, i) * Base >= Power(Base, i) * 11
      BY <1>0, <2>1, <2>2
    <2>4. \A x, y, j \in Nat : x >= 10 * j + 1 /\ y >= x * 11 => y >= 10 * (j + 1) + 1
      OBVIOUS
    <2>5. Power(Base, i) * Base \in Nat /\ Power(Base, i) >= 10 * i + 1
      BY <1>0, <2>1
    <2> QED
      BY <2>1, <2>3, <2>4, <2>5
  <1>3. P \in SUBSET Nat
    OBVIOUS
  <1> HIDE DEF P
  <1>4. N32 \in P
    BY <1>1, <1>2, <1>3, Induction, Sizes
  <1>5. Power(Base, N32) >= 10 * N32 + 1
    BY <1>4 DEF P
  <1> QED
    BY <1>5, Sizes

\* The length announced for a value is its own.
LEMMA LengthAnnounced ==
  ASSUME NEW a, IsAttribute(a), a.val # Nil
  PROVE  valueLength(a) \in 0 .. Null /\ valueLength(a) = RawLength(a)
  <1>1. CASE valueType[a.typ] = "byte" /\ a.val \in Byte
    <2>1. value(a) = <<a.val>> /\ Len(<<a.val>>) = 1
      BY <1>1 DEF value
    <2>2. valueLength(a) = 1 /\ RawLength(a) = 1
      BY <1>1, <2>1 DEF valueLength, RawLength
    <2> QED
      BY <2>2, NullLarge, Sizes
  <1>2. CASE valueType[a.typ] = "ulong" /\ a.val \in Ulong
    <2>1. value(a) = addUint64(a.val) /\ Len(addUint64(a.val)) = N64
      BY <1>2, Uint64Read DEF value
    <2>2. valueLength(a) = N64 /\ RawLength(a) = N64
      BY <1>2, <2>1 DEF valueLength, RawLength
    <2> QED
      BY <2>2, NullLarge, Sizes
  <1>3. CASE valueType[a.typ] = "bytes" /\ IsArray(a.val)
    <2>1. valueLength(a) = Len(a.val) /\ RawLength(a) = Len(a.val)
      BY <1>3 DEF valueLength, RawLength
    <2>2. Len(a.val) \in Nat /\ Len(a.val) < Null
      BY <1>3 DEF IsArray
    <2> QED
      BY <2>1, <2>2, Sizes
  <1>4. CASE valueType[a.typ] = "date" /\ a.val \in Years \X (1 .. 12) \X (1 .. 31)
    <2>1. value(a) = addDate(a.val)
      BY <1>4 DEF value
    <2>2. Len(addDate(a.val)) = 8
      BY <1>4, DateRead
    <2>3. valueLength(a) = 8 /\ RawLength(a) = 8
      BY <1>4, <2>1, <2>2 DEF valueLength, RawLength
    <2> QED
      BY <2>3, NullLarge, Sizes
  <1> QED
    BY <1>1, <1>2, <1>3, <1>4 DEF IsAttribute

\* The parts an attribute is written in.
LEMMA AttributeWritten ==
  ASSUME NEW a, IsAttribute(a)
  PROVE  /\ a.typ \in 0 .. Null /\ a = [typ |-> a.typ, val |-> a.val]
         /\ addUint32(a.typ) \in Seq(Byte) /\ addAttribute(a) \in Seq(Byte)
         /\ a.val = Nil => addAttribute(a) = addUint32(a.typ) \o <<0>>
         /\ a.val # Nil =>
              /\ addUint32(valueLength(a)) \in Seq(Byte) /\ value(a) \in Seq(Byte)
              /\ addAttribute(a)
                   = addUint32(a.typ) \o (<<1>> \o (addUint32(valueLength(a)) \o value(a)))
  <1>1. a.typ \in 0 .. Null /\ a = [typ |-> a.typ, val |-> a.val]
    BY DEF IsAttribute
  <1>2. addUint32(a.typ) \in Seq(Byte)
    BY <1>1, Uint32Written, Sizes
  <1>3. CASE a.val = Nil
    <2>1. addAttribute(a) = addUint32(a.typ) \o <<0>>
      BY <1>3 DEF addAttribute
    <2> QED
      BY <1>1, <1>2, <1>3, <2>1, SmallBytes, ConcatFacts
  <1>4. CASE a.val # Nil
    <2>1. value(a) \in Seq(Byte) /\ valueLength(a) \in Nat
      BY <1>4, ValueRead, LengthAnnounced, Sizes
    <2>2. addUint32(valueLength(a)) \in Seq(Byte)
      BY <2>1, Uint32Written
    <2>3. addAttribute(a) = addUint32(a.typ) \o ((<<1>> \o addUint32(valueLength(a))) \o value(a))
      BY <1>4 DEF addAttribute
    <2>4. (<<1>> \o addUint32(valueLength(a))) \o value(a) = <<1>> \o (addUint32(valueLength(a)) \o value(a))
      BY <2>1, <2>2, SmallBytes, ConcatAssociative
    <2>5. addUint32(a.typ) \o (<<1>> \o (addUint32(valueLength(a)) \o value(a))) \in Seq(Byte)
      BY <1>2, <2>1, <2>2, SmallBytes, ConcatFacts
    <2> QED
      BY <1>1, <1>2, <1>4, <2>1, <2>2, <2>3, <2>4, <2>5
  <1> QED
    BY <1>3, <1>4

LEMMA AttributeRead ==
  ASSUME NEW a, IsAttribute(a), NEW p, Agrees(p, addAttribute(a))
  PROVE  Decodes(attribute(p), p, addAttribute(a), a)
  <1> DEFINE t == addUint32(a.typ)
             r1 == uint32(p)
             r2 == byte(r1.rest)
             r3 == uint32(r2.rest)
             r4 == attributeOf(r1.val, r3.rest)
             tail == IF r2.val = 0 THEN Ok([typ |-> r1.val, val |-> Nil], r2.rest) ELSE Both(r3, r4)
  <1>1. attribute(p) = Both(r1, Both(r2, tail))
    BY DEF attribute, Then, Both
  <1>2. /\ a.typ \in 0 .. Null /\ a = [typ |-> a.typ, val |-> a.val] /\ t \in Seq(Byte)
        /\ <<0>> \in Seq(Byte) /\ <<1>> \in Seq(Byte)
    BY AttributeWritten, SmallBytes
  <1>3. CASE a.val = Nil
    <2>1. addAttribute(a) = t \o <<0>>
      BY <1>3, AttributeWritten
    <2>2. Decodes(r1, p, t, a.typ)
      BY <1>2, <2>1, AgreesWithParts, Uint32Read
    <2> HIDE DEF r1, r2, t
    <2>3. ASSUME r1.ok PROVE Decodes(Both(r2, tail), Drop(p, Len(t)), <<0>>, a)
      <3>1. r1.val = a.typ /\ r1.rest = Drop(p, Len(t)) /\ Agrees(r1.rest, <<0>>)
        BY <1>2, <2>1, <2>2, <2>3, ReadOn
      <3>2. Decodes(r2, r1.rest, <<0>>, 0)
        BY <3>1, SmallBytes DEF r2
      <3>3. r2.ok => tail = Ok(a, r2.rest)
        BY <1>2, <1>3, <3>1, <3>2, Succeeds
      <3>4. Both(r2, tail) = Both(r2, Ok(a, r2.rest))
        BY <3>3 DEF Both
      <3> QED
        BY <3>1, <3>2, <3>4, Converted
    <2> HIDE DEF tail
    <2> QED
      BY <1>1, <1>2, <2>1, <2>2, <2>3, Chain
  <1>4. CASE a.val # Nil
    <2> DEFINE l == addUint32(valueLength(a))
               v == value(a)
    <2>1. l \in Seq(Byte) /\ v \in Seq(Byte) /\ addAttribute(a) = t \o (<<1>> \o (l \o v))
      BY <1>4, AttributeWritten
    <2>2. valueLength(a) \in 0 .. Null
      BY <1>4, LengthAnnounced
    <2>3. l \o v \in Seq(Byte) /\ <<1>> \o (l \o v) \in Seq(Byte)
      BY <1>2, <2>1, ConcatFacts
    <2>4. Decodes(r1, p, t, a.typ)
      BY <1>2, <2>1, <2>3, AgreesWithParts, Uint32Read
    <2> HIDE DEF r1, r2, r3, r4, t, l, v
    <2>5. ASSUME r1.ok PROVE Decodes(Both(r2, tail), Drop(p, Len(t)), <<1>> \o (l \o v), a)
      <3>1. r1.val = a.typ /\ r1.rest = Drop(p, Len(t)) /\ Agrees(r1.rest, <<1>> \o (l \o v))
        BY <1>2, <2>1, <2>3, <2>4, <2>5, ReadOn
      <3>2. Decodes(r2, r1.rest, <<1>>, 1)
        BY <1>2, <2>3, <3>1, AgreesWithParts, SmallBytes DEF r2
      <3>3. ASSUME r2.ok PROVE Decodes(tail, Drop(r1.rest, Len(<<1>>)), l \o v, a)
        <4>1. r2.val = 1 /\ r2.rest = Drop(r1.rest, Len(<<1>>)) /\ Agrees(r2.rest, l \o v)
          BY <1>2, <2>3, <3>1, <3>2, <3>3, ReadOn
        <4>2. tail = Both(r3, r4)
          BY <4>1
        <4>3. Decodes(r3, r2.rest, l, valueLength(a))
          BY <2>1, <2>2, <4>1, AgreesWithParts, Uint32Read DEF r3, l
        <4>4. ASSUME r3.ok PROVE Decodes(r4, Drop(r2.rest, Len(l)), v, a)
          <5>1. r3.rest = Drop(r2.rest, Len(l)) /\ Agrees(r3.rest, v)
            BY <2>1, <4>1, <4>3, <4>4, ReadOn
          <5> QED
            BY <1>4, <3>1, <5>1, ValueRead DEF r4, v
        <4>5. Decodes(Both(r3, r4), r2.rest, l \o v, a)
          BY <2>1, <4>1, <4>3, <4>4, Chain
        <4> QED
          BY <4>1, <4>2, <4>5
      <3> HIDE DEF tail
      <3>4. Decodes(Both(r2, tail), r1.rest, <<1>> \o (l \o v), a)
        BY <1>2, <2>3, <3>1, <3>2, <3>3, Chain
      <3> QED
        BY <3>1, <3>4
    <2> HIDE DEF tail
    <2> QED
      BY <1>1, <1>2, <2>1, <2>3, <2>4, <2>5, Chain
  <1> QED
    BY <1>3, <1>4

\* An attribute with a NULL array for its value is one without a value.
LEMMA ClientEntryRead ==
  ASSUME NEW a, IsAttribute(a), NEW sty
  PROVE  /\ ClientEntry(a, sty) \in Seq(Byte)
         /\ \A p : Agrees(p, ClientEntry(a, sty)) => Decodes(attribute(p), p, ClientEntry(a, sty), a)
  <1>1. CASE sty.nulls /\ a.val = Nil /\ valueType[a.typ] = "bytes"
    <2> DEFINE t == addUint32(a.typ)
               l == addUint32(0)
               v == ClientArray(Nil)
    <2>1. a.typ \in 0 .. Null /\ a = [typ |-> a.typ, val |-> Nil] /\ t \in Seq(Byte)
      BY <1>1, AttributeWritten
    <2>2. 0 \in 0 .. Null /\ l \in Seq(Byte) /\ v \in Seq(Byte) /\ <<1>> \in Seq(Byte)
      BY Sizes, Uint32Written, ClientArrayRead, SmallBytes
    <2>3. ClientEntry(a, sty) = ((t \o <<1>>) \o l) \o v
      BY <1>1 DEF ClientEntry, ClientArray
    <2> HIDE DEF t, l, v
    <2>4. /\ l \o v \in Seq(Byte) /\ <<1>> \o (l \o v) \in Seq(Byte)
          /\ t \o (<<1>> \o (l \o v)) \in Seq(Byte)
      BY <2>1, <2>2, ConcatFacts
    <2>5. ((t \o <<1>>) \o l) \o v = t \o (<<1>> \o (l \o v))
      <3>1. t \o <<1>> \in Seq(Byte)
        BY <2>1, <2>2, ConcatFacts
      <3>2. ((t \o <<1>>) \o l) \o v = (t \o <<1>>) \o (l \o v)
        BY <2>2, <3>1, ConcatAssociative
      <3>3. (t \o <<1>>) \o (l \o v) = t \o (<<1>> \o (l \o v))
        BY <2>1, <2>2, <2>4, ConcatAssociative
      <3> QED
        BY <3>2, <3>3
    <2>6. ASSUME NEW p, Agrees(p, t \o (<< 1 >> \o (l \o v)))
          PROVE  Decodes(attribute(p), p, t \o (<<1>> \o (l \o v)), a)
      <3> DEFINE r1 == uint32(p)
                 r2 == byte(r1.rest)
                 r3 == uint32(r2.rest)
                 r4 == attributeOf(r1.val, r3.rest)
                 tail == IF r2.val = 0 THEN Ok([typ |-> r1.val, val |-> Nil], r2.rest)
                         ELSE Both(r3, r4)
      <3>1. attribute(p) = Both(r1, Both(r2, tail))
        BY DEF attribute, Then, Both
      <3>2. Decodes(r1, p, t, a.typ)
        BY <2>1, <2>4, <2>6, AgreesWithParts, Uint32Read DEF t
      <3> HIDE DEF r1, r2, r3, r4
      <3>3. ASSUME r1.ok, r1.val = a.typ, Agrees(r1.rest, << 1 >> \o (l \o v))
            PROVE  Decodes(Both(r2, tail), r1.rest, <<1>> \o (l \o v), a)
        <4>1. Decodes(r2, r1.rest, <<1>>, 1)
          BY <2>2, <2>4, <3>3, AgreesWithParts, SmallBytes DEF r2
        <4>2. ASSUME r2.ok, r2.val = 1, Agrees(r2.rest, l \o v)
              PROVE  Decodes(tail, r2.rest, l \o v, a)
          <5>1. tail = Both(r3, r4)
            BY <4>2
          <5>2. Decodes(r3, r2.rest, l, 0)
            BY <2>2, <4>2, AgreesWithParts, Uint32Read DEF r3, l
          <5>3. ASSUME r3.ok, r3.val = 0, Agrees(r3.rest, v) PROVE Decodes(r4, r3.rest, v, a)
            <6>1. PICK x : x = byteArray(r3.rest)
              OBVIOUS
            <6>2. r4 = Both(x, Ok([typ |-> a.typ, val |-> x.val], x.rest))
              BY <1>1, <3>3, <6>1 DEF r4, attributeOf, Then, Both
            <6>3. Decodes(x, r3.rest, v, a.val)
              BY <1>1, <5>3, <6>1, ClientArrayRead DEF v
            <6>4. a = [typ |-> a.typ, val |-> a.val]
              BY <1>1, <2>1
            <6> QED
              BY <6>2, <6>3, <6>4, AttributeWrapped
          <5> QED
            BY <2>2, <4>2, <5>1, <5>2, <5>3, Sequenced
        <4> HIDE DEF tail
        <4> QED
          BY <2>2, <2>4, <3>3, <4>1, <4>2, Sequenced
      <3> HIDE DEF tail
      <3> QED
        BY <2>1, <2>4, <2>6, <3>1, <3>2, <3>3, Sequenced
    <2> QED
      BY <2>3, <2>4, <2>5, <2>6
  <1>2. CASE ~(sty.nulls /\ a.val = Nil /\ valueType[a.typ] = "bytes")
    <2>1. ClientEntry(a, sty) = addAttribute(a)
      BY <1>2 DEF ClientEntry
    <2> QED
      BY <2>1, AttributeWritten, AttributeRead
  <1> QED
    BY <1>1, <1>2

\* The client gets an attribute with the length of its value.
LEMMA ClientAttributeRead ==
  ASSUME NEW a, IsAttribute(a), NEW p, Agrees(p, addAttribute(a))
  PROVE  Decodes(ClientAttribute(p), p, addAttribute(a),
                 [typ |-> a.typ, val |-> a.val, len |-> RawLength(a)])
  <1> DEFINE t == addUint32(a.typ)
             e == [typ |-> a.typ, val |-> a.val, len |-> RawLength(a)]
             r1 == uint32(p)
             r2 == byte(r1.rest)
             r3 == uint32(r2.rest)
             r4 == attributeOf(r1.val, r3.rest)
             r5 == Ok([typ |-> r1.val, val |-> r4.val.val, len |-> r3.val], r4.rest)
             tail == IF r2.val = 0 THEN Ok([typ |-> r1.val, val |-> Nil, len |-> 0], r2.rest)
                     ELSE Both(r3, Both(r4, r5))
  <1>1. ClientAttribute(p) = Both(r1, Both(r2, tail))
    BY DEF ClientAttribute, Then, Both
  <1>2. a.typ \in 0 .. Null /\ t \in Seq(Byte) /\ <<0>> \in Seq(Byte) /\ <<1>> \in Seq(Byte)
    BY AttributeWritten, SmallBytes
  <1>3. CASE a.val = Nil
    <2>0. RawLength(a) = 0
      BY <1>3 DEF RawLength
    <2>1. addAttribute(a) = t \o <<0>>
      BY <1>3, AttributeWritten
    <2>2. Decodes(r1, p, t, a.typ)
      BY <1>2, <2>1, AgreesWithParts, Uint32Read
    <2> HIDE DEF r1, r2, t
    <2>3. ASSUME r1.ok PROVE Decodes(Both(r2, tail), Drop(p, Len(t)), <<0>>, e)
      <3>1. r1.val = a.typ /\ r1.rest = Drop(p, Len(t)) /\ Agrees(r1.rest, <<0>>)
        BY <1>2, <2>1, <2>2, <2>3, ReadOn
      <3>2. Decodes(r2, r1.rest, <<0>>, 0)
        BY <3>1, SmallBytes DEF r2
      <3>3. r2.ok => tail = Ok(e, r2.rest)
        BY <1>3, <2>0, <3>1, <3>2, Succeeds
      <3>4. Both(r2, tail) = Both(r2, Ok(e, r2.rest))
        BY <3>3 DEF Both
      <3> QED
        BY <3>1, <3>2, <3>4, Converted
    <2> HIDE DEF tail
    <2> QED
      BY <1>1, <1>2, <2>1, <2>2, <2>3, Chain
  <1>4. CASE a.val # Nil
    <2> DEFINE l == addUint32(valueLength(a))
               v == value(a)
    <2>1. l \in Seq(Byte) /\ v \in Seq(Byte) /\ addAttribute(a) = t \o (<<1>> \o (l \o v))
      BY <1>4, AttributeWritten
    <2>2. valueLength(a) \in 0 .. Null /\ valueLength(a) = RawLength(a)
      BY <1>4, LengthAnnounced
    <2>3. l \o v \in Seq(Byte) /\ <<1>> \o (l \o v) \in Seq(Byte)
      BY <1>2, <2>1, ConcatFacts
    <2>4. Decodes(r1, p, t, a.typ)
      BY <1>2, <2>1, <2>3, AgreesWithParts, Uint32Read
    <2> HIDE DEF r1, r2, r3, r4, t, l, v
    <2>5. ASSUME r1.ok PROVE Decodes(Both(r2, tail), Drop(p, Len(t)), <<1>> \o (l \o v), e)
      <3>1. r1.val = a.typ /\ r1.rest = Drop(p, Len(t)) /\ Agrees(r1.rest, <<1>> \o (l \o v))
        BY <1>2, <2>1, <2>3, <2>4, <2>5, ReadOn
      <3>2. Decodes(r2, r1.rest, <<1>>, 1)
        BY <1>2, <2>3, <3>1, AgreesWithParts, SmallBytes DEF r2
      <3>3. ASSUME r2.ok PROVE Decodes(tail, Drop(r1.rest, Len(<<1>>)), l \o v, e)
        <4>1. r2.val = 1 /\ r2.rest = Drop(r1.rest, Len(<<1>>)) /\ Agrees(r2.rest, l \o v)
          BY <1>2, <2>3, <3>1, <3>2, <3>3, ReadOn
        <4>2. tail = Both(r3, Both(r4, r5))
          BY <4>1
        <4>3. Decodes(r3, r2.rest, l, valueLength(a))
          BY <2>1, <2>2, <4>1, AgreesWithParts, Uint32Read DEF r3, l
        <4>4. ASSUME r3.ok PROVE Decodes(Both(r4, r5), Drop(r2.rest, Len(l)), v, e)
          <5>1. r3.val = valueLength(a) /\ r3.rest = Drop(r2.rest, Len(l)) /\ Agrees(r3.rest, v)
            BY <2>1, <4>1, <4>3, <4>4, ReadOn
          <5>2. Decodes(r4, r3.rest, v, a)
            BY <1>4, <3>1, <5>1, ValueRead DEF r4, v
          <5>3. r4.ok => r5 = Ok(e, r4.rest)
            BY <2>2, <3>1, <5>1, <5>2, Succeeds
          <5>4. Both(r4, r5) = Both(r4, Ok(e, r4.rest))
            BY <5>3 DEF Both
          <5> HIDE DEF e, r5
          <5> QED
            BY <5>1, <5>2, <5>4, Converted
        <4> HIDE DEF e, r5
        <4>5. Decodes(Both(r3, Both(r4, r5)), r2.rest, l \o v, e)
          BY <2>1, <4>1, <4>3, <4>4, Chain
        <4> QED
          BY <4>1, <4>2, <4>5
      <3> HIDE DEF tail, e
      <3>4. Decodes(Both(r2, tail), r1.rest, <<1>> \o (l \o v), e)
        BY <1>2, <2>3, <3>1, <3>2, <3>3, Chain
      <3> QED
        BY <3>1, <3>4
    <2> HIDE DEF tail, e
    <2> QED
      BY <1>1, <1>2, <2>1, <2>3, <2>4, <2>5, Chain DEF e
  <1> QED
    BY <1>3, <1>4

-----------------------------------------------------------------------------
\* Lists.

\* F[i] are the bytes of the first i parts of w.
Beginnings(w, F) ==
  /\ F \in [0 .. Len(w) -> Seq(Byte)] /\ F[0] = << >>
  /\ \A i \in 1 .. Len(w) : F[i] = F[i - 1] \o w[i]

LEMMA PrefixesExist ==
  ASSUME NEW w \in Seq(Seq(Byte))
  PROVE  \E F : Beginnings(w, F)
  <1> DEFINE part(i) == IF i \in 1 .. Len(w) THEN w[i] ELSE << >>
             more == [x \in Nat \X Seq(Byte) |-> x[2] \o part(x[1] + 1)]
  <1>1. << >> \in Seq(Byte) /\ \A i \in Nat : part(i) \in Seq(Byte)
    OBVIOUS
  <1> HIDE DEF part
  <1>2. PICK f : Solves(Seq(Byte), << >>, more, f)
    <2>1. more \in [Nat \X Seq(Byte) -> Seq(Byte)]
      <3>1. ASSUME NEW x \in Nat \X Seq(Byte) PROVE x[2] \o part(x[1] + 1) \in Seq(Byte)
        <4>1. x[1] + 1 \in Nat /\ x[2] \in Seq(Byte)
          OBVIOUS
        <4> QED
          BY <1>1, <4>1, ConcatFacts
      <3> QED
        BY <3>1
    <2> HIDE DEF more
    <2> QED
      BY <1>1, <2>1, Recursion
  <1>3. f \in [Nat -> Seq(Byte)] /\ f[0] = << >> /\ \A i \in Nat : f[i + 1] = more[<<i, f[i]>>]
    BY <1>2 DEF Solves
  <1>4. ASSUME NEW i \in 1 .. Len(w) PROVE f[i] = f[i - 1] \o w[i]
    <2>1. i - 1 \in Nat /\ (i - 1) + 1 = i /\ part(i) = w[i]
      BY DEF part
    <2>2. f[i] = more[<<i - 1, f[i - 1]>>]
      BY <1>3, <2>1
    <2> QED
      BY <1>3, <2>1, <2>2
  <1> DEFINE F == [i \in 0 .. Len(w) |-> f[i]]
  <1>5. F \in [0 .. Len(w) -> Seq(Byte)] /\ F[0] = << >>
    BY <1>3
  <1>6. ASSUME NEW i \in 1 .. Len(w) PROVE F[i] = F[i - 1] \o w[i]
    <2>1. F[i] = f[i] /\ F[i - 1] = f[i - 1]
      OBVIOUS
    <2> HIDE DEF F
    <2> QED
      BY <1>4, <2>1
  <1> HIDE DEF F
  <1>7. Beginnings(w, F)
    BY <1>5, <1>6 DEF Beginnings
  <1> QED
    BY <1>7

LEMMA EmptyBefore ==
  ASSUME NEW S, NEW a \in Seq(S)
  PROVE  << >> \o a = a
  OBVIOUS

LEMMA Flattened ==
  ASSUME NEW w \in Seq(Seq(Byte)), NEW F, Beginnings(w, F)
  PROVE  FlattenSeq(w) = F[Len(w)] /\ F[Len(w)] \in Seq(Byte)
  <1> DEFINE Eq(f) == f = [i \in 1 .. Len(w) |-> IF i = 1 THEN w[i] ELSE f[i - 1] \o w[i]]
             flatten == CHOOSE f : Eq(f)
             first == [i \in 1 .. Len(w) |-> F[i]]
  <1>0. Len(w) \in Nat /\ \A i \in 1 .. Len(w) : w[i] \in Seq(Byte)
    OBVIOUS
  <1>a. F[Len(w)] \in Seq(Byte)
    BY <1>0 DEF Beginnings
  <1>1. CASE Len(w) = 0
    <2>1. w = << >>
      BY <1>1
    <2>2. FlattenSeq(w) = w
      BY <1>1, Zenon DEF FlattenSeq
    <2> QED
      BY <1>a, <1>1, <2>1, <2>2 DEF Beginnings
  <1>2. CASE Len(w) # 0
    <2>1. ASSUME NEW i \in 1 .. Len(w) PROVE first[i] = IF i = 1 THEN w[i] ELSE first[i - 1] \o w[i]
      <3>1. F[i] = F[i - 1] \o w[i]
        BY DEF Beginnings
      <3>2. CASE i = 1
        <4>1. F[i - 1] = << >>
          BY <3>2 DEF Beginnings
        <4>2. << >> \o w[i] = w[i]
          BY <1>0, EmptyBefore
        <4> QED
          BY <3>1, <3>2, <4>1, <4>2
      <3>3. CASE i # 1
        <4>1. i - 1 \in 1 .. Len(w)
          BY <3>3
        <4> QED
          BY <3>1, <3>3, <4>1
      <3> QED
        BY <3>2, <3>3
    <2>2. Eq(first)
      <3>1. first = [i \in 1 .. Len(w) |-> first[i]]
        OBVIOUS
      <3> HIDE DEF first
      <3> QED
        BY <2>1, <3>1
    <2>3. Eq(flatten)
      <3> HIDE DEF Eq, first
      <3> QED
        BY <2>2
    <2>4. FlattenSeq(w) = flatten[Len(w)]
      BY <1>2, Zenon DEF FlattenSeq
    <2> HIDE DEF flatten
    <2>5. \A i \in 1 .. Len(w) : flatten[i] = IF i = 1 THEN w[i] ELSE flatten[i - 1] \o w[i]
      <3>1. flatten = [i \in 1 .. Len(w) |-> IF i = 1 THEN w[i] ELSE flatten[i - 1] \o w[i]]
        BY <2>3
      <3> HIDE DEF Eq
      <3> QED
        BY <3>1
    <2> HIDE DEF Eq
    <2> DEFINE P == {i \in 0 .. Len(w) : i # 0 => flatten[i] = first[i]}
    <2>6. 0 \in P
      BY <1>0
    <2>7. ASSUME NEW i \in P, i < Len(w) PROVE i + 1 \in P
      <3>1. i + 1 \in 1 .. Len(w) /\ (i + 1) - 1 = i /\ (i # 0 => flatten[i] = first[i])
        BY <1>0, <2>7
      <3> HIDE DEF first
      <3>2. flatten[i + 1] = first[i + 1]
        BY <2>1, <2>5, <3>1
      <3> QED
        BY <3>1, <3>2
    <2>8. P \in SUBSET (0 .. Len(w))
      OBVIOUS
    <2> HIDE DEF P
    <2>9. P = 0 .. Len(w)
      BY <1>0, <2>6, <2>7, <2>8, InductionTo
    <2>10. Len(w) \in P /\ Len(w) \in 1 .. Len(w)
      BY <1>0, <1>2, <2>9
    <2>11. flatten[Len(w)] = first[Len(w)]
      BY <1>2, <2>10 DEF P
    <2> QED
      BY <1>a, <2>4, <2>10, <2>11
  <1> QED
    BY <1>1, <1>2

\* Bytes that agree with all parts agree with every part, at its place.
LEMMA AgreesWithEach ==
  ASSUME NEW w \in Seq(Seq(Byte)), NEW F, Beginnings(w, F), NEW p, Agrees(p, F[Len(w)])
  PROVE  /\ \A i \in 0 .. Len(w) : Agrees(p, F[i])
         /\ \A i \in 1 .. Len(w) : Len(p) >= Len(F[i - 1]) => Agrees(Drop(p, Len(F[i - 1])), w[i])
  <1>0. Len(w) \in Nat /\ \A i \in 1 .. Len(w) : w[i] \in Seq(Byte)
    OBVIOUS
  <1>1. ASSUME NEW i \in 1 .. Len(w), Agrees(p, F[i])
        PROVE  Agrees(p, F[i - 1]) /\ (Len(p) >= Len(F[i - 1]) => Agrees(Drop(p, Len(F[i - 1])), w[i]))
    <2>0. i - 1 \in 0 .. Len(w)
      BY <1>0
    <2>1. F[i] = F[i - 1] \o w[i] /\ F[i - 1] \in Seq(Byte)
      BY <2>0 DEF Beginnings
    <2> QED
      BY <1>0, <1>1, <2>1, AgreesWithParts
  <1> DEFINE P == {i \in 0 .. Len(w) : Agrees(p, F[Len(w) - i])}
  <1>2. 0 \in P
    BY <1>0
  <1>3. ASSUME NEW i \in P, i < Len(w) PROVE i + 1 \in P
    <2>1. Len(w) - i \in 1 .. Len(w) /\ (Len(w) - i) - 1 = Len(w) - (i + 1) /\ i + 1 \in 0 .. Len(w)
      BY <1>0, <1>3
    <2>2. Agrees(p, F[(Len(w) - i) - 1])
      BY <1>1, <2>1
    <2> QED
      BY <2>1, <2>2
  <1>4. P \in SUBSET (0 .. Len(w))
    OBVIOUS
  <1> HIDE DEF P
  <1>5. P = 0 .. Len(w)
    BY <1>0, <1>2, <1>3, <1>4, InductionTo
  <1>6. ASSUME NEW i \in 0 .. Len(w) PROVE Agrees(p, F[i])
    <2>1. Len(w) - i \in P /\ Len(w) - (Len(w) - i) = i
      BY <1>0, <1>5
    <2> QED
      BY <2>1 DEF P
  <1> QED
    BY <1>0, <1>1, <1>6

\* What reading on with x makes of the list l.
OneMore(l, x) == Both(l, Both(x, Ok(Append(l.val, x.val), x.rest)))

LEMMA OneMoreRead ==
  ASSUME NEW a \in Seq(Byte), NEW b \in Seq(Byte), NEW p, Agrees(p, a \o b),
         NEW us, NEW v, NEW l, NEW x, Decodes(l, p, a, us),
         Agrees(l.rest, b) => Decodes(x, l.rest, b, v)
  PROVE  Decodes(OneMore(l, x), p, a \o b, Append(us, v))
  <1> DEFINE y == Both(x, Ok(Append(l.val, x.val), x.rest))
  <1>1. ASSUME l.ok PROVE Decodes(y, Drop(p, Len(a)), b, Append(us, v))
    <2>1. l.val = us /\ l.rest = Drop(p, Len(a)) /\ Agrees(l.rest, b)
      BY <1>1, ReadOn
    <2>2. Decodes(x, l.rest, b, v)
      BY <2>1
    <2>3. x.ok => x.val = v
      BY <2>2, Succeeds
    <2>4. y = Both(x, Ok(Append(us, v), x.rest))
      BY <2>1, <2>3 DEF Both
    <2> HIDE DEF y
    <2> QED
      BY <2>1, <2>2, <2>4, Converted
  <1> HIDE DEF y
  <1>2. Decodes(Both(l, y), p, a \o b, Append(us, v))
    BY <1>1, Chain
  <1> QED
    BY <1>2 DEF OneMore, y

\* g are the lists read one element at a time, rs[i] what was read as the i-th.
IsList(g, rs, p, n) ==
  g[0] = Ok(<< >>, p) /\ \A i \in 1 .. n : g[i] = OneMore(g[i - 1], rs[i])

ReadsEach(g, rs, w, v) ==
  \A i \in 1 .. Len(w) : Agrees(g[i - 1].rest, w[i]) => Decodes(rs[i], g[i - 1].rest, w[i], v[i])

\* f[i] is what must come of the first i elements.
Outcomes(f, p, F, v) ==
  f = [i \in 0 .. Len(v) |-> IF Len(p) < Len(F[i]) THEN Fail
                             ELSE Ok(SubSeq(v, 1, i), Drop(p, Len(F[i])))]

LEMMA OneLonger ==
  ASSUME NEW S, NEW v \in Seq(S), NEW i \in 1 .. Len(v)
  PROVE  SubSeq(v, 1, i) = Append(SubSeq(v, 1, i - 1), v[i])
  <1> DEFINE a == SubSeq(v, 1, i)
             b == SubSeq(v, 1, i - 1)
  <1>0. i \in Int /\ 1 <= i /\ i <= Len(v) /\ Len(v) \in Nat /\ v[i] \in S
    OBVIOUS
  <1>1. a \in Seq(S) /\ Len(a) = i /\ \A k \in 1 .. i : a[k] = v[k]
    BY <1>0
  <1>2. b \in Seq(S) /\ Len(b) = i - 1 /\ \A k \in 1 .. i - 1 : b[k] = v[k]
    BY <1>0
  <1> HIDE DEF a, b
  <1>3. /\ Append(b, v[i]) \in Seq(S) /\ Len(Append(b, v[i])) = i
        /\ \A k \in 1 .. i : Append(b, v[i])[k] = v[k]
    BY <1>0, <1>2
  <1>4. a = Append(b, v[i])
    BY <1>1, <1>3, SameSequence
  <1> QED
    BY <1>4 DEF a, b

LEMMA WholeSequence ==
  ASSUME NEW S, NEW v \in Seq(S)
  PROVE  SubSeq(v, 1, 0) = << >> /\ SubSeq(v, 1, Len(v)) = v
  <1>1. SubSeq(v, 1, 0) = << >>
    OBVIOUS
  <1>2. /\ SubSeq(v, 1, Len(v)) \in Seq(S) /\ Len(SubSeq(v, 1, Len(v))) = Len(v)
        /\ \A i \in 1 .. Len(v) : SubSeq(v, 1, Len(v))[i] = v[i]
    OBVIOUS
  <1> QED
    BY <1>1, <1>2, SameSequence

LEMMA DropNone ==
  ASSUME NEW S, NEW p \in Seq(S)
  PROVE  Drop(p, 0) = p /\ Drop(p, Len(p)) = << >>
  <1>1. Drop(p, 0) = p
    BY WholeSequence DEF Drop
  <1> QED
    BY <1>1 DEF Drop

\* Nothing was read at first, and all of p is left.
LEMMA ListBegins ==
  ASSUME NEW S, NEW v \in Seq(S), NEW p \in Seq(Byte)
  PROVE  Decodes(Ok(<< >>, p), p, << >>, SubSeq(v, 1, 0))
  <1>1. Len(<< >>) = 0 /\ ~(Len(p) < 0) /\ Drop(p, 0) = p /\ SubSeq(v, 1, 0) = << >>
    BY DropNone, WholeSequence
  <1> QED
    BY <1>1 DEF Decodes

\* The outcomes are a list, if each element is read.
LEMMA ListOutcome ==
  ASSUME NEW S, NEW v \in Seq(S), NEW w \in Seq(Seq(Byte)), Len(w) = Len(v),
         NEW F, Beginnings(w, F), NEW p, Agrees(p, F[Len(w)]),
         NEW f, Outcomes(f, p, F, v), NEW rs, ReadsEach(f, rs, w, v)
  PROVE  IsList(f, rs, p, Len(w))
  <1>0. Len(w) \in Nat /\ p \in Seq(Byte) /\ (\A i \in 1 .. Len(w) : w[i] \in Seq(Byte)) /\ F[0] = << >>
    BY DEF Agrees, Beginnings
  <1>1. \A i \in 0 .. Len(w) : Decodes(f[i], p, F[i], SubSeq(v, 1, i))
    BY DEF Outcomes, Decodes
  <1>2. f[0] = Ok(<< >>, p)
    <2>1. Decodes(f[0], p, << >>, SubSeq(v, 1, 0)) /\ Decodes(Ok(<< >>, p), p, << >>, SubSeq(v, 1, 0))
      BY <1>0, <1>1, ListBegins
    <2> QED
      BY <2>1 DEF Decodes
  <1>3. ASSUME NEW i \in 1 .. Len(w) PROVE f[i] = OneMore(f[i - 1], rs[i])
    <2>1. i - 1 \in 0 .. Len(w) /\ i \in 0 .. Len(w)
      BY <1>0
    <2>2. F[i] = F[i - 1] \o w[i] /\ F[i - 1] \in Seq(Byte) /\ Agrees(p, F[i])
      BY <2>1, AgreesWithEach DEF Beginnings
    <2>3. Decodes(f[i - 1], p, F[i - 1], SubSeq(v, 1, i - 1))
      BY <1>1, <2>1
    <2>4. Agrees(f[i - 1].rest, w[i]) => Decodes(rs[i], f[i - 1].rest, w[i], v[i])
      BY DEF ReadsEach
    <2>5. Decodes(OneMore(f[i - 1], rs[i]), p, F[i - 1] \o w[i], Append(SubSeq(v, 1, i - 1), v[i]))
      BY <1>0, <2>2, <2>3, <2>4, OneMoreRead
    <2>6. SubSeq(v, 1, i) = Append(SubSeq(v, 1, i - 1), v[i])
      BY OneLonger
    <2>7. Decodes(f[i], p, F[i], SubSeq(v, 1, i))
      BY <1>1, <2>1
    <2> QED
      BY <2>2, <2>5, <2>6, <2>7 DEF Decodes
  <1> QED
    BY <1>2, <1>3 DEF IsList

\* A list whose elements are read is read as a whole.
LEMMA ListRead ==
  ASSUME NEW S, NEW v \in Seq(S), NEW w \in Seq(Seq(Byte)), Len(w) = Len(v),
         NEW F, Beginnings(w, F), NEW p, Agrees(p, F[Len(w)]),
         NEW g, NEW rs, IsList(g, rs, p, Len(w)), ReadsEach(g, rs, w, v)
  PROVE  Decodes(g[Len(w)], p, F[Len(w)], v)
  <1>0. Len(w) \in Nat /\ p \in Seq(Byte) /\ (\A i \in 1 .. Len(w) : w[i] \in Seq(Byte)) /\ F[0] = << >>
    BY DEF Agrees, Beginnings
  <1> DEFINE P == {i \in 0 .. Len(w) : Decodes(g[i], p, F[i], SubSeq(v, 1, i))}
  <1>1. 0 \in P
    <2>1. Decodes(g[0], p, F[0], SubSeq(v, 1, 0))
      BY <1>0, ListBegins DEF IsList
    <2> QED
      BY <1>0, <2>1
  <1>2. ASSUME NEW j \in P, j < Len(w) PROVE j + 1 \in P
    <2>0. PICK i : i = j + 1
      OBVIOUS
    <2>1. i - 1 \in 0 .. Len(w) /\ i \in 0 .. Len(w) /\ i \in 1 .. Len(w) /\ i - 1 = j
      BY <1>0, <1>2, <2>0
    <2>2. F[i] = F[i - 1] \o w[i] /\ F[i - 1] \in Seq(Byte) /\ Agrees(p, F[i])
      BY <2>1, AgreesWithEach DEF Beginnings
    <2>3. Decodes(g[i - 1], p, F[i - 1], SubSeq(v, 1, i - 1))
      BY <2>1
    <2>4. Agrees(g[i - 1].rest, w[i]) => Decodes(rs[i], g[i - 1].rest, w[i], v[i])
      BY <2>1 DEF ReadsEach
    <2>5. Decodes(OneMore(g[i - 1], rs[i]), p, F[i - 1] \o w[i], Append(SubSeq(v, 1, i - 1), v[i]))
      BY <1>0, <2>1, <2>2, <2>3, <2>4, OneMoreRead
    <2>6. SubSeq(v, 1, i) = Append(SubSeq(v, 1, i - 1), v[i])
      BY <2>1, OneLonger
    <2>7. g[i] = OneMore(g[i - 1], rs[i])
      BY <2>1 DEF IsList
    <2>8. Decodes(g[i], p, F[i], SubSeq(v, 1, i))
      BY <2>2, <2>5, <2>6, <2>7
    <2> QED
      BY <2>0, <2>1, <2>8
  <1>3. P \in SUBSET (0 .. Len(w))
    OBVIOUS
  <1> HIDE DEF P
  <1>4. P = 0 .. Len(w)
    BY <1>0, <1>1, <1>2, <1>3, InductionTo
  <1>5. Decodes(g[Len(w)], p, F[Len(w)], SubSeq(v, 1, Len(v)))
    BY <1>0, <1>4 DEF P
  <1> QED
    BY <1>5, WholeSequence

\* The lists of the messages: attributes, ...
Entries(w, v) ==
  \A i \in 1 .. Len(v) : \A p : Agrees(p, w[i]) => Decodes(attribute(p), p, w[i], v[i])

LEMMA AttributesRead ==
  ASSUME NEW S, NEW v \in Seq(S), NEW w \in Seq(Seq(Byte)), Len(w) = Len(v), Entries(w, v)
  PROVE  /\ FlattenSeq(w) \in Seq(Byte)
         /\ \A p : Agrees(p, FlattenSeq(w)) =>
              Decodes(Repeat(Len(v), attribute, p), p, FlattenSeq(w), v)
  <1>1. w \in Seq(Seq(Byte)) /\ Len(w) = Len(v) /\ Len(v) \in Nat
    OBVIOUS
  <1>2. PICK F : Beginnings(w, F)
    BY <1>1, PrefixesExist
  <1>3. FlattenSeq(w) = F[Len(w)] /\ F[Len(w)] \in Seq(Byte)
    BY <1>1, <1>2, Flattened
  <1>4. ASSUME NEW p, Agrees(p, F[Len(w)])
        PROVE  Decodes(Repeat(Len(v), attribute, p), p, F[Len(w)], v)
    <2> DEFINE n == Len(v)
               Eq(g) == g = [i \in 0 .. n |-> IF i = 0 THEN Ok(<< >>, p)
                                              ELSE OneMore(g[i - 1], attribute(g[i - 1].rest))]
               list == CHOOSE g : Eq(g)
               Rs(g) == [i \in 1 .. n |-> attribute(g[i - 1].rest)]
    <2>1. Repeat(n, attribute, p) = list[n]
      BY Zenon DEF Repeat, OneMore, Then, Both
    <2>2. \A g : ReadsEach(g, Rs(g), w, v)
      BY <1>1 DEF ReadsEach, Entries
    <2>3. PICK f : Outcomes(f, p, F, v)
      BY DEF Outcomes
    <2>4. IsList(f, Rs(f), p, n)
      <3> HIDE DEF Rs
      <3> QED
        BY <1>1, <1>2, <1>4, <2>2, <2>3, ListOutcome
    <2>5. Eq(f)
      <3>1. f = [i \in 0 .. n |-> f[i]]
        BY <2>3 DEF Outcomes
      <3>2. \A i \in 0 .. n : f[i] = IF i = 0 THEN Ok(<< >>, p) ELSE OneMore(f[i - 1], attribute(f[i - 1].rest))
        BY <1>1, <2>4 DEF IsList
      <3> QED
        BY <3>1, <3>2
    <2>6. Eq(list)
      <3> HIDE DEF Eq
      <3> QED
        BY <2>5
    <2> HIDE DEF list
    <2>7. IsList(list, Rs(list), p, n)
      <3>1. n \in Nat
        BY <1>1
      <3> HIDE DEF n
      <3>2. /\ list[0] = Ok(<< >>, p)
            /\ \A i \in 1 .. n : list[i] = OneMore(list[i - 1], attribute(list[i - 1].rest))
        BY <2>6, <3>1
      <3>3. \A i \in 1 .. n : Rs(list)[i] = attribute(list[i - 1].rest)
        OBVIOUS
      <3> HIDE DEF Rs
      <3> QED
        BY <3>2, <3>3 DEF IsList
    <2> HIDE DEF Rs
    <2> QED
      BY <1>1, <1>2, <1>4, <2>1, <2>2, <2>7, ListRead
  <1> QED
    BY <1>3, <1>4

\* A template entry as the client announces it.
LEMMA TemplateRead ==
  ASSUME NEW a \in [typ : 0 .. Null, len : 0 .. Null],
         NEW w, w = addUint32(a.typ) \o addUint32(a.len)
  PROVE  w \in Seq(Byte) /\ \A p : Agrees(p, w) => Decodes(readTemplate(p), p, w, a)
  <1> DEFINE t == addUint32(a.typ)
             l == addUint32(a.len)
  <1>1. a.typ \in 0 .. Null /\ a.len \in 0 .. Null /\ a = [typ |-> a.typ, len |-> a.len]
    OBVIOUS
  <1>2. t \in Seq(Byte) /\ l \in Seq(Byte) /\ t \o l \in Seq(Byte) /\ w = t \o l
    BY <1>1, Uint32Written, Sizes, ConcatFacts
  <1>3. ASSUME NEW p, Agrees(p, t \o l) PROVE Decodes(readTemplate(p), p, t \o l, a)
    <2> DEFINE r1 == uint32(p)
               r2 == uint32(r1.rest)
               r3 == Ok([typ |-> r1.val, len |-> r2.val], r2.rest)
    <2>1. readTemplate(p) = Both(r1, Both(r2, r3))
      BY DEF readTemplate, Then, Both
    <2>2. Decodes(r1, p, t, a.typ)
      BY <1>1, <1>2, <1>3, AgreesWithParts, Uint32Read
    <2> HIDE DEF r1, r2, t, l
    <2>3. ASSUME r1.ok PROVE Decodes(Both(r2, r3), Drop(p, Len(t)), l, a)
      <3>1. r1.val = a.typ /\ r1.rest = Drop(p, Len(t)) /\ Agrees(r1.rest, l)
        BY <1>2, <1>3, <2>2, <2>3, ReadOn
      <3>2. Decodes(r2, r1.rest, l, a.len)
        BY <1>1, <3>1, Uint32Read DEF r2, l
      <3>3. r2.ok => r3 = Ok(a, r2.rest)
        BY <1>1, <3>1, <3>2, Succeeds
      <3>4. Both(r2, r3) = Both(r2, Ok(a, r2.rest))
        BY <3>3 DEF Both
      <3> HIDE DEF r3
      <3> QED
        BY <3>1, <3>2, <3>4, Converted
    <2> HIDE DEF r3
    <2> QED
      BY <1>2, <1>3, <2>1, <2>2, <2>3, Chain
  <1> QED
    BY <1>2, <1>3

\* ... template entries, ...
LEMMA TemplatesRead ==
  ASSUME NEW S, NEW v \in Seq(S), \A i \in 1 .. Len(v) : v[i] \in [typ : 0 .. Null, len : 0 .. Null],
         NEW w, w = [i \in 1 .. Len(v) |-> addUint32(v[i].typ) \o addUint32(v[i].len)]
  PROVE  /\ FlattenSeq(w) \in Seq(Byte)
         /\ \A p : Agrees(p, FlattenSeq(w)) =>
              Decodes(Repeat(Len(v), readTemplate, p), p, FlattenSeq(w), v)
  <1>1. w \in Seq(Seq(Byte)) /\ Len(w) = Len(v) /\ Len(v) \in Nat
    <2>1. \A i \in 1 .. Len(v) : addUint32(v[i].typ) \o addUint32(v[i].len) \in Seq(Byte)
      BY TemplateRead
    <2> QED
      BY <2>1
  <1>2. PICK F : Beginnings(w, F)
    BY <1>1, PrefixesExist
  <1>3. FlattenSeq(w) = F[Len(w)] /\ F[Len(w)] \in Seq(Byte)
    BY <1>1, <1>2, Flattened
  <1>4. ASSUME NEW p, Agrees(p, F[Len(w)])
        PROVE  Decodes(Repeat(Len(v), readTemplate, p), p, F[Len(w)], v)
    <2> DEFINE n == Len(v)
               Eq(g) == g = [i \in 0 .. n |-> IF i = 0 THEN Ok(<< >>, p)
                                              ELSE OneMore(g[i - 1], readTemplate(g[i - 1].rest))]
               list == CHOOSE g : Eq(g)
               Rs(g) == [i \in 1 .. n |-> readTemplate(g[i - 1].rest)]
    <2>1. Repeat(n, readTemplate, p) = list[n]
      BY Zenon DEF Repeat, OneMore, Then, Both
    <2>2. \A g : ReadsEach(g, Rs(g), w, v)
      BY <1>1, TemplateRead DEF ReadsEach
    <2>3. PICK f : Outcomes(f, p, F, v)
      BY DEF Outcomes
    <2>4. IsList(f, Rs(f), p, n)
      <3> HIDE DEF Rs
      <3> QED
        BY <1>1, <1>2, <1>4, <2>2, <2>3, ListOutcome
    <2>5. Eq(f)
      <3>1. f = [i \in 0 .. n |-> f[i]]
        BY <2>3 DEF Outcomes
      <3>2. \A i \in 0 .. n : f[i] = IF i = 0 THEN Ok(<< >>, p) ELSE OneMore(f[i - 1], readTemplate(f[i - 1].rest))
        BY <1>1, <2>4 DEF IsList
      <3> QED
        BY <3>1, <3>2
    <2>6. Eq(list)
      <3> HIDE DEF Eq
      <3> QED
        BY <2>5
    <2> HIDE DEF list
    <2>7. IsList(list, Rs(list), p, n)
      <3>1. list[0] = Ok(<< >>, p)
        BY <1>1, <2>6
      <3>2. ASSUME NEW i \in 1 .. n PROVE list[i] = OneMore(list[i - 1], Rs(list)[i])
        <4>1. i \in 0 .. n /\ i # 0 /\ Rs(list)[i] = readTemplate(list[i - 1].rest)
          BY <1>1
        <4> HIDE DEF Rs, n
        <4> QED
          BY Zenon, <2>6, <4>1
      <3> QED
        BY <3>1, <3>2 DEF IsList
    <2> HIDE DEF Rs
    <2> QED
      BY <1>1, <1>2, <1>4, <2>1, <2>2, <2>7, ListRead
  <1> QED
    BY <1>3, <1>4

\* ... numbers, ...
LEMMA UlongsRead ==
  ASSUME NEW S, NEW v \in Seq(S), \A i \in 1 .. Len(v) : v[i] \in Ulong,
         NEW w, w = [i \in 1 .. Len(v) |-> addUint64(v[i])]
  PROVE  /\ FlattenSeq(w) \in Seq(Byte)
         /\ \A p : Agrees(p, FlattenSeq(w)) =>
              Decodes(Repeat(Len(v), uint64, p), p, FlattenSeq(w), v)
  <1>1. w \in Seq(Seq(Byte)) /\ Len(w) = Len(v) /\ Len(v) \in Nat
    BY Uint64Read
  <1>2. PICK F : Beginnings(w, F)
    BY <1>1, PrefixesExist
  <1>3. FlattenSeq(w) = F[Len(w)] /\ F[Len(w)] \in Seq(Byte)
    BY <1>1, <1>2, Flattened
  <1>4. ASSUME NEW p, Agrees(p, F[Len(w)])
        PROVE  Decodes(Repeat(Len(v), uint64, p), p, F[Len(w)], v)
    <2> DEFINE n == Len(v)
               Eq(g) == g = [i \in 0 .. n |-> IF i = 0 THEN Ok(<< >>, p)
                                              ELSE OneMore(g[i - 1], uint64(g[i - 1].rest))]
               list == CHOOSE g : Eq(g)
               Rs(g) == [i \in 1 .. n |-> uint64(g[i - 1].rest)]
    <2>1. Repeat(n, uint64, p) = list[n]
      BY Zenon DEF Repeat, OneMore, Then, Both
    <2>2. \A g : ReadsEach(g, Rs(g), w, v)
      BY <1>1, Uint64Read DEF ReadsEach
    <2>3. PICK f : Outcomes(f, p, F, v)
      BY DEF Outcomes
    <2>4. IsList(f, Rs(f), p, n)
      <3> HIDE DEF Rs
      <3> QED
        BY <1>1, <1>2, <1>4, <2>2, <2>3, ListOutcome
    <2>5. Eq(f)
      <3>1. f = [i \in 0 .. n |-> f[i]]
        BY <2>3 DEF Outcomes
      <3>2. \A i \in 0 .. n : f[i] = IF i = 0 THEN Ok(<< >>, p) ELSE OneMore(f[i - 1], uint64(f[i - 1].rest))
        BY <1>1, <2>4 DEF IsList
      <3> QED
        BY <3>1, <3>2
    <2>6. Eq(list)
      <3> HIDE DEF Eq
      <3> QED
        BY <2>5
    <2> HIDE DEF list
    <2>7. IsList(list, Rs(list), p, n)
      BY <1>1, <2>6 DEF IsList
    <2> HIDE DEF Rs
    <2> QED
      BY <1>1, <1>2, <1>4, <2>1, <2>2, <2>7, ListRead
  <1> QED
    BY <1>3, <1>4

\* ... attributes as the client reads them, ...
LEMMA ClientAttributesRead ==
  ASSUME NEW S, NEW v \in Seq(S), \A i \in 1 .. Len(v) : IsAttribute(v[i]),
         NEW w, w = [i \in 1 .. Len(v) |-> addAttribute(v[i])],
         NEW T, NEW x \in Seq(T), Len(x) = Len(v), \A i \in 1 .. Len(v) :
           x[i] = [typ |-> v[i].typ, val |-> v[i].val, len |-> RawLength(v[i])]
  PROVE  /\ FlattenSeq(w) \in Seq(Byte)
         /\ \A p : Agrees(p, FlattenSeq(w)) =>
              Decodes(Repeat(Len(v), ClientAttribute, p), p, FlattenSeq(w), x)
  <1>1. w \in Seq(Seq(Byte)) /\ Len(w) = Len(v) /\ Len(v) \in Nat
    BY AttributeWritten
  <1>2. PICK F : Beginnings(w, F)
    BY <1>1, PrefixesExist
  <1>3. FlattenSeq(w) = F[Len(w)] /\ F[Len(w)] \in Seq(Byte)
    BY <1>1, <1>2, Flattened
  <1>4. ASSUME NEW p, Agrees(p, F[Len(w)])
        PROVE  Decodes(Repeat(Len(v), ClientAttribute, p), p, F[Len(w)], x)
    <2> DEFINE n == Len(v)
               Eq(g) == g = [i \in 0 .. n |-> IF i = 0 THEN Ok(<< >>, p)
                                              ELSE OneMore(g[i - 1], ClientAttribute(g[i - 1].rest))]
               list == CHOOSE g : Eq(g)
               Rs(g) == [i \in 1 .. n |-> ClientAttribute(g[i - 1].rest)]
    <2>1. Repeat(n, ClientAttribute, p) = list[n]
      BY Zenon DEF Repeat, OneMore, Then, Both
    <2>2. \A g : ReadsEach(g, Rs(g), w, x)
      BY <1>1, ClientAttributeRead DEF ReadsEach
    <2>3. PICK f : Outcomes(f, p, F, x)
      BY DEF Outcomes
    <2>4. IsList(f, Rs(f), p, n)
      <3> HIDE DEF Rs
      <3> QED
        BY <1>1, <1>2, <1>4, <2>2, <2>3, ListOutcome
    <2>5. Eq(f)
      <3>1. f = [i \in 0 .. n |-> f[i]]
        BY <2>3 DEF Outcomes
      <3>2. \A i \in 0 .. n : f[i] = IF i = 0 THEN Ok(<< >>, p) ELSE OneMore(f[i - 1], ClientAttribute(f[i - 1].rest))
        BY <1>1, <2>4 DEF IsList
      <3> QED
        BY <3>1, <3>2
    <2>6. Eq(list)
      <3> HIDE DEF Eq
      <3> QED
        BY <2>5
    <2> HIDE DEF list
    <2>7. IsList(list, Rs(list), p, n)
      BY <1>1, <2>6 DEF IsList
    <2> HIDE DEF Rs
    <2> QED
      BY <1>1, <1>2, <1>4, <2>1, <2>2, <2>7, ListRead
  <1> QED
    BY <1>3, <1>4

\* ... and the elements of a response.
LEMMA ClientDecodesAll ==
  ASSUME NEW S, NEW v \in Seq(S), NEW w \in Seq(Seq(Byte)), Len(w) = Len(v), Len(elements) = Len(v),
         \A i \in 1 .. Len(v) : \A q : Agrees(q, w[i]) =>
           Decodes(ClientReads(elements[i], q), q, w[i], v[i])
  PROVE  /\ FlattenSeq(w) \in Seq(Byte)
         /\ \A p : Agrees(p, FlattenSeq(w)) => Decodes(ClientDecodes(p), p, FlattenSeq(w), v)
  <1>1. Len(w) = Len(v) /\ Len(v) \in Nat
    OBVIOUS
  <1>2. PICK F : Beginnings(w, F)
    BY <1>1, PrefixesExist
  <1>3. FlattenSeq(w) = F[Len(w)] /\ F[Len(w)] \in Seq(Byte)
    BY <1>1, <1>2, Flattened
  <1>4. ASSUME NEW p, Agrees(p, F[Len(w)])
        PROVE  Decodes(ClientDecodes(p), p, F[Len(w)], v)
    <2> DEFINE n == Len(elements)
               Eq(g) == g = [i \in 0 .. n |-> IF i = 0 THEN Ok(<< >>, p)
                                              ELSE OneMore(g[i - 1], ClientReads(elements[i], g[i - 1].rest))]
               list == CHOOSE g : Eq(g)
               Rs(g) == [i \in 1 .. n |-> ClientReads(elements[i], g[i - 1].rest)]
    <2>1. ClientDecodes(p) = list[n]
      BY Zenon DEF ClientDecodes, OneMore, Then, Both
    <2>2. \A g : ReadsEach(g, Rs(g), w, v)
      BY <1>1 DEF ReadsEach
    <2>3. PICK f : Outcomes(f, p, F, v)
      BY DEF Outcomes
    <2>4. IsList(f, Rs(f), p, n)
      <3> HIDE DEF Rs
      <3> QED
        BY <1>1, <1>2, <1>4, <2>2, <2>3, ListOutcome
    <2>5. Eq(f)
      <3>1. f = [i \in 0 .. n |-> f[i]]
        BY <2>3 DEF Outcomes
      <3>2. \A i \in 0 .. n : f[i] = IF i = 0 THEN Ok(<< >>, p) ELSE OneMore(f[i - 1], ClientReads(elements[i], f[i - 1].rest))
        BY <1>1, <2>4 DEF IsList
      <3> QED
        BY <3>1, <3>2
    <2>6. Eq(list)
      <3> HIDE DEF Eq
      <3> QED
        BY <2>5
    <2> HIDE DEF list
    <2>7. IsList(list, Rs(list), p, n)
      BY <1>1, <2>6 DEF IsList
    <2> HIDE DEF Rs
    <2> QED
      BY <1>1, <1>2, <1>4, <2>1, <2>2, <2>7, ListRead
  <1> QED
    BY <1>3, <1>4

-----------------------------------------------------------------------------
\* The elements of messages.

\* A number before something.
LEMMA Counted ==
  ASSUME NEW n \in 0 .. Null, NEW b \in Seq(Byte), NEW p, Agrees(p, addUint32(n) \o b), NEW v, NEW r,
         uint32(p).val = n /\ Agrees(uint32(p).rest, b) => Decodes(r, uint32(p).rest, b, v)
  PROVE  Decodes(Both(uint32(p), r), p, addUint32(n) \o b, v)
  <1>1. n \in Nat /\ addUint32(n) \in Seq(Byte)
    BY Uint32Written, Sizes
  <1>2. Decodes(uint32(p), p, addUint32(n), n)
    BY <1>1, AgreesWithParts, Uint32Read
  <1> QED
    BY <1>1, <1>2, Sequenced

\* A byte before something.
LEMMA Flagged ==
  ASSUME NEW x \in Byte, NEW b \in Seq(Byte), NEW p, Agrees(p, <<x>> \o b), NEW v, NEW r,
         byte(p).val = x /\ Agrees(byte(p).rest, b) => Decodes(r, byte(p).rest, b, v)
  PROVE  Decodes(Both(byte(p), r), p, <<x>> \o b, v)
  <1>1. <<x>> \in Seq(Byte)
    OBVIOUS
  <1>2. Decodes(byte(p), p, <<x>>, x)
    BY <1>1, AgreesWithParts, ByteRead
  <1> QED
    BY <1>1, <1>2, Sequenced

\* What is read becomes v if it is u.
LEMMA Becomes ==
  ASSUME NEW p, NEW w, NEW u, NEW v, NEW r, Decodes(r, p, w, u), NEW x, r.val = u => x = v
  PROVE  Decodes(Both(r, Ok(x, r.rest)), p, w, v)
  <1>1. r.ok => r.val = u
    BY Succeeds
  <1>2. Both(r, Ok(x, r.rest)) = Both(r, Ok(v, r.rest))
    BY <1>1 DEF Both
  <1> QED
    BY <1>2, Converted

\* No sequence of numbers is Nil.
LEMMA NilApart ==
  ASSUME NEW a
  PROVE  (a \in Seq(Byte) \/ a \in Seq(Ulong)) => a # Nil
  <1>1. \A x : (x \in Byte \/ x \in Ulong) => x \in Nat
    BY Sizes DEF Byte, Ulong
  <1>2. ASSUME a \in Seq(Byte) PROVE a \in Seq(Nat)
    BY <1>1, <1>2
  <1>3. ASSUME a \in Seq(Ulong) PROVE a \in Seq(Nat)
    BY <1>1, <1>3
  <1> QED
    BY <1>2, <1>3, BufferAssumption

\* Byte arrays, with the size of the client's buffer in place of none.
LEMMA ElementByteArray ==
  ASSUME NEW v, Fits("ay", v)
  PROVE  /\ writeByteArray(v) \in Seq(Byte)
         /\ \A p : Agrees(p, writeByteArray(v)) => Decodes(readByteArray(p), p, writeByteArray(v), v)
  <1> DEFINE full(r) == Ok([arr |-> byteArray(r).val, n |-> 0], byteArray(r).rest)
             none(r) == Ok([arr |-> Nil, n |-> uint32(r).val], uint32(r).rest)
             tail(x, r) == IF x # 0 THEN Both(byteArray(r), full(r)) ELSE Both(uint32(r), none(r))
  <1>1. \A p : readByteArray(p) = Both(byte(p), tail(byte(p).val, byte(p).rest))
    BY DEF readByteArray, Then, Both
  <1>2. \/ v = [arr |-> Nil, n |-> v.n] /\ v.n \in 0 .. Null
        \/ v = [arr |-> v.arr, n |-> 0] /\ IsArray(v.arr)
    BY DEF Fits
  <1>3. CASE v.arr = Nil /\ v = [arr |-> Nil, n |-> v.n] /\ v.n \in 0 .. Null
    <2> DEFINE b == addUint32(v.n)
    <2>1. writeByteArray(v) = <<0>> \o b
      BY <1>3 DEF writeByteArray
    <2>2. b \in Seq(Byte) /\ <<0>> \o b \in Seq(Byte)
      BY <1>3, Uint32Written, Sizes, SmallBytes, ConcatFacts
    <2>3. ASSUME NEW q, Agrees(q, b) PROVE Decodes(tail(0, q), q, b, v)
      <3>1. Decodes(uint32(q), q, b, v.n)
        BY <1>3, <2>3, Uint32Read
      <3>2. uint32(q).val = v.n => [arr |-> Nil, n |-> uint32(q).val] = v
        BY <1>3
      <3>3. Decodes(Both(uint32(q), none(q)), q, b, v)
        BY <3>1, <3>2, Becomes
      <3> QED
        BY <3>3
    <2> HIDE DEF tail, b
    <2>4. ASSUME NEW p, Agrees(p, << 0 >> \o b)
          PROVE  Decodes(Both(byte(p), tail(byte(p).val, byte(p).rest)), p, <<0>> \o b, v)
      BY <2>2, <2>3, <2>4, Flagged, SmallBytes
    <2> QED
      BY <1>1, <2>1, <2>2, <2>4
  <1>4. CASE v.arr # Nil /\ v = [arr |-> v.arr, n |-> 0] /\ IsArray(v.arr)
    <2> DEFINE b == addByteArray(v.arr)
    <2>1. writeByteArray(v) = <<1>> \o b
      BY <1>4 DEF writeByteArray
    <2>2. b \in Seq(Byte) /\ <<1>> \o b \in Seq(Byte)
      BY <1>4, ByteArrayRead, SmallBytes, ConcatFacts
    <2>3. ASSUME NEW q, Agrees(q, b) PROVE Decodes(tail(1, q), q, b, v)
      <3>1. Decodes(byteArray(q), q, b, v.arr)
        BY <1>4, <2>3, ByteArrayRead
      <3>2. byteArray(q).val = v.arr => [arr |-> byteArray(q).val, n |-> 0] = v
        BY <1>4
      <3>3. Decodes(Both(byteArray(q), full(q)), q, b, v)
        BY <3>1, <3>2, Becomes
      <3> QED
        BY <3>3
    <2> HIDE DEF tail, b
    <2>4. ASSUME NEW p, Agrees(p, << 1 >> \o b)
          PROVE  Decodes(Both(byte(p), tail(byte(p).val, byte(p).rest)), p, <<1>> \o b, v)
      BY <2>2, <2>3, <2>4, Flagged, SmallBytes
    <2> QED
      BY <1>1, <2>1, <2>2, <2>4
  <1>5. IsArray(v.arr) => v.arr # Nil
    BY NilApart DEF IsArray
  <1> QED
    BY <1>2, <1>3, <1>4, <1>5

\* Padded strings.
LEMMA ElementString ==
  ASSUME NEW v, Fits("s", v)
  PROVE  /\ writeString(v) \in Seq(Byte)
         /\ \A p : Agrees(p, writeString(v)) => Decodes(ClientReads("s", p), p, writeString(v), Expected("s", v))
  <1> DEFINE b == [i \in 1 .. v.n |-> IF i <= Len(v.s) THEN v.s[i] ELSE Space]
  <1>1. v.s \in Seq(Byte) /\ v.n \in 0 .. Null
    BY DEF Fits
  <1>2. b \in Seq(Byte) /\ Len(b) = v.n /\ v.n \in Nat
    <2>1. \A i \in 1 .. v.n : (IF i <= Len(v.s) THEN v.s[i] ELSE Space) \in Byte
      <3>1. \A i \in 1 .. Len(v.s) : v.s[i] \in Byte
        BY <1>1, Elements
      <3> QED
        BY <1>1, <3>1, Sizes, CodecAssumption
    <2>2. v.n \in Nat
      BY <1>1, Sizes
    <2> QED
      BY <2>1, <2>2
  <1>3. writeString(v) = addUint32(v.n) \o b /\ Expected("s", v) = b
    BY DEF writeString, Expected
  <1>4. \A p : ClientReads("s", p) = Both(uint32(p), Take(uint32(p).rest, uint32(p).val))
    BY DEF ClientReads, Then, Both
  <1> HIDE DEF b
  <1>5. addUint32(v.n) \o b \in Seq(Byte)
    BY <1>1, <1>2, Uint32Written, ConcatFacts
  <1>6. ASSUME NEW q, NEW n, n = v.n, Agrees(q, b) PROVE Decodes(Take(q, n), q, b, b)
    BY <1>2, <1>6, TakeRead
  <1>7. ASSUME NEW p, Agrees(p, addUint32(v.n) \o b)
        PROVE  Decodes(Both(uint32(p), Take(uint32(p).rest, uint32(p).val)), p, addUint32(v.n) \o b, b)
    BY <1>1, <1>2, <1>6, <1>7, Counted
  <1> QED
    BY <1>3, <1>4, <1>5, <1>7

\* Template entries.
LEMMA ElementAttributes ==
  ASSUME NEW v, Fits("aA", v)
  PROVE  /\ writeAttributeArray(v) \in Seq(Byte)
         /\ \A p : Agrees(p, writeAttributeArray(v)) =>
              Decodes(ClientReads("aA", p), p, writeAttributeArray(v), Expected("aA", v))
  <1> DEFINE w == [i \in 1 .. Len(v) |-> addAttribute(v[i])]
             b == FlattenSeq(w)
             S == {v[i] : i \in DOMAIN v}
             e == Expected("aA", v)
  <1>1. v \in Seq(S) /\ Len(v) < Null /\ \A i \in DOMAIN v : IsAttribute(v[i])
    BY DEF Fits
  <1> HIDE DEF S
  <1>2. Len(v) \in 0 .. Null /\ Len(v) \in Nat /\ DOMAIN v = 1 .. Len(v)
    BY <1>1, Sizes
  <1>3. writeAttributeArray(v) = addUint32(Len(v)) \o b
    BY <1>2 DEF writeAttributeArray
  <1>4. e = [i \in 1 .. Len(v) |-> [typ |-> v[i].typ, val |-> v[i].val, len |-> RawLength(v[i])]]
    BY <1>2 DEF Expected
  <1>5. PICK T : T = {e[i] : i \in 1 .. Len(v)}
    OBVIOUS
  <1>6. e \in Seq(T) /\ Len(e) = Len(v)
    <2>1. \A i \in 1 .. Len(v) : [typ |-> v[i].typ, val |-> v[i].val, len |-> RawLength(v[i])] \in T
      BY <1>4, <1>5
    <2> HIDE DEF e
    <2> QED
      BY <1>2, <1>4, <2>1
  <1>7. \A i \in 1 .. Len(v) : e[i] = [typ |-> v[i].typ, val |-> v[i].val, len |-> RawLength(v[i])]
    BY <1>4
  <1> HIDE DEF e
  <1>8. /\ b \in Seq(Byte)
        /\ \A q : Agrees(q, b) => Decodes(Repeat(Len(v), ClientAttribute, q), q, b, e)
    BY <1>1, <1>2, <1>6, <1>7, ClientAttributesRead
  <1>9. \A p : ClientReads("aA", p) = Both(uint32(p), Repeat(uint32(p).val, ClientAttribute, uint32(p).rest))
    BY DEF ClientReads, Then, Both
  <1> HIDE DEF b
  <1>10. addUint32(Len(v)) \o b \in Seq(Byte)
    BY <1>2, <1>8, Uint32Written, ConcatFacts
  <1>11. ASSUME NEW p, Agrees(p, addUint32(Len(v)) \o b)
         PROVE  Decodes(ClientReads("aA", p), p, addUint32(Len(v)) \o b, e)
    <2>1. PICK r : r = Repeat(uint32(p).val, ClientAttribute, uint32(p).rest)
      OBVIOUS
    <2>2. uint32(p).val = Len(v) /\ Agrees(uint32(p).rest, b) => Decodes(r, uint32(p).rest, b, e)
      BY <1>8, <2>1
    <2> QED
      BY <1>2, <1>8, <1>9, <1>11, <2>1, <2>2, Counted
  <1> QED
    BY <1>3, <1>10, <1>11 DEF e

\* Template entries of a client, of any style.
LEMMA RequestAttributes ==
  ASSUME NEW v, Fits("aA", v), NEW sty
  PROVE  LET b == FlattenSeq([i \in DOMAIN v |-> ClientEntry(v[i], sty)])
             w == addUint32(Len(v)) \o b
         IN /\ Len(v) \in 0 .. Null /\ Len(v) # Null /\ Len(v) \in Nat
            /\ b \in Seq(Byte) /\ w \in Seq(Byte)
            /\ \A p : Agrees(p, w) => Decodes(readAttributeArray(p), p, w, v)
  <1> DEFINE w == [i \in 1 .. Len(v) |-> ClientEntry(v[i], sty)]
             b == FlattenSeq(w)
             S == {v[i] : i \in DOMAIN v}
  <1>1. v \in Seq(S) /\ Len(v) < Null /\ \A i \in DOMAIN v : IsAttribute(v[i])
    BY DEF Fits
  <1> HIDE DEF S
  <1>2. /\ Len(v) \in 0 .. Null /\ Len(v) \in Nat /\ DOMAIN v = 1 .. Len(v) /\ Len(v) # Null
    BY <1>1, Sizes
  <1>3. \A i \in 1 .. Len(v) :
          /\ ClientEntry(v[i], sty) \in Seq(Byte)
          /\ \A p : Agrees(p, ClientEntry(v[i], sty)) => Decodes(attribute(p), p, ClientEntry(v[i], sty), v[i])
    BY <1>1, <1>2, ClientEntryRead
  <1>4. w \in Seq(Seq(Byte)) /\ Len(w) = Len(v) /\ \A i \in 1 .. Len(v) : w[i] = ClientEntry(v[i], sty)
    BY <1>2, <1>3
  <1> HIDE DEF w
  <1>5. b \in Seq(Byte) /\ \A q : Agrees(q, b) => Decodes(Repeat(Len(v), attribute, q), q, b, v)
    <2>1. Entries(w, v)
      BY <1>3, <1>4 DEF Entries
    <2> QED
      BY <1>1, <1>4, <2>1, AttributesRead
  <1>6. \A p : readAttributeArray(p) = Both(uint32(p), Repeat(uint32(p).val, attribute, uint32(p).rest))
    BY DEF readAttributeArray, Then, Both
  <1>7. b = FlattenSeq([i \in DOMAIN v |-> ClientEntry(v[i], sty)])
    BY <1>2 DEF w
  <1> HIDE DEF b
  <1>8. addUint32(Len(v)) \o b \in Seq(Byte)
    BY <1>2, <1>5, Uint32Written, ConcatFacts
  <1>9. ASSUME NEW p, Agrees(p, addUint32(Len(v)) \o b)
        PROVE  Decodes(readAttributeArray(p), p, addUint32(Len(v)) \o b, v)
    <2>1. PICK r : r = Repeat(uint32(p).val, attribute, uint32(p).rest)
      OBVIOUS
    <2>2. uint32(p).val = Len(v) /\ Agrees(uint32(p).rest, b) => Decodes(r, uint32(p).rest, b, v)
      BY <1>5, <2>1
    <2> QED
      BY <1>2, <1>5, <1>6, <1>9, <2>1, <2>2, Counted
  <1> QED
    BY <1>2, <1>5, <1>7, <1>8, <1>9

\* Announced template entries.
LEMMA ElementTemplates ==
  ASSUME NEW v, Fits("fA", v), NEW style1
  PROVE  /\ ClientWrites("fA", v, style1) \in Seq(Byte)
         /\ \A p : Agrees(p, ClientWrites("fA", v, style1)) =>
              Decodes(readAttributeBuffer(p), p, ClientWrites("fA", v, style1), v)
  <1> DEFINE w == [i \in 1 .. Len(v) |-> addUint32(v[i].typ) \o addUint32(v[i].len)]
             b == FlattenSeq(w)
             S == [typ : 0 .. Null, len : 0 .. Null]
  <1>1. v \in Seq(S) /\ Len(v) < Null
    BY DEF Fits
  <1>a. \A i \in 1 .. Len(v) : v[i] \in [typ : 0 .. Null, len : 0 .. Null]
    BY <1>1, Elements
  <1> HIDE DEF S
  <1>2. Len(v) \in 0 .. Null /\ Len(v) \in Nat /\ DOMAIN v = 1 .. Len(v)
    BY <1>1, Sizes
  <1>3. ClientWrites("fA", v, style1) = addUint32(Len(v)) \o b
    BY <1>2 DEF ClientWrites
  <1>8. b \in Seq(Byte) /\ \A q : Agrees(q, b) => Decodes(Repeat(Len(v), readTemplate, q), q, b, v)
    BY <1>1, <1>a, TemplatesRead
  <1>9. \A p : readAttributeBuffer(p) = Both(uint32(p), Repeat(uint32(p).val, readTemplate, uint32(p).rest))
    BY DEF readAttributeBuffer, Then, Both
  <1> HIDE DEF b
  <1>10. addUint32(Len(v)) \o b \in Seq(Byte)
    BY <1>2, <1>8, Uint32Written, ConcatFacts
  <1>11. ASSUME NEW p, Agrees(p, addUint32(Len(v)) \o b)
         PROVE  Decodes(readAttributeBuffer(p), p, addUint32(Len(v)) \o b, v)
    <2>1. PICK r : r = Repeat(uint32(p).val, readTemplate, uint32(p).rest)
      OBVIOUS
    <2>2. uint32(p).val = Len(v) /\ Agrees(uint32(p).rest, b) => Decodes(r, uint32(p).rest, b, v)
      BY <1>8, <2>1
    <2> QED
      BY <1>2, <1>8, <1>9, <1>11, <2>1, <2>2, Counted
  <1> QED
    BY <1>3, <1>10, <1>11

\* Lists of numbers, with the size of the client's buffer in place of none.
LEMMA ElementUlongs ==
  ASSUME NEW v, Fits("au", v)
  PROVE  /\ writeUlongArray(v) \in Seq(Byte)
         /\ \A p : Agrees(p, writeUlongArray(v)) =>
              Decodes(ClientReads("au", p), p, writeUlongArray(v), Expected("au", v))
  <1> DEFINE full(n, r) == Ok([arr |-> Repeat(n, uint64, r).val, n |-> 0], Repeat(n, uint64, r).rest)
             list(x, n, r) == IF x = 0 THEN Ok([arr |-> Nil, n |-> n], r)
                              ELSE Both(Repeat(n, uint64, r), full(n, r))
             tail(x, r) == Both(uint32(r), list(x, uint32(r).val, uint32(r).rest))
  <1>1. \A p : ClientReads("au", p) = Both(byte(p), tail(byte(p).val, byte(p).rest))
    BY DEF ClientReads, Then, Both
  <1>2. \/ v = [arr |-> Nil, n |-> v.n] /\ v.n \in 0 .. Null
        \/ v = [arr |-> v.arr, n |-> 0] /\ v.arr \in Seq(Ulong) /\ Len(v.arr) < Null
    BY DEF Fits
  <1>3. CASE v.arr = Nil /\ v = [arr |-> Nil, n |-> v.n] /\ v.n \in 0 .. Null
    <2> DEFINE b == addUint32(v.n)
    <2>1. writeUlongArray(v) = <<0>> \o b /\ Expected("au", v) = v
      BY <1>3 DEF writeUlongArray, Expected
    <2>2. b \in Seq(Byte) /\ <<0>> \o b \in Seq(Byte)
      BY <1>3, Uint32Written, Sizes, SmallBytes, ConcatFacts
    <2>3. ASSUME NEW q, Agrees(q, b) PROVE Decodes(tail(0, q), q, b, v)
      <3>1. Decodes(uint32(q), q, b, v.n)
        BY <1>3, <2>3, Uint32Read
      <3>2. uint32(q).val = v.n => [arr |-> Nil, n |-> uint32(q).val] = v
        BY <1>3
      <3>3. Decodes(Both(uint32(q), Ok([arr |-> Nil, n |-> uint32(q).val], uint32(q).rest)), q, b, v)
        BY <3>1, <3>2, Becomes
      <3> QED
        BY <3>3
    <2> HIDE DEF tail, b
    <2>4. ASSUME NEW p, Agrees(p, << 0 >> \o b)
          PROVE  Decodes(Both(byte(p), tail(byte(p).val, byte(p).rest)), p, <<0>> \o b, v)
      BY <2>2, <2>3, <2>4, Flagged, SmallBytes
    <2> QED
      BY <1>1, <2>1, <2>2, <2>4
  <1>4. CASE v.arr # Nil /\ v = [arr |-> v.arr, n |-> 0] /\ v.arr \in Seq(Ulong) /\ Len(v.arr) < Null
    <2> DEFINE n == Len(v.arr)
               w == [i \in 1 .. n |-> addUint64(v.arr[i])]
               c == FlattenSeq(w)
               b == addUint32(n) \o c
    <2>1. n \in 0 .. Null /\ n \in Nat /\ DOMAIN v.arr = 1 .. n /\ \A i \in 1 .. n : v.arr[i] \in Ulong
      <3>1. n \in Nat /\ \A i \in 1 .. n : v.arr[i] \in Ulong
        BY <1>4, Elements
      <3>2. DOMAIN v.arr = 1 .. n
        BY <1>4
      <3> QED
        BY <1>4, <3>1, <3>2, Sizes
    <2>2. c \in Seq(Byte) /\ \A q : Agrees(q, c) => Decodes(Repeat(n, uint64, q), q, c, v.arr)
      BY <1>4, <2>1, UlongsRead
    <2>3. Expected("au", v) = v
      BY <1>4 DEF Expected
    <2>4. writeUlongArray(v) = (<<1>> \o addUint32(n)) \o c
      BY <1>4, <2>1 DEF writeUlongArray
    <2> HIDE DEF c, n
    <2>5. addUint32(n) \in Seq(Byte)
      BY <2>1, Uint32Written
    <2>6. b \in Seq(Byte) /\ <<1>> \o b \in Seq(Byte) /\ writeUlongArray(v) = <<1>> \o b
      BY <2>2, <2>4, <2>5, SmallBytes, ConcatFacts, ConcatAssociative
    <2>7. ASSUME NEW q, Agrees(q, c) PROVE Decodes(list(1, n, q), q, c, v)
      <3>1. PICK r : r = Repeat(n, uint64, q)
        OBVIOUS
      <3>2. Decodes(r, q, c, v.arr)
        BY <2>2, <2>7, <3>1
      <3>3. r.val = v.arr => [arr |-> r.val, n |-> 0] = v
        BY <1>4
      <3>4. Decodes(Both(r, Ok([arr |-> r.val, n |-> 0], r.rest)), q, c, v)
        BY <3>2, <3>3, Becomes
      <3>5. list(1, n, q) = Both(r, Ok([arr |-> r.val, n |-> 0], r.rest))
        BY <3>1
      <3> QED
        BY <3>4, <3>5
    <2> HIDE DEF list
    <2>8. ASSUME NEW q, Agrees(q, b) PROVE Decodes(tail(1, q), q, b, v)
      BY <2>1, <2>2, <2>7, <2>8, Counted
    <2> HIDE DEF tail, b
    <2>9. ASSUME NEW p, Agrees(p, << 1 >> \o b)
          PROVE  Decodes(Both(byte(p), tail(byte(p).val, byte(p).rest)), p, <<1>> \o b, v)
      BY <2>6, <2>8, <2>9, Flagged, SmallBytes
    <2> QED
      BY <1>1, <2>3, <2>6, <2>9
  <1>5. v.arr \in Seq(Ulong) => v.arr # Nil
    BY NilApart
  <1> QED
    BY <1>2, <1>3, <1>4, <1>5

\* What the handler writes is what the client reads.
LEMMA ResponseElement ==
  ASSUME NEW e \in DOMAIN Results, NEW v, Fits(e, v)
  PROVE  /\ write(e, v) \in Seq(Byte)
         /\ \A p : Agrees(p, write(e, v)) => Decodes(ClientReads(e, p), p, write(e, v), Expected(e, v))
  <1>1. CASE e = "u"
    <2>1. v \in Ulong /\ write(e, v) = addUint64(v) /\ Expected(e, v) = v
      BY <1>1 DEF Fits, write, Expected
    <2>2. \A p : ClientReads(e, p) = uint64(p)
      BY <1>1 DEF ClientReads
    <2> QED
      BY <2>1, <2>2, Uint64Read
  <1>2. CASE e = "v"
    <2>1. v \in Byte \X Byte /\ write(e, v) = v /\ Expected(e, v) = v
      BY <1>2 DEF Fits, write, Expected
    <2>2. \A p : ClientReads(e, p) = Take(p, 2)
      BY <1>2 DEF ClientReads
    <2>3. PICK x \in Byte, y \in Byte : v = <<x, y>>
      BY <2>1
    <2>4. <<x, y>> \in Seq(Byte) /\ Len(<<x, y>>) = 2
      OBVIOUS
    <2> QED
      BY <2>1, <2>2, <2>3, <2>4, TakeRead
  <1>3. CASE e = "s"
    <2>1. write(e, v) = writeString(v)
      BY <1>3 DEF write
    <2> QED
      BY <1>3, <2>1, ElementString
  <1>4. CASE e = "ay"
    <2>1. write(e, v) = writeByteArray(v) /\ Expected(e, v) = v
      BY <1>4 DEF Fits, write, Expected
    <2>2. \A p : ClientReads(e, p) = readByteArray(p)
      BY <1>4 DEF ClientReads
    <2> QED
      BY <1>4, <2>1, <2>2, ElementByteArray
  <1>5. CASE e = "aA"
    <2>1. write(e, v) = writeAttributeArray(v)
      BY <1>5 DEF write
    <2> QED
      BY <1>5, <2>1, ElementAttributes
  <1>6. CASE e = "au"
    <2>1. write(e, v) = writeUlongArray(v)
      BY <1>6 DEF write
    <2> QED
      BY <1>6, <2>1, ElementUlongs
  <1> QED
    BY <1>1, <1>2, <1>3, <1>4, <1>5, <1>6, CodecAssumption

-----------------------------------------------------------------------------
\* Responses.

\* The elements and values of a message.
Message(es, ms, S) ==
  /\ es \in Seq(DOMAIN S) /\ ms = [i \in 1 .. Len(es) |-> ms[i]]
  /\ \A i \in 1 .. Len(es) : Fits(es[i], ms[i])

\* The values picked for a message fit its elements.
LEMMA PicksFit ==
  ASSUME NEW S, NEW es \in Seq(DOMAIN S), NEW p \in Picks(es, S),
         \A e \in DOMAIN S : \A k \in DOMAIN S[e] : Fits(e, S[e][k]),
         NEW ms, ms = [i \in DOMAIN p |-> S[es[i]][p[i]]]
  PROVE  Message(es, ms, S)
  <1>1. DOMAIN p = DOMAIN es /\ \A i \in DOMAIN es : p[i] \in DOMAIN S[es[i]]
    BY Zenon DEF Picks
  <1>2. DOMAIN es = 1 .. Len(es) /\ \A i \in 1 .. Len(es) : es[i] \in DOMAIN S
    BY Elements
  <1>3. \A i \in 1 .. Len(es) : Fits(es[i], ms[i])
    BY <1>1, <1>2
  <1>4. ms = [i \in 1 .. Len(es) |-> ms[i]]
    BY <1>1, <1>2
  <1> QED
    BY <1>3, <1>4 DEF Message

Responded(es, ms) == [i \in 1 .. Len(es) |-> write(es[i], ms[i])]

LEMMA RespondedBytes ==
  ASSUME NEW es, NEW ms, Message(es, ms, Results)
  PROVE  Responded(es, ms) \in Seq(Seq(Byte)) /\ Len(Responded(es, ms)) = Len(es) /\ Len(es) \in Nat
  <1>1. Len(es) \in Nat /\ \A i \in 1 .. Len(es) : es[i] \in DOMAIN Results
    BY Elements DEF Message
  <1>2. \A i \in 1 .. Len(es) : write(es[i], ms[i]) \in Seq(Byte)
    BY <1>1, ResponseElement DEF Message
  <1> QED
    BY <1>1, <1>2 DEF Responded

\* The buffer holds what was written, the signature the elements.
ResponseInv ==
  \/ mode = "request" /\ status # "sent"
  \/ /\ mode = "response" /\ Message(elements, meant, Results)
     /\ step \in 0 .. Len(elements)
     /\ signature = SubSeq(elements, 1, step)
     /\ \E F : Beginnings(Responded(elements, meant), F) /\ buffer = F[step]
     /\ status = "sent" => step = Len(elements)

LEMMA ResponseInit == Init => ResponseInv
  <1> SUFFICES ASSUME Init PROVE ResponseInv
    OBVIOUS
  <1>1. CASE InitRequest
    BY <1>1 DEF Init, InitRequest, ResponseInv
  <1>2. CASE InitResponse
    <2>0. PICK c \in DOMAIN Writes : elements = Writes[c] /\ \E p \in Picks(Writes[c], Results) :
            meant = [i \in DOMAIN p |-> Results[Writes[c][i]][p[i]]]
      BY <1>2 DEF InitResponse
    <2>1. PICK p \in Picks(elements, Results) :
            elements = Writes[c] /\ meant = [i \in DOMAIN p |-> Results[elements[i]][p[i]]]
      BY <2>0
    <2>2. elements \in Seq(DOMAIN Results)
      BY <2>1, CodecAssumption
    <2>3. Message(elements, meant, Results)
      BY <2>1, <2>2, CodecAssumption, PicksFit
    <2>4. PICK F : Beginnings(Responded(elements, meant), F)
      BY <2>3, RespondedBytes, PrefixesExist
    <2>5. mode = "response" /\ buffer = << >> /\ signature = << >> /\ step = 0 /\ status = "open"
      BY <1>2 DEF InitResponse, Init
    <2>6. SubSeq(elements, 1, 0) = << >> /\ F[0] = << >> /\ 0 \in 0 .. Len(elements)
      BY <2>2, <2>4, WholeSequence DEF Beginnings
    <2> QED
      BY <2>3, <2>4, <2>5, <2>6 DEF ResponseInv
  <1> QED
    BY <1>1, <1>2 DEF Init

LEMMA ResponseStep == ResponseInv /\ [Next]_vars => ResponseInv'
  <1> SUFFICES ASSUME ResponseInv, [Next]_vars PROVE ResponseInv'
    OBVIOUS
  <1>1. CASE mode = "request"
    <2>1. mode' = "request" /\ status' # "sent"
      BY <1>1 DEF ResponseInv, Next, vars, Same, Open, Reading, Finalize, handleGenerateRandom, Decode, DecodeFails, DecodeSkipped, Err, Write, Send
    <2> QED
      BY <2>1 DEF ResponseInv
  <1>2. CASE mode = "response"
    <2>1. /\ Message(elements, meant, Results) /\ step \in 0 .. Len(elements)
          /\ signature = SubSeq(elements, 1, step)
          /\ status = "sent" => step = Len(elements)
      BY <1>2 DEF ResponseInv
    <2>2. PICK F : Beginnings(Responded(elements, meant), F) /\ buffer = F[step]
      BY <1>2 DEF ResponseInv
    <2>3. CASE Write
      <3>1. step < Len(elements) /\ step' = step + 1 /\ mode' = mode /\ status' = "open"
        /\ elements' = elements /\ meant' = meant
        /\ signature' = Append(signature, elements[step + 1])
        /\ buffer' = buffer \o write(elements[step + 1], meant[step + 1])
        BY <2>3 DEF Write, Same
      <3>2. PICK i : i = step + 1
        OBVIOUS
      <3>3. i \in 1 .. Len(elements) /\ i - 1 = step /\ elements \in Seq(DOMAIN Results)
        BY <2>1, <3>1, <3>2 DEF Message
      <3>4. SubSeq(elements, 1, i) = Append(SubSeq(elements, 1, i - 1), elements[i])
        BY <3>3, OneLonger
      <3>5. F[i] = F[i - 1] \o Responded(elements, meant)[i]
        BY <2>1, <2>2, <3>3, RespondedBytes DEF Beginnings
      <3>6. Responded(elements, meant)[i] = write(elements[i], meant[i])
        BY <3>3 DEF Responded
      <3>7. step' = i /\ step' \in 0 .. Len(elements) /\ buffer' = F[i] /\ signature' = SubSeq(elements, 1, i)
        BY <2>1, <2>2, <3>1, <3>2, <3>3, <3>4, <3>5, <3>6
      <3> QED
        BY <1>2, <2>1, <2>2, <3>1, <3>7 DEF ResponseInv
    <2>4. CASE Send
      <3>1. UNCHANGED <<mode, call, elements, meant, signature, buffer, step>> /\ step = Len(elements)
        BY <2>4 DEF Send, Same
      <3> QED
        BY <1>2, <2>1, <2>2, <3>1 DEF ResponseInv
    <2>5. CASE UNCHANGED vars
      <3>1. UNCHANGED <<mode, call, elements, meant, signature, buffer, step, status>>
        BY <2>5 DEF vars
      <3> QED
        BY <1>2, <2>1, <2>2, <3>1 DEF ResponseInv
    <2> QED
      BY <1>2, <2>3, <2>4, <2>5 DEF Next, Open, Reading, Finalize, handleGenerateRandom, Decode, DecodeFails, DecodeSkipped, Err
  <1> QED
    BY <1>1, <1>2 DEF ResponseInv

LEMMA ResponseRead == ResponseInv => ResponseDecodes
  <1> SUFFICES ASSUME ResponseInv, status = "sent" PROVE ResponseDecodes
    BY DEF ResponseDecodes
  <1> DEFINE w == Responded(elements, meant)
             n == Len(elements)
             x == [i \in 1 .. n |-> Expected(elements[i], meant[i])]
  <1>1. Message(elements, meant, Results) /\ step = n /\ signature = SubSeq(elements, 1, step)
    BY DEF ResponseInv
  <1>2. PICK F : Beginnings(w, F) /\ buffer = F[n]
    BY DEF ResponseInv
  <1>3. w \in Seq(Seq(Byte)) /\ Len(w) = n /\ n \in Nat
    BY <1>1, RespondedBytes
  <1>4. signature = elements
    BY <1>1, WholeSequence DEF Message
  <1>5. PICK S : S = {Expected(elements[i], meant[i]) : i \in 1 .. n}
    OBVIOUS
  <1>6. x \in Seq(S) /\ Len(x) = n /\ \A i \in 1 .. n : x[i] = Expected(elements[i], meant[i])
    BY <1>3, <1>5
  <1>7. ASSUME NEW i \in 1 .. n, NEW q, Agrees(q, w[i])
        PROVE  Decodes(ClientReads(elements[i], q), q, w[i], x[i])
    <2>1. w[i] = write(elements[i], meant[i]) /\ Fits(elements[i], meant[i]) /\ elements[i] \in DOMAIN Results
      BY <1>1, Elements DEF Responded, Message
    <2> QED
      BY <1>6, <1>7, <2>1, ResponseElement
  <1>8. x = [i \in DOMAIN meant |-> Expected(elements[i], meant[i])]
    <2>1. DOMAIN meant = 1 .. n
      BY <1>1 DEF Message
    <2> QED
      BY <2>1
  <1>9. buffer = FlattenSeq(w) /\ buffer \in Seq(Byte)
    BY <1>2, <1>3, Flattened
  <1>10. Agrees(buffer, buffer)
    BY <1>9 DEF Agrees
  <1> HIDE DEF w, x
  <1>11. Decodes(ClientDecodes(buffer), buffer, buffer, x)
    BY <1>3, <1>6, <1>7, <1>9, <1>10, ClientDecodesAll
  <1>12. ClientDecodes(buffer) = Ok(x, << >>)
    <2>1. ~(Len(buffer) < Len(buffer)) /\ Drop(buffer, Len(buffer)) = << >>
      BY <1>9, DropNone
    <2> QED
      BY <1>11, <2>1 DEF Decodes
  <1> QED
    BY <1>4, <1>8, <1>12, ResultFields DEF ResponseDecodes

\* The client reads from every response what the handler wrote and nothing is
\* left, whatever the values are: the signature is that of the handler, strings
\* are padded or cut, attributes have the length of their value (writeString,
\* writeAttributeArray and the other writers).
THEOREM ResponsesRead == Spec => []ResponseDecodes
  <1>1. Init => ResponseInv
    BY ResponseInit
  <1>2. ResponseInv /\ [Next]_vars => ResponseInv'
    BY ResponseStep
  <1>3. ResponseInv => ResponseDecodes
    BY ResponseRead
  <1> QED
    BY <1>1, <1>2, <1>3, PTL DEF Spec

-----------------------------------------------------------------------------
\* Requests.

LEMMA ElementZeroString ==
  ASSUME NEW v, IsArray(v), NEW sty, NEW a, a = (IF sty.nulls /\ v = << >> THEN Nil ELSE v)
  PROVE  /\ ClientArray(a) \in Seq(Byte)
         /\ \A p : Agrees(p, ClientArray(a)) => Decodes(readZeroString(p), p, ClientArray(a), v)
  <1>1. v # Nil /\ (IsArray(a) \/ a = Nil) /\ (a = Nil => v = << >>) /\ (a # Nil => a = v)
    BY NilApart DEF IsArray
  <1>2. ASSUME NEW p, Agrees(p, ClientArray(a)) PROVE Decodes(readZeroString(p), p, ClientArray(a), v)
    <2> DEFINE r == byteArray(p)
               x == IF r.val = Nil THEN << >> ELSE r.val
    <2>1. readZeroString(p) = Both(r, Ok(x, r.rest))
      BY DEF readZeroString, Then, Both
    <2>2. Decodes(r, p, ClientArray(a), a)
      BY <1>1, <1>2, ClientArrayRead
    <2> HIDE DEF r
    <2>3. r.val = a => x = v
      BY <1>1
    <2> HIDE DEF x
    <2> QED
      BY <2>1, <2>2, <2>3, Becomes
  <1> QED
    BY <1>1, <1>2, ClientArrayRead

\* A byte array that is there and NULL.
LEMMA ElementNull ==
  ASSUME NEW v, v = [arr |-> Nil, n |-> 0]
  PROVE  /\ <<1>> \o ClientArray(Nil) \in Seq(Byte)
         /\ \A p : Agrees(p, <<1>> \o ClientArray(Nil)) =>
                     Decodes(readByteArray(p), p, <<1>> \o ClientArray(Nil), v)
  <1> DEFINE b == ClientArray(Nil)
             full(r) == Ok([arr |-> byteArray(r).val, n |-> 0], byteArray(r).rest)
             none(r) == Ok([arr |-> Nil, n |-> uint32(r).val], uint32(r).rest)
             tail(x, r) == IF x # 0 THEN Both(byteArray(r), full(r)) ELSE Both(uint32(r), none(r))
  <1>1. \A p : readByteArray(p) = Both(byte(p), tail(byte(p).val, byte(p).rest))
    BY DEF readByteArray, Then, Both
  <1>2. b \in Seq(Byte) /\ <<1>> \o b \in Seq(Byte)
    BY ClientArrayRead, SmallBytes, ConcatFacts
  <1>3. ASSUME NEW q, Agrees(q, b) PROVE Decodes(tail(1, q), q, b, v)
    <2>1. Decodes(byteArray(q), q, b, Nil)
      BY <1>3, ClientArrayRead
    <2>2. byteArray(q).val = Nil => [arr |-> byteArray(q).val, n |-> 0] = v
      OBVIOUS
    <2>3. Decodes(Both(byteArray(q), full(q)), q, b, v)
      BY <2>1, <2>2, Becomes
    <2> QED
      BY <2>3
  <1> HIDE DEF tail, b
  <1>4. ASSUME NEW p, Agrees(p, << 1 >> \o b)
        PROVE  Decodes(Both(byte(p), tail(byte(p).val, byte(p).rest)), p, <<1>> \o b, v)
    BY <1>2, <1>3, <1>4, Flagged, SmallBytes
  <1> QED
    BY <1>1, <1>2, <1>4 DEF b

\* What the client writes is what the handler reads, mechanisms aside.
LEMMA RequestElement ==
  ASSUME NEW e \in DOMAIN Samples \ {"M"}, NEW v, Fits(e, v), NEW sty
  PROVE  /\ ClientWrites(e, v, sty) \in Seq(Byte)
         /\ \A p : Agrees(p, ClientWrites(e, v, sty)) => Decodes(read(e, p), p, ClientWrites(e, v, sty), v)
  <1>1. CASE e = "u"
    <2>1. v \in Ulong /\ ClientWrites(e, v, sty) = addUint64(v) /\ \A p : read(e, p) = uint64(p)
      BY <1>1 DEF Fits, ClientWrites, read
    <2> QED
      BY <2>1, Uint64Read
  <1>2. CASE e = "y"
    <2>1. v \in Byte /\ ClientWrites(e, v, sty) = <<v>> /\ \A p : read(e, p) = byte(p)
      BY <1>2 DEF Fits, ClientWrites, read
    <2>2. <<v>> \in Seq(Byte)
      BY <2>1
    <2> QED
      BY <2>1, <2>2, ByteRead
  <1>3. CASE e = "z"
    <2>1. PICK a : a = IF sty.nulls /\ v = << >> THEN Nil ELSE v
      OBVIOUS
    <2>2. IsArray(v) /\ ClientWrites(e, v, sty) = ClientArray(a) /\ \A p : read(e, p) = readZeroString(p)
      BY <1>3, <2>1 DEF Fits, ClientWrites, read
    <2> QED
      BY <2>1, <2>2, ElementZeroString
  <1>4. CASE e \in {"fu", "fy"}
    <2>1. v \in 0 .. Null /\ ClientWrites(e, v, sty) = addUint32(v) /\ \A p : read(e, p) = uint32(p)
      BY <1>4 DEF Fits, ClientWrites, read
    <2>2. v \in Nat
      BY <2>1, Sizes
    <2> QED
      BY <2>1, <2>2, Uint32Read, Uint32Written
  <1>5. CASE e = "fA"
    <2>1. \A p : read(e, p) = readAttributeBuffer(p)
      BY <1>5 DEF read
    <2> QED
      BY <1>5, <2>1, ElementTemplates
  <1>6. CASE e = "ay"
    <2>1. \A p : read(e, p) = readByteArray(p)
      BY <1>6 DEF read
    <2>2. CASE sty.nulls /\ v = [arr |-> Nil, n |-> 0]
      <3>1. ClientWrites(e, v, sty) = <<1>> \o ClientArray(Nil)
        BY <1>6, <2>2 DEF ClientWrites
      <3> QED
        BY <2>1, <2>2, <3>1, ElementNull
    <2>3. CASE ~(sty.nulls /\ v = [arr |-> Nil, n |-> 0])
      <3>1. ClientWrites(e, v, sty) = writeByteArray(v)
        BY <1>6, <2>3 DEF ClientWrites
      <3> QED
        BY <1>6, <2>1, <3>1, ElementByteArray
    <2> QED
      BY <2>2, <2>3
  <1>7. CASE e = "aA"
    <2>1. /\ ClientWrites(e, v, sty)
               = addUint32(Len(v)) \o FlattenSeq([i \in DOMAIN v |-> ClientEntry(v[i], sty)])
          /\ \A p : read(e, p) = readAttributeArray(p)
      BY <1>7 DEF ClientWrites, read
    <2> QED
      BY <1>7, <2>1, RequestAttributes
  <1> QED
    BY <1>1, <1>2, <1>3, <1>4, <1>5, <1>6, <1>7, CodecAssumption

\* The parameters of a mechanism that has some.
ParamsWritten(m) ==
  CASE paramsOf[m.typ] = "pss" -> FlattenSeq([i \in 1 .. 3 |-> addUint64(m.params[i])])
    [] paramsOf[m.typ] = "ecdh" ->
         addUint64(m.params[1]) \o ClientArray(m.params[2]) \o ClientArray(m.params[3])
    [] OTHER -> ClientArray(m.params)

LEMMA ParamsRead ==
  ASSUME NEW m, IsMechanism(m), m.params # << >>, NEW b, b = ParamsWritten(m)
  PROVE  b \in Seq(Byte) /\ \A p : Agrees(p, b) => Decodes(readParams(m.typ, p), p, b, m.params)
  <1>0. CASE paramsOf[m.typ] = "pss"
    <2>1. m.params \in Ulong \X Ulong \X Ulong
      BY <1>0 DEF IsMechanism
    <2>2. PICK x \in Ulong, y \in Ulong, z \in Ulong : m.params = <<x, y, z>>
      BY <2>1
    <2>3. <<x, y, z>> \in Seq(Ulong) /\ Len(<<x, y, z>>) = 3
      OBVIOUS
    <2>4. PICK v : v = m.params
      OBVIOUS
    <2>5. v \in Seq(Ulong) /\ Len(v) = 3
      BY <2>2, <2>3, <2>4
    <2>6. \A i \in 1 .. Len(v) : v[i] \in Ulong
      BY <2>5, Elements
    <2>7. b = FlattenSeq([i \in 1 .. Len(v) |-> addUint64(v[i])])
      BY <1>0, <2>4, <2>5 DEF ParamsWritten
    <2>8. \A p : readParams(m.typ, p) = Repeat(Len(v), uint64, p)
      BY <1>0, <2>5 DEF readParams
    <2> QED
      BY <2>4, <2>5, <2>6, <2>7, <2>8, UlongsRead
  <1>1. CASE paramsOf[m.typ] = "ecdh"
    <2>1. /\ m.params \in Ulong \X {m.params[2]} \X {m.params[3]}
          /\ IsArray(m.params[2]) \/ m.params[2] = Nil
          /\ IsArray(m.params[3]) \/ m.params[3] = Nil
      BY <1>1 DEF IsMechanism
    <2>2. PICK k, s, d : k = m.params[1] /\ s = m.params[2] /\ d = m.params[3]
      OBVIOUS
    <2>3. m.params = <<k, s, d>> /\ k \in Ulong /\ (IsArray(s) \/ s = Nil) /\ (IsArray(d) \/ d = Nil)
      BY <2>1, <2>2
    <2> DEFINE wk == addUint64(k)
               ws == ClientArray(s)
               wd == ClientArray(d)
    <2>4. b = (wk \o ws) \o wd
      BY <1>1, <2>2 DEF ParamsWritten
    <2>5. wk \in Seq(Byte) /\ ws \in Seq(Byte) /\ wd \in Seq(Byte)
      BY <2>3, Uint64Read, ClientArrayRead
    <2>6. ws \o wd \in Seq(Byte) /\ b \in Seq(Byte) /\ b = wk \o (ws \o wd)
      BY <2>4, <2>5, ConcatFacts, ConcatAssociative
    <2>7. ASSUME NEW p, Agrees(p, b) PROVE Decodes(readParams(m.typ, p), p, b, m.params)
      <3> DEFINE r1 == uint64(p)
                 r2 == byteArray(r1.rest)
                 r3 == byteArray(r2.rest)
                 r4 == Ok(<<r1.val, r2.val, r3.val>>, r3.rest)
      <3>1. readParams(m.typ, p) = Both(r1, Both(r2, Both(r3, r4)))
        BY <1>1 DEF readParams, Then, Both
      <3>2. Decodes(r1, p, wk, k)
        BY <2>3, <2>5, <2>6, <2>7, AgreesWithParts, Uint64Read
      <3> HIDE DEF r1, r2, r3, wk, ws, wd
      <3>3. ASSUME r1.val = k, Agrees(r1.rest, ws \o wd)
            PROVE  Decodes(Both(r2, Both(r3, r4)), r1.rest, ws \o wd, m.params)
        <4>1. Decodes(r2, r1.rest, ws, s)
          BY <2>3, <2>5, <3>3, AgreesWithParts, ClientArrayRead DEF r2, ws
        <4>2. ASSUME r2.val = s, Agrees(r2.rest, wd)
              PROVE  Decodes(Both(r3, r4), r2.rest, wd, m.params)
          <5>1. Decodes(r3, r2.rest, wd, d)
            BY <2>3, <4>2, ClientArrayRead DEF r3, wd
          <5>2. PICK x : x = <<r1.val, r2.val, r3.val>>
            OBVIOUS
          <5>3. r3.val = d => x = m.params
            BY <2>3, <3>3, <4>2, <5>2
          <5>4. Decodes(Both(r3, Ok(x, r3.rest)), r2.rest, wd, m.params)
            BY <5>1, <5>3, Becomes
          <5> QED
            BY <5>2, <5>4
        <4> HIDE DEF r4
        <4> QED
          BY <2>5, <3>3, <4>1, <4>2, Sequenced
      <3> HIDE DEF r4
      <3> QED
        BY <2>5, <2>6, <2>7, <3>1, <3>2, <3>3, Sequenced
    <2> QED
      BY <2>6, <2>7
  <1>2. CASE paramsOf[m.typ] \notin {"pss", "ecdh"}
    <2>1. IsArray(m.params) \/ m.params = Nil
      BY <1>2 DEF IsMechanism
    <2>2. b = ClientArray(m.params)
      BY <1>2 DEF ParamsWritten
    <2>3. \A p : readParams(m.typ, p) = byteArray(p)
      BY <1>2 DEF readParams
    <2> QED
      BY <2>1, <2>2, <2>3, ClientArrayRead
  <1> QED
    BY <1>0, <1>1, <1>2

\* Nothing of w is missing where its reader succeeds.
LEMMA SucceedsIff ==
  ASSUME NEW p, NEW a, NEW u, NEW r, Decodes(r, p, a, u)
  PROVE  r.ok <=> ~(Len(p) < Len(a))
  BY ResultFields DEF Decodes

\* p lost bytes of w, and the reader did not notice.
Unnoticed(r, p, w, v) ==
  Len(p) < Len(w) /\ r.ok /\ r.val = v /\ r.rest \in Seq(Byte) /\ Len(r.rest) < N32

\* A mechanism is read as it is meant, unless its marker was lost or what follows
\* looks like one.
LEMMA MechanismRead ==
  ASSUME NEW m, IsMechanism(m), NEW sty \in Style, NEW w, w = ClientMechanism(m, sty)
  PROVE  /\ w \in Seq(Byte)
         /\ \A p : Agrees(p, w) =>
              \/ Decodes(readMechanism(p), p, w, m)
              \/ Unnoticed(readMechanism(p), p, w, m)
              \/ ~sty.marker /\ ~(Len(p) < Len(w)) /\ peekUint32(Drop(p, Len(w)), Null)
  <1> DEFINE t == addUint32(m.typ)
             bare == mechanismHasNoParameters(m.typ)
             left(r) == IF peekUint32(r, Null) THEN uint32(r).rest ELSE r
             none(typ, r) == Ok([typ |-> typ, params |-> << >>], r)
             some(typ, r) == Both(readParams(typ, r),
                                  Ok([typ |-> typ, params |-> readParams(typ, r).val], readParams(typ, r).rest))
             flag(typ, r) == IF byte(r).val = 0 THEN none(typ, byte(r).rest) ELSE some(typ, byte(r).rest)
             tail(typ, r) == IF mechanismHasNoParameters(typ) THEN none(typ, left(r))
                             ELSE Both(byte(r), flag(typ, r))
  <1>1. \A p : readMechanism(p) = Both(uint32(p), tail(uint32(p).val, uint32(p).rest))
    BY DEF readMechanism, Then, Both
  <1>2. m.typ \in 0 .. Null /\ m = [typ |-> m.typ, params |-> m.params] /\ m.typ \in Nat
    BY Sizes DEF IsMechanism
  <1>3. t \in Seq(Byte) /\ Len(t) = N32 /\ \A p : Agrees(p, t) => Decodes(uint32(p), p, t, m.typ)
    BY <1>2, Uint32Written, Uint32Read
  <1>4. bare => m.params = << >>
    BY DEF IsMechanism
  <1> HIDE DEF t
  <1>5. CASE bare /\ ~sty.marker
    <2>1. w = t
      <3>1. w = t \o << >>
        BY <1>5 DEF ClientMechanism, mechanismHasNoParameters, t
      <3>2. t \o << >> = t
        BY <1>3
      <3> QED
        BY <3>1, <3>2
    <2>2. ASSUME NEW p, Agrees(p, t), ~(~(Len(p) < Len(t)) /\ peekUint32(Drop(p, Len(t)), Null))
          PROVE  Decodes(readMechanism(p), p, t, m)
      <3>1. PICK r : r = uint32(p)
        OBVIOUS
      <3>2. Decodes(r, p, t, m.typ)
        BY <1>3, <2>2, <3>1
      <3>3. r.ok => tail(r.val, r.rest) = Ok(m, r.rest)
        <4>1. r.ok => r.val = m.typ /\ r.rest = Drop(p, Len(t)) /\ ~(Len(p) < Len(t))
          BY <3>2, Succeeds
        <4> QED
          BY <1>2, <1>4, <1>5, <2>2, <4>1
      <3> HIDE DEF tail
      <3>4. readMechanism(p) = Both(r, Ok(m, r.rest))
        BY <1>1, <3>1, <3>3 DEF Both
      <3> QED
        BY <3>2, <3>4, Converted
    <2> QED
      BY <1>3, <1>5, <2>1, <2>2
  <1>6. CASE bare /\ sty.marker
    <2> DEFINE k == addUint32(Null)
    <2>1. w = t \o k
      BY <1>6 DEF ClientMechanism, mechanismHasNoParameters, t
    <2>2. k \in Seq(Byte) /\ Len(k) = N32 /\ \A p : Agrees(p, k) => Decodes(uint32(p), p, k, Null)
      BY Sizes, Uint32Written, Uint32Read
    <2> HIDE DEF k
    <2>3. t \o k \in Seq(Byte) /\ Len(t \o k) = N32 + N32 /\ N32 \in Nat
      <3>1. t \o k \in Seq(Byte) /\ Len(t \o k) = Len(t) + Len(k)
        BY <1>3, <2>2, ConcatFacts
      <3> QED
        BY <1>3, <2>2, <3>1, Sizes
    <2>4. ASSUME NEW p, Agrees(p, t \o k)
          PROVE  Decodes(readMechanism(p), p, t \o k, m) \/ Unnoticed(readMechanism(p), p, t \o k, m)
      <3>1. PICK r1, r2 : r1 = uint32(p) /\ r2 = uint32(r1.rest)
        OBVIOUS
      <3>2. Decodes(r1, p, t, m.typ)
        BY <1>3, <2>2, <2>4, <3>1, AgreesWithParts
      <3>3. r1.ok => r1.val = m.typ /\ Agrees(r1.rest, k) /\ r1.rest = Drop(p, Len(t))
        BY <1>3, <2>2, <2>4, <3>2, ReadOn
      <3>4. r1.ok => Decodes(r2, r1.rest, k, Null)
        BY <2>2, <3>1, <3>3
      <3>5. CASE r1.ok /\ ~r2.ok
        <4>1. ~(r2.ok /\ r2.val = Null)
          BY <3>5
        <4>2. tail(r1.val, r1.rest) = Ok(m, r1.rest)
          BY <1>2, <1>4, <1>6, <3>1, <3>3, <3>5, <4>1 DEF peekUint32
        <4> HIDE DEF tail
        <4>3. readMechanism(p) = Ok(m, r1.rest)
          BY <1>1, <3>1, <3>5, <4>2 DEF Both
        <4>4. Len(r1.rest) < N32 /\ r1.rest \in Seq(Byte)
          BY <2>2, <3>3, <3>4, <3>5, SucceedsIff DEF Agrees
        <4>5. Len(p) < Len(t \o k)
          <5>1. ~(Len(p) < Len(t)) /\ p \in Seq(Byte) /\ Len(p) \in Nat
            BY <2>4, <3>2, <3>5, SucceedsIff DEF Agrees
          <5>2. Len(Drop(p, N32)) = Len(p) - N32
            <6>1. N32 <= Len(p)
              BY <1>3, <2>3, <5>1
            <6> QED
              BY <2>3, <5>1, <6>1, DropFacts
          <5>3. Len(p) - N32 < N32
            BY <1>3, <3>3, <3>5, <4>4, <5>2
          <5> QED
            BY <2>3, <5>1, <5>3
        <4> QED
          BY <4>3, <4>4, <4>5, ResultFields DEF Unnoticed
      <3>6. CASE ~(r1.ok /\ ~r2.ok)
        <4>1. r1.ok /\ r2.ok => r2.val = Null
          BY <3>4, Succeeds
        <4>2. r1.ok => tail(r1.val, r1.rest) = Both(r2, Ok(m, r2.rest))
          BY <1>2, <1>4, <1>6, <3>1, <3>3, <3>6, <4>1 DEF peekUint32, Both
        <4> HIDE DEF tail
        <4>3. readMechanism(p) = Both(r1, Both(r2, Ok(m, r2.rest)))
          BY <1>1, <3>1, <4>2 DEF Both
        <4>4. r1.ok => Decodes(Both(r2, Ok(m, r2.rest)), r1.rest, k, m)
          BY <3>4, Converted
        <4>5. Decodes(Both(r1, Both(r2, Ok(m, r2.rest))), p, t \o k, m)
          BY <1>3, <2>2, <2>4, <3>2, <4>4, Sequenced
        <4> QED
          BY <4>3, <4>5
      <3> QED
        BY <3>5, <3>6
    <2> QED
      BY <2>1, <2>3, <2>4
  <1>7. CASE ~bare /\ m.params = << >>
    <2>1. w = t \o <<0>>
      BY <1>7 DEF ClientMechanism, mechanismHasNoParameters, t
    <2>2. t \o <<0>> \in Seq(Byte) /\ <<0>> \in Seq(Byte)
      BY <1>3, SmallBytes, ConcatFacts
    <2>3. ASSUME NEW p, Agrees(p, t \o << 0 >>) PROVE Decodes(readMechanism(p), p, t \o <<0>>, m)
      <3>1. Decodes(uint32(p), p, t, m.typ)
        BY <1>3, <2>2, <2>3, AgreesWithParts
      <3>2. ASSUME NEW q, Agrees(q, << 0 >>) PROVE Decodes(tail(m.typ, q), q, <<0>>, m)
        <4>1. Decodes(byte(q), q, <<0>>, 0)
          BY <3>2, SmallBytes
        <4>2. byte(q).ok => flag(m.typ, q) = Ok(m, byte(q).rest)
          BY <1>2, <1>7, <4>1, Succeeds
        <4>3. tail(m.typ, q) = Both(byte(q), Ok(m, byte(q).rest))
          BY <1>7, <4>2 DEF Both
        <4> QED
          BY <4>1, <4>3, Converted
      <3> HIDE DEF tail
      <3> QED
        BY <1>1, <1>3, <2>2, <2>3, <3>1, <3>2, Sequenced
    <2> QED
      BY <2>1, <2>2, <2>3
  <1>8. CASE ~bare /\ m.params # << >>
    <2> DEFINE b == ParamsWritten(m)
    <2>1. w = t \o (<<1>> \o b)
      BY <1>8 DEF ClientMechanism, mechanismHasNoParameters, t, ParamsWritten
    <2>2. b \in Seq(Byte) /\ \A p : Agrees(p, b) => Decodes(readParams(m.typ, p), p, b, m.params)
      BY <1>8, ParamsRead
    <2> HIDE DEF b
    <2>3. <<1>> \in Seq(Byte) /\ <<1>> \o b \in Seq(Byte) /\ t \o (<<1>> \o b) \in Seq(Byte) /\ 1 \in Byte
      BY <1>3, <2>2, SmallBytes, ConcatFacts
    <2>4. ASSUME NEW q, Agrees(q, b) PROVE Decodes(some(m.typ, q), q, b, m)
      <3>1. PICK r : r = readParams(m.typ, q)
        OBVIOUS
      <3>2. PICK x : x = [typ |-> m.typ, params |-> r.val]
        OBVIOUS
      <3>3. Decodes(r, q, b, m.params) /\ (r.val = m.params => x = m)
        BY <1>2, <2>2, <2>4, <3>1, <3>2
      <3>4. Decodes(Both(r, Ok(x, r.rest)), q, b, m)
        BY <3>3, Becomes
      <3> QED
        BY <3>1, <3>2, <3>4
    <2> HIDE DEF some
    <2>5. ASSUME NEW q, Agrees(q, << 1 >> \o b) PROVE Decodes(tail(m.typ, q), q, <<1>> \o b, m)
      <3>1. byte(q).val = 1 => flag(m.typ, q) = some(m.typ, byte(q).rest)
        OBVIOUS
      <3>2. tail(m.typ, q) = Both(byte(q), flag(m.typ, q))
        BY <1>8
      <3> HIDE DEF flag
      <3>3. Decodes(Both(byte(q), flag(m.typ, q)), q, <<1>> \o b, m)
        BY <2>2, <2>3, <2>4, <2>5, <3>1, Flagged
      <3> QED
        BY <3>2, <3>3
    <2> HIDE DEF tail
    <2>6. ASSUME NEW p, Agrees(p, t \o (<< 1 >> \o b))
          PROVE  Decodes(readMechanism(p), p, t \o (<<1>> \o b), m)
      <3>1. Decodes(uint32(p), p, t, m.typ)
        BY <1>3, <2>3, <2>6, AgreesWithParts
      <3> QED
        BY <1>1, <1>3, <2>3, <2>5, <2>6, <3>1, Sequenced
    <2> QED
      BY <2>1, <2>3, <2>6
  <1> QED
    BY <1>5, <1>6, <1>7, <1>8

\* What the client writes after a mechanism does not begin with a marker.
LEMMA FirstWord ==
  ASSUME NEW e \in {"u", "aA"}, NEW v, Fits(e, v), NEW sty,
         e = "u" => v \div Power(Base, N32) # Null, NEW q, Agrees(q, ClientWrites(e, v, sty))
  PROVE  ~peekUint32(q, Null)
  <1>1. CASE e = "aA"
    <2> DEFINE b == FlattenSeq([i \in DOMAIN v |-> ClientEntry(v[i], sty)])
               a == addUint32(Len(v))
    <2>2. Len(v) \in 0 .. Null /\ Len(v) # Null /\ Len(v) \in Nat /\ b \in Seq(Byte)
      BY <1>1, RequestAttributes
    <2>3. ClientWrites(e, v, sty) = a \o b
      BY <1>1 DEF ClientWrites
    <2>4. b \in Seq(Byte) /\ a \in Seq(Byte)
      BY <2>2, Uint32Written
    <2> HIDE DEF b
    <2>5. Decodes(uint32(q), q, a, Len(v))
      BY <2>2, <2>3, <2>4, AgreesWithParts, Uint32Read
    <2>6. uint32(q).ok => uint32(q).val = Len(v)
      BY <2>5, Succeeds
    <2> QED
      BY <2>2, <2>6 DEF peekUint32
  <1>2. CASE e = "u"
    <2> DEFINE w == addUint64(v)
               a == SubSeq(w, 1, N32)
               b == Drop(w, N32)
    <2>1. v \in Ulong /\ ClientWrites(e, v, sty) = w
      BY <1>2 DEF Fits, ClientWrites
    <2>2. w \in Seq(Byte) /\ Len(w) = N64 /\ N32 \in Nat /\ N64 \in Nat /\ N64 = N32 + N32
      BY <2>1, Uint64Read, Sizes
    <2>3. v \in Nat /\ v < Power(Base, N64)
      BY <2>1, Sizes DEF Ulong
    <2>4. Number(w, Base) = v
      BY <2>2, <2>3, AddUint DEF addUint64
    <2> HIDE DEF w
    <2>5. a \in Seq(Byte) /\ Len(a) = N32 /\ \A i \in 1 .. N32 : a[i] = w[i]
      BY <2>2
    <2>6. Number(a, Base) = v \div Power(Base, N32)
      <3>1. N32 \in 0 .. Len(w) /\ Len(w) - N32 = N32 /\ Base \in Nat \ {0}
        BY <2>2, Sizes
      <3>2. w \in Seq(0 .. Base - 1)
        BY <2>2 DEF Byte
      <3>3. Number(SubSeq(w, 1, N32), Base) = Number(w, Base) \div Power(Base, Len(w) - N32)
        BY <3>1, <3>2, NumberOfPrefix
      <3> QED
        BY <2>4, <3>1, <3>3
    <2> HIDE DEF a
    <2>7. Agrees(q, a)
      <3>1. /\ q \in Seq(Byte) /\ \A i \in 1 .. Len(q) : i <= N64 => q[i] = w[i]
        BY <2>1, <2>2 DEF Agrees
      <3> QED
        BY <2>2, <2>5, <3>1 DEF Agrees
    <2>8. Decodes(uint32(q), q, a, Number(a, Base))
      BY <2>5, <2>7, WordRead
    <2>9. uint32(q).ok => uint32(q).val = v \div Power(Base, N32)
      BY <2>6, <2>8, Succeeds
    <2> QED
      BY <1>2, <2>9 DEF peekUint32
  <1> QED
    BY <1>1, <1>2

LEMMA PrefixLengths ==
  ASSUME NEW w \in Seq(Seq(Byte)), NEW F, Beginnings(w, F)
  PROVE  /\ Len(w) \in Nat /\ \A i \in 0 .. Len(w) : F[i] \in Seq(Byte) /\ Len(F[i]) \in Nat
         /\ \A i \in 1 .. Len(w) : w[i] \in Seq(Byte) /\ Len(w[i]) \in Nat /\ Len(F[i]) = Len(F[i - 1]) + Len(w[i])
         /\ \A i \in 0 .. Len(w) : Len(F[i]) <= Len(F[Len(w)])
  <1>1. Len(w) \in Nat /\ \A i \in 0 .. Len(w) : F[i] \in Seq(Byte) /\ Len(F[i]) \in Nat
    BY Elements DEF Beginnings
  <1>2. \A i \in 1 .. Len(w) : w[i] \in Seq(Byte) /\ Len(w[i]) \in Nat
    BY Elements
  <1>3. ASSUME NEW i \in 1 .. Len(w) PROVE Len(F[i]) = Len(F[i - 1]) + Len(w[i])
    <2>0. i - 1 \in 0 .. Len(w)
      BY <1>1
    <2>1. i - 1 \in 0 .. Len(w) /\ F[i] = F[i - 1] \o w[i]
      BY <2>0 DEF Beginnings
    <2>2. F[i - 1] \in Seq(Byte) /\ w[i] \in Seq(Byte)
      BY <1>1, <1>2, <2>1
    <2> QED
      BY <2>1, <2>2, ConcatFacts
  <1> DEFINE P == {i \in 0 .. Len(w) : Len(F[Len(w) - i]) <= Len(F[Len(w)])}
  <1>4. 0 \in P
    BY <1>1
  <1>5. ASSUME NEW i \in P, i < Len(w) PROVE i + 1 \in P
    <2>1. PICK j : j = Len(w) - i
      OBVIOUS
    <2>2. j \in 1 .. Len(w) /\ j - 1 = Len(w) - (i + 1) /\ i + 1 \in 0 .. Len(w) /\ j - 1 \in 0 .. Len(w) /\ j \in 0 .. Len(w)
      BY <1>1, <1>5, <2>1
    <2>3. Len(F[j]) = Len(F[j - 1]) + Len(w[j]) /\ Len(w[j]) \in Nat
      BY <1>2, <1>3, <2>2
    <2>a. Len(F[j - 1]) \in Nat /\ Len(F[Len(w)]) \in Nat
      BY <1>1, <2>2
    <2>b. Len(F[j]) <= Len(F[Len(w)])
      BY <2>1
    <2>c. \A x, y, z, u \in Nat : x = y + z /\ x <= u => y <= u
      OBVIOUS
    <2>4. Len(F[j - 1]) <= Len(F[Len(w)])
      BY <1>1, <2>2, <2>3, <2>a, <2>b, <2>c
    <2> QED
      BY <2>2, <2>4
  <1>6. P \in SUBSET (0 .. Len(w))
    OBVIOUS
  <1> HIDE DEF P
  <1>7. P = 0 .. Len(w)
    BY <1>1, <1>4, <1>5, <1>6, InductionTo
  <1>8. ASSUME NEW i \in 0 .. Len(w) PROVE Len(F[i]) <= Len(F[Len(w)])
    <2>1. Len(w) - i \in P /\ Len(w) - (Len(w) - i) = i
      BY <1>1, <1>7
    <2> QED
      BY <2>1 DEF P
  <1> QED
    BY <1>1, <1>2, <1>3, <1>8

Requested(es, ms, sty) == [i \in 1 .. Len(es) |-> ClientWrites(es[i], ms[i], sty)]

\* What handlers and clients keep to: a word after every mechanism, and no handle
\* that looks like a marker where there are no markers.
Proper(es, ms, sty) ==
  /\ Message(es, ms, Samples) /\ sty \in Style
  /\ \A i \in 1 .. Len(es) : es[i] = "M" => i < Len(es) /\ es[i + 1] \in {"u", "aA"}
  /\ ~sty.marker => \A i \in 1 .. Len(es) : es[i] = "u" => ms[i] \div Power(Base, N32) # Null

LEMMA RequestedBytes ==
  ASSUME NEW es, NEW ms, NEW sty, Proper(es, ms, sty)
  PROVE  /\ Requested(es, ms, sty) \in Seq(Seq(Byte)) /\ Len(Requested(es, ms, sty)) = Len(es) /\ Len(es) \in Nat
         /\ \A i \in 1 .. Len(es) : /\ Requested(es, ms, sty)[i] = ClientWrites(es[i], ms[i], sty)
                                    /\ es[i] \in DOMAIN Samples /\ Fits(es[i], ms[i])
  <1>1. Len(es) \in Nat /\ \A i \in 1 .. Len(es) : es[i] \in DOMAIN Samples /\ Fits(es[i], ms[i])
    BY Elements DEF Message, Proper
  <1>2. ASSUME NEW i \in 1 .. Len(es) PROVE ClientWrites(es[i], ms[i], sty) \in Seq(Byte)
    <2>1. CASE es[i] = "M"
      <3>1. IsMechanism(ms[i]) /\ ClientWrites(es[i], ms[i], sty) = ClientMechanism(ms[i], sty)
        BY <1>1, <2>1 DEF Fits, ClientWrites
      <3> QED
        BY <3>1, MechanismRead DEF Proper
    <2>2. CASE es[i] # "M"
      BY <1>1, <2>2, RequestElement
    <2> QED
      BY <2>1, <2>2
  <1> QED
    BY <1>1, <1>2 DEF Requested

\* The handler reads each element as it is meant, or misses that bytes were lost.
LEMMA RequestRead ==
  ASSUME NEW es, NEW ms, NEW sty, Proper(es, ms, sty), NEW w, w = Requested(es, ms, sty),
         NEW F, Beginnings(w, F), NEW p, Agrees(p, F[Len(w)]),
         NEW i \in 1 .. Len(es), Len(p) >= Len(F[i - 1]),
         NEW b, b = Drop(p, Len(F[i - 1]))
  PROVE  \/ Decodes(read(es[i], b), b, w[i], ms[i])
         \/ /\ Unnoticed(read(es[i], b), b, w[i], ms[i])
            /\ i < Len(es) /\ es[i + 1] \in {"u", "aA"}
  <1>1. /\ w \in Seq(Seq(Byte)) /\ Len(w) = Len(es) /\ Len(es) \in Nat
        /\ \A k \in 1 .. Len(es) : w[k] = ClientWrites(es[k], ms[k], sty) /\ es[k] \in DOMAIN Samples /\ Fits(es[k], ms[k])
    BY RequestedBytes
  <1>2. Agrees(b, w[i])
    BY <1>1, AgreesWithEach
  <1>3. CASE es[i] # "M"
    BY <1>1, <1>2, <1>3, RequestElement
  <1>4. CASE es[i] = "M"
    <2>1. IsMechanism(ms[i]) /\ w[i] = ClientMechanism(ms[i], sty) /\ sty \in Style
      BY <1>1, <1>4 DEF Fits, ClientWrites, Proper
    <2>2. read(es[i], b) = readMechanism(b)
      BY <1>4 DEF read
    <2>3. i < Len(es) /\ es[i + 1] \in {"u", "aA"}
      BY <1>4 DEF Proper
    <2>4. ASSUME ~sty.marker, ~(Len(b) < Len(w[i])) PROVE ~peekUint32(Drop(b, Len(w[i])), Null)
      <3>1. PICK j : j = i + 1
        OBVIOUS
      <3>2. j \in 1 .. Len(es) /\ j - 1 = i /\ es[j] \in {"u", "aA"} /\ i \in 0 .. Len(w) /\ i - 1 \in 0 .. Len(w)
        BY <1>1, <2>3, <3>1
      <3>3. /\ Len(F[i]) = Len(F[i - 1]) + Len(w[i]) /\ Len(F[i]) \in Nat
            /\ Len(F[i - 1]) \in Nat /\ Len(w[i]) \in Nat
        BY <1>1, <3>2, PrefixLengths
      <3>4. p \in Seq(Byte) /\ Len(p) \in Nat /\ Len(b) = Len(p) - Len(F[i - 1])
        <4>1. p \in Seq(Byte) /\ Len(p) \in Nat
          BY DEF Agrees
        <4>2. Len(F[i - 1]) <= Len(p)
          BY <3>3, <4>1
        <4> QED
          BY <3>3, <4>1, <4>2, DropFacts
      <3>5. Len(F[i - 1]) + Len(w[i]) <= Len(p)
        <4>1. \A x, y, z \in Nat : ~(z - x < y) => x + y <= z
          OBVIOUS
        <4> QED
          BY <2>4, <3>3, <3>4, <4>1
      <3>6. Drop(b, Len(w[i])) = Drop(p, Len(F[i]))
        <4>1. Drop(Drop(p, Len(F[i - 1])), Len(w[i])) = Drop(p, Len(F[i - 1]) + Len(w[i]))
          BY <3>3, <3>4, <3>5, DropTwice
        <4> QED
          BY <3>3, <4>1
      <3>7. Agrees(Drop(p, Len(F[i])), w[j])
        <4>1. Len(p) >= Len(F[j - 1])
          BY <3>2, <3>3, <3>4, <3>5
        <4>2. Agrees(Drop(p, Len(F[j - 1])), w[j])
          BY <1>1, <3>2, <4>1, AgreesWithEach
        <4> QED
          BY <3>2, <4>2
      <3>8. es[j] = "u" => ms[j] \div Power(Base, N32) # Null
        BY <2>4, <3>2 DEF Proper
      <3> QED
        BY <1>1, <3>2, <3>6, <3>7, <3>8, FirstWord
    <2> QED
      BY <1>2, <2>1, <2>2, <2>3, <2>4, MechanismRead
  <1> QED
    BY <1>3, <1>4

\* Where the handler is in the request it was sent, bytes p: it has read the first
\* elements as they are meant.
Tracks(es, ms, sty, dam, n, b, o) ==
  \E F, p :
    /\ Beginnings(Requested(es, ms, sty), F) /\ Agrees(p, F[Len(es)])
    /\ Len(p) >= Len(F[n]) /\ b = Drop(p, Len(F[n])) /\ o = SubSeq(ms, 1, n)
    /\ dam = "none" => Len(p) = Len(F[Len(es)])
    /\ dam = "cut" => Len(p) < Len(F[Len(es)])
    /\ dam = "longer" => Len(p) > Len(F[Len(es)])

\* Bytes were lost and it did not notice yet; it will, as there is not even a word.
WillNotice(es, dam, n, b) ==
  dam = "cut" /\ b \in Seq(Byte) /\ Len(b) < N32 /\ n < Len(es) /\ es[n + 1] \in {"u", "aA"}

\* The signature is what is to be read, or has another length.
SignatureInv(es, dam, n, sig) ==
  IF dam = "signature" THEN sig \in Seq(DOMAIN Samples) /\ Len(sig) # Len(es) - n
  ELSE sig = Drop(es, n)

RequestInv ==
  \/ mode = "response" /\ damage = "none"
  \/ /\ mode = "request" /\ damage \in {"none", "cut", "longer", "signature"}
     /\ Proper(elements, meant, style) /\ step \in 0 .. Len(elements)
     /\ ~error => SignatureInv(elements, damage, step, signature)
     /\ ~error /\ damage # "signature" =>
          \/ Tracks(elements, meant, style, damage, step, buffer, out)
          \/ WillNotice(elements, damage, step, buffer)
     /\ damage = "none" => ~error
     /\ status \in {"open", "accepted", "refused", "rejected"}
     /\ status = "accepted" => call = callFinalize \/ (damage = "none" /\ out = meant)
     /\ status = "rejected" => damage # "none"

LEMMA ValuesSequence ==
  ASSUME NEW es, NEW ms, NEW S, Message(es, ms, S)
  PROVE  /\ es \in Seq(DOMAIN S) /\ Len(es) \in Nat
         /\ \E T : ms \in Seq(T) /\ Len(ms) = Len(es)
  <1>1. es \in Seq(DOMAIN S) /\ Len(es) \in Nat /\ ms = [i \in 1 .. Len(es) |-> ms[i]]
    BY DEF Message
  <1>2. PICK T, n : T = {ms[i] : i \in 1 .. Len(es)} /\ n = Len(es)
    OBVIOUS
  <1>3. n \in Nat /\ ms = [i \in 1 .. n |-> ms[i]] /\ \A i \in 1 .. n : ms[i] \in T
    BY <1>1, <1>2
  <1>4. ms \in Seq(T) /\ Len(ms) = n
    BY <1>3
  <1> QED
    BY <1>1, <1>2, <1>4

\* Nothing was read yet.
LEMMA TracksFirst ==
  ASSUME NEW es, NEW ms, NEW sty, Proper(es, ms, sty), NEW dam, NEW w, w = FlattenSeq(Requested(es, ms, sty)),
         NEW p, Agrees(p, w), dam = "none" => Len(p) = Len(w), dam = "cut" => Len(p) < Len(w),
         dam = "longer" => Len(p) > Len(w)
  PROVE  Tracks(es, ms, sty, dam, 0, p, << >>)
  <1>1. Requested(es, ms, sty) \in Seq(Seq(Byte)) /\ Len(Requested(es, ms, sty)) = Len(es)
    BY RequestedBytes
  <1>2. PICK F : Beginnings(Requested(es, ms, sty), F)
    BY <1>1, PrefixesExist
  <1>3. w = F[Len(es)] /\ F[0] = << >>
    BY <1>1, <1>2, Flattened DEF Beginnings
  <1>4. SubSeq(ms, 1, 0) = << >>
    BY ValuesSequence, WholeSequence DEF Proper
  <1>5. Len(F[0]) = 0 /\ Len(p) >= 0 /\ Drop(p, 0) = p
    BY <1>3, DropNone DEF Agrees
  <1> QED
    BY <1>2, <1>3, <1>4, <1>5 DEF Tracks

\* One element more: it is read, or the handler fails, or will.
LEMMA TracksNext ==
  ASSUME NEW es, NEW ms, NEW sty, Proper(es, ms, sty), NEW dam, NEW n \in 0 .. Len(es) - 1, NEW b, NEW o,
         dam \in {"none", "cut", "longer"}, Tracks(es, ms, sty, dam, n, b, o),
         NEW r, r = read(es[n + 1], b)
  PROVE  /\ dam = "none" => r.ok
         /\ r.ok => \/ Tracks(es, ms, sty, dam, n + 1, r.rest, Append(o, r.val))
                    \/ WillNotice(es, dam, n + 1, r.rest)
  <1> DEFINE w == Requested(es, ms, sty)
  <1>0. Len(es) \in Nat /\ w \in Seq(Seq(Byte)) /\ Len(w) = Len(es)
    BY RequestedBytes
  <1>1. PICK F, p :
          /\ Beginnings(w, F) /\ Agrees(p, F[Len(w)])
          /\ Len(p) >= Len(F[n]) /\ b = Drop(p, Len(F[n])) /\ o = SubSeq(ms, 1, n)
          /\ dam = "none" => Len(p) = Len(F[Len(w)])
          /\ dam = "cut" => Len(p) < Len(F[Len(w)])
          /\ dam = "longer" => Len(p) > Len(F[Len(w)])
    BY <1>0 DEF Tracks
  <1>2. PICK i : i = n + 1
    OBVIOUS
  <1>3. i \in 1 .. Len(es) /\ i - 1 = n /\ i \in 0 .. Len(w) /\ n \in 0 .. Len(w)
    BY <1>0, <1>2
  <1>4. /\ Len(F[i]) = Len(F[n]) + Len(w[i]) /\ Len(F[i]) <= Len(F[Len(w)])
        /\ Len(F[n]) \in Nat /\ Len(w[i]) \in Nat /\ Len(F[i]) \in Nat /\ Len(F[Len(w)]) \in Nat
    <2> HIDE DEF w
    <2>1. /\ \A k \in 0 .. Len(w) : F[k] \in Seq(Byte) /\ Len(F[k]) \in Nat
          /\ \A k \in 1 .. Len(w) : w[k] \in Seq(Byte) /\ Len(w[k]) \in Nat /\ Len(F[k]) = Len(F[k - 1]) + Len(w[k])
          /\ \A k \in 0 .. Len(w) : Len(F[k]) <= Len(F[Len(w)])
      BY <1>0, <1>1, PrefixLengths
    <2>2. i \in 1 .. Len(w) /\ Len(w) \in 0 .. Len(w)
      BY <1>0, <1>3
    <2>3. Len(F[i]) = Len(F[i - 1]) + Len(w[i]) /\ Len(w[i]) \in Nat
      BY <2>1, <2>2
    <2> QED
      BY <1>3, <2>1, <2>2, <2>3
  <1>5. p \in Seq(Byte) /\ Len(p) \in Nat /\ Len(b) = Len(p) - Len(F[n])
    <2>1. p \in Seq(Byte) /\ Len(p) \in Nat
      BY <1>1 DEF Agrees
    <2>2. Len(F[n]) <= Len(p)
      BY <1>1, <1>4, <2>1
    <2> QED
      BY <1>1, <1>4, <2>1, <2>2, DropFacts
  <1>6. Len(b) < Len(w[i]) <=> Len(p) < Len(F[i])
    <2>1. \A x, y, z \in Nat : z - x < y <=> z < x + y
      OBVIOUS
    <2> QED
      BY <1>4, <1>5, <2>1
  <1>7. Len(b) < Len(w[i]) => dam = "cut"
    <2>1. \A x, y, z \in Nat : x < y /\ y <= z => x # z /\ ~(x > z)
      OBVIOUS
    <2> QED
      BY <1>1, <1>4, <1>5, <1>6, <2>1
  <1>8. \/ Decodes(r, b, w[i], ms[i])
        \/ Unnoticed(r, b, w[i], ms[i]) /\ i < Len(es) /\ es[i + 1] \in {"u", "aA"}
    <2>1. Len(p) >= Len(F[i - 1]) /\ b = Drop(p, Len(F[i - 1]))
      BY <1>1, <1>3
    <2>2. r = read(es[i], b)
      BY <1>2
    <2> QED
      BY <1>1, <1>3, <2>1, <2>2, RequestRead
  <1> HIDE DEF w
  <1>9. CASE Decodes(r, b, w[i], ms[i])
    <2>1. dam = "none" => r.ok
      BY <1>7, <1>9, SucceedsIff
    <2>2. ASSUME r.ok PROVE Tracks(es, ms, sty, dam, i, r.rest, Append(o, r.val))
      <3>1. r.val = ms[i] /\ r.rest = Drop(b, Len(w[i])) /\ ~(Len(b) < Len(w[i]))
        BY <1>9, <2>2, Succeeds
      <3>2. ~(Len(p) < Len(F[i]))
        BY <1>6, <3>1
      <3>a. Len(F[n]) + Len(w[i]) <= Len(p) /\ Len(p) >= Len(F[i])
        <4>1. \A x, y \in Nat : ~(x < y) => y <= x /\ x >= y
          OBVIOUS
        <4> QED
          BY <1>4, <1>5, <3>2, <4>1
      <3>3. r.rest = Drop(p, Len(F[i]))
        <4>1. Drop(Drop(p, Len(F[n])), Len(w[i])) = Drop(p, Len(F[n]) + Len(w[i]))
          BY <1>4, <1>5, <3>a, DropTwice
        <4> QED
          BY <1>1, <1>4, <3>1, <4>1
      <3>4. Append(o, r.val) = SubSeq(ms, 1, i)
        <4>1. PICK T : ms \in Seq(T) /\ Len(ms) = Len(es)
          BY ValuesSequence DEF Proper
        <4>2. i \in 1 .. Len(ms)
          BY <1>3, <4>1
        <4>3. SubSeq(ms, 1, i) = Append(SubSeq(ms, 1, i - 1), ms[i])
          BY <4>1, <4>2, OneLonger
        <4> QED
          BY <1>1, <1>3, <3>1, <4>3
      <3> QED
        BY <1>0, <1>1, <3>a, <3>3, <3>4 DEF Tracks, w
    <2> QED
      BY <1>2, <2>1, <2>2
  <1>10. CASE Unnoticed(r, b, w[i], ms[i]) /\ i < Len(es) /\ es[i + 1] \in {"u", "aA"}
    <2>1. r.ok /\ dam = "cut" /\ r.rest \in Seq(Byte) /\ Len(r.rest) < N32
      BY <1>7, <1>10 DEF Unnoticed
    <2> QED
      BY <1>2, <1>10, <2>1 DEF WillNotice
  <1> QED
    BY <1>8, <1>9, <1>10

\* Where bytes are missing for a word the reader fails.
LEMMA Noticed ==
  ASSUME NEW es, NEW dam, NEW n, NEW b, WillNotice(es, dam, n, b)
  PROVE  ~read(es[n + 1], b).ok
  <1>1. Len(b) \in Nat /\ Len(b) < N32 /\ Len(b) < N64
    BY Sizes DEF WillNotice
  <1>2. ~uint32(b).ok /\ ~uint64(b).ok
    BY <1>1, ResultFields DEF uint32, uint64, Then, Take
  <1>3. CASE es[n + 1] = "u"
    BY <1>2, <1>3 DEF read
  <1>4. CASE es[n + 1] = "aA"
    <2>1. read(es[n + 1], b) = Fail
      BY <1>2, <1>4 DEF read, readAttributeArray, Then
    <2> QED
      BY <2>1, ResultFields
  <1> QED
    BY <1>3, <1>4 DEF WillNotice

\* The request a client sends is proper.
LEMMA ProperFirst ==
  ASSUME HandlesClear, Init, InitRequest
  PROVE  Proper(elements, meant, style)
  <1>0. PICK c \in DOMAIN Reads : elements = Reads[c] /\ \E p \in Picks(Reads[c], Samples) :
          meant = [i \in DOMAIN p |-> Samples[Reads[c][i]][p[i]]]
    BY DEF InitRequest
  <1>1. PICK p \in Picks(elements, Samples) : meant = [i \in DOMAIN p |-> Samples[elements[i]][p[i]]]
    BY <1>0
  <1>2. elements \in Seq(DOMAIN Samples)
    BY <1>0, CodecAssumption
  <1>3. Message(elements, meant, Samples)
    BY <1>1, <1>2, CodecAssumption, PicksFit
  <1>4. style \in Style /\ style \in Styles
    BY CodecAssumption DEF InitRequest
  <1>5. ASSUME NEW i \in 1 .. Len(elements), elements[i] = "M"
        PROVE  i < Len(elements) /\ elements[i + 1] \in {"u", "aA"}
    <2>1. i \in DOMAIN Reads[c]
      BY <1>0, <1>2
    <2> QED
      BY <1>0, <1>5, <2>1, CodecAssumption
  <1>6. ASSUME ~style.marker, NEW i \in 1 .. Len(elements), elements[i] = "u"
        PROVE  meant[i] \div Power(Base, N32) # Null
    <2>1. DOMAIN p = DOMAIN elements /\ \A k \in DOMAIN elements : p[k] \in DOMAIN Samples[elements[k]]
      BY Zenon DEF Picks
    <2>2. i \in DOMAIN elements
      BY <1>2
    <2>3. p[i] \in DOMAIN Samples["u"] /\ meant[i] = Samples["u"][p[i]]
      BY <1>1, <1>6, <2>1, <2>2
    <2> QED
      BY <1>4, <1>6, <2>3 DEF HandlesClear
  <1> QED
    BY <1>3, <1>4, <1>5, <1>6 DEF Proper

LEMMA OtherSignature ==
  ASSUME NEW S, NEW es \in Seq(S), "u" \in S, "y" \in S,
         NEW sig \in {Append(es, "u"), <<"y">> \o es} \cup (IF es = << >> THEN {} ELSE {Front(es)})
  PROVE  sig \in Seq(S) /\ Len(sig) # Len(es)
  <1>0. Len(es) \in Nat
    OBVIOUS
  <1>1. CASE sig = Append(es, "u")
    <2>1. Append(es, "u") \in Seq(S) /\ Len(Append(es, "u")) = Len(es) + 1
      OBVIOUS
    <2> QED
      BY <1>0, <1>1, <2>1
  <1>2. CASE sig = <<"y">> \o es
    <2>1. <<"y">> \in Seq(S) /\ Len(<<"y">>) = 1
      OBVIOUS
    <2>2. <<"y">> \o es \in Seq(S) /\ Len(<<"y">> \o es) = 1 + Len(es)
      BY <2>1, ConcatFacts
    <2> QED
      BY <1>0, <1>2, <2>2
  <1>3. CASE es # << >> /\ sig = Front(es)
    <2>1. Len(es) > 0
      BY <1>3
    <2>2. Front(es) \in Seq(S) /\ Len(Front(es)) = Len(es) - 1
      BY <2>1 DEF Front
    <2> QED
      BY <1>0, <1>3, <2>2
  <1> QED
    BY <1>1, <1>2, <1>3

LEMMA RequestInit ==
  ASSUME HandlesClear
  PROVE  Init => RequestInv
  <1> SUFFICES ASSUME Init PROVE RequestInv
    OBVIOUS
  <1>1. CASE InitResponse
    BY <1>1 DEF InitResponse, RequestInv
  <1>2. CASE InitRequest
    <2> DEFINE w == FlattenSeq(Requested(elements, meant, style))
    <2>1. Proper(elements, meant, style)
      BY <1>2, ProperFirst
    <2>2. /\ mode = "request" /\ error = FALSE /\ out = << >> /\ step = 0 /\ status = "open"
      BY <1>2 DEF Init, InitRequest
    <2>3. elements \in Seq(DOMAIN Samples) /\ Len(elements) \in Nat /\ DOMAIN meant = 1 .. Len(elements)
      BY <2>1, ValuesSequence DEF Proper, Message
    <2>4. w = FlattenSeq([i \in DOMAIN meant |-> ClientWrites(elements[i], meant[i], style)])
      BY <2>3 DEF Requested
    <2>5. \/ damage = "none" /\ buffer = w /\ signature = elements
          \/ damage = "cut" /\ signature = elements /\ \E n \in 0 .. Len(w) - 1 : buffer = SubSeq(w, 1, n)
          \/ damage = "longer" /\ signature = elements /\ \E x \in {<<0>>, addUint32(Null)} : buffer = w \o x
          \/ /\ damage = "signature"
             /\ signature \in {Append(elements, "u"), <<"y">> \o elements}
                                \cup (IF elements = << >> THEN {} ELSE {Front(elements)})
      <3>1. PICK v : v = w
        OBVIOUS
      <3> HIDE DEF w
      <3> QED
        BY <1>2, <2>4, <3>1, Zenon DEF InitRequest
    <2>6. w \in Seq(Byte) /\ Len(w) \in Nat
      <3>1. Requested(elements, meant, style) \in Seq(Seq(Byte))
        BY <2>1, RequestedBytes
      <3>2. PICK F : Beginnings(Requested(elements, meant, style), F)
        BY <3>1, PrefixesExist
      <3>3. w \in Seq(Byte)
        BY <3>1, <3>2, Flattened
      <3> HIDE DEF w
      <3> QED
        BY <3>3
    <2>7. ASSUME NEW p, Agrees(p, w), buffer = p, damage = "none" => Len(p) = Len(w),
                 damage = "cut" => Len(p) < Len(w), damage = "longer" => Len(p) > Len(w)
          PROVE  Tracks(elements, meant, style, damage, step, buffer, out)
      BY <2>1, <2>2, <2>7, TracksFirst
    <2> HIDE DEF w
    <2>8. signature = elements /\ damage # "signature" => SignatureInv(elements, damage, 0, signature)
      BY <2>3, DropNone DEF SignatureInv
    <2>9. CASE damage = "none" /\ buffer = w /\ signature = elements
      <3>1. Agrees(w, w)
        BY <2>6 DEF Agrees
      <3>2. Tracks(elements, meant, style, damage, step, buffer, out)
        BY <2>7, <2>9, <3>1
      <3> QED
        BY <2>1, <2>2, <2>3, <2>8, <2>9, <3>2 DEF RequestInv
    <2>10. CASE damage = "cut" /\ signature = elements /\ \E n \in 0 .. Len(w) - 1 : buffer = SubSeq(w, 1, n)
      <3>1. PICK n \in 0 .. Len(w) - 1 : buffer = SubSeq(w, 1, n)
        BY <2>10
      <3>2. SubSeq(w, 1, n) \in Seq(Byte) /\ Len(SubSeq(w, 1, n)) = n /\ \A i \in 1 .. n : SubSeq(w, 1, n)[i] = w[i]
        BY <2>6
      <3>3. Agrees(buffer, w) /\ Len(buffer) < Len(w)
        BY <2>6, <3>1, <3>2 DEF Agrees
      <3>4. Tracks(elements, meant, style, damage, step, buffer, out)
        BY <2>7, <2>10, <3>3
      <3> QED
        BY <2>1, <2>2, <2>3, <2>8, <2>10, <3>4 DEF RequestInv
    <2>11. CASE damage = "longer" /\ signature = elements /\ \E x \in {<<0>>, addUint32(Null)} : buffer = w \o x
      <3>1. PICK x \in {<<0>>, addUint32(Null)} : buffer = w \o x
        BY <2>11
      <3>2. x \in Seq(Byte) /\ Len(x) \in Nat /\ Len(x) > 0
        <4>1. <<0>> \in Seq(Byte) /\ Len(<<0>>) \in Nat /\ Len(<<0>>) > 0
          BY SmallBytes
        <4>2. addUint32(Null) \in Seq(Byte) /\ Len(addUint32(Null)) \in Nat /\ Len(addUint32(Null)) > 0
          BY Uint32Written, Sizes
        <4> QED
          BY <4>1, <4>2, Zenon
      <3>3. /\ w \o x \in Seq(Byte) /\ Len(w \o x) = Len(w) + Len(x)
            /\ \A i \in 1 .. Len(w) : (w \o x)[i] = w[i]
        BY <2>6, <3>2, ConcatFacts
      <3>4. Agrees(buffer, w) /\ Len(buffer) > Len(w)
        BY <2>6, <3>1, <3>2, <3>3 DEF Agrees
      <3>5. Tracks(elements, meant, style, damage, step, buffer, out)
        BY <2>7, <2>11, <3>4
      <3> QED
        BY <2>1, <2>2, <2>3, <2>8, <2>11, <3>5 DEF RequestInv
    <2>12. CASE damage = "signature" /\ signature \in {Append(elements, "u"), <<"y">> \o elements}
                                \cup (IF elements = << >> THEN {} ELSE {Front(elements)})
      <3>1. "u" \in DOMAIN Samples /\ "y" \in DOMAIN Samples
        BY CodecAssumption
      <3>2. signature \in Seq(DOMAIN Samples) /\ Len(signature) # Len(elements)
        BY <2>3, <2>12, <3>1, OtherSignature
      <3>3. SignatureInv(elements, damage, 0, signature)
        BY <2>3, <2>12, <3>2 DEF SignatureInv
      <3> QED
        BY <2>1, <2>2, <2>3, <2>12, <3>3 DEF RequestInv
    <2> QED
      BY <2>5, <2>9, <2>10, <2>11, <2>12
  <1> QED
    BY <1>1, <1>2 DEF Init

LEMMA SignatureNext ==
  ASSUME NEW S, NEW es \in Seq(S), NEW n \in 0 .. Len(es) - 1
  PROVE  /\ Drop(es, n) # << >> /\ Head(Drop(es, n)) = es[n + 1]
         /\ Tail(Drop(es, n)) = Drop(es, n + 1)
  <1>1. Len(es) \in Nat /\ n \in Nat /\ n <= Len(es) /\ n + 1 \in Nat /\ n + 1 <= Len(es)
    OBVIOUS
  <1> DEFINE d == Drop(es, n)
  <1>2. d \in Seq(S) /\ Len(d) = Len(es) - n /\ \A i \in 1 .. Len(es) - n : d[i] = es[n + i]
    BY <1>1, DropFacts
  <1>3. /\ Drop(es, n + 1) \in Seq(S) /\ Len(Drop(es, n + 1)) = Len(es) - (n + 1)
        /\ \A i \in 1 .. Len(es) - (n + 1) : Drop(es, n + 1)[i] = es[(n + 1) + i]
    BY <1>1, DropFacts
  <1> HIDE DEF d
  <1>4. d # << >> /\ Head(d) = es[n + 1]
    BY <1>1, <1>2
  <1>5. Tail(d) \in Seq(S) /\ Len(Tail(d)) = Len(d) - 1 /\ \A i \in 1 .. Len(d) - 1 : Tail(d)[i] = d[i + 1]
    BY <1>2, <1>4
  <1>6. ASSUME NEW i \in 1 .. Len(es) - (n + 1) PROVE Tail(d)[i] = Drop(es, n + 1)[i]
    <2>1. i \in 1 .. Len(d) - 1 /\ i + 1 \in 1 .. Len(es) - n /\ n + (i + 1) = (n + 1) + i
      BY <1>1, <1>2
    <2> QED
      BY <1>2, <1>3, <1>5, <2>1
  <1>7. Tail(d) = Drop(es, n + 1)
    <2>1. Len(Tail(d)) = Len(es) - (n + 1)
      BY <1>1, <1>2, <1>5
    <2> QED
      BY <1>3, <1>5, <1>6, <2>1, SameSequence
  <1> QED
    BY <1>4, <1>7 DEF d

LEMMA RequestDecode == RequestInv /\ Decode => RequestInv'
  <1> SUFFICES ASSUME RequestInv, Decode PROVE RequestInv'
    OBVIOUS
  <1> DEFINE r == read(elements[step + 1], buffer)
  <1>1. /\ mode = "request" /\ status = "open" /\ step < Len(elements) /\ ~error /\ signature # << >>
        /\ r.ok /\ buffer' = r.rest /\ out' = Append(out, r.val)
        /\ signature' = Tail(signature) /\ step' = step + 1
        /\ UNCHANGED <<mode, call, elements, meant, style, damage, status, error>>
    BY DEF Decode, Reading, Open, Same, Wanted
  <1>2. /\ damage \in {"none", "cut", "longer", "signature"}
        /\ Proper(elements, meant, style) /\ step \in 0 .. Len(elements)
        /\ SignatureInv(elements, damage, step, signature)
        /\ damage # "signature" => \/ Tracks(elements, meant, style, damage, step, buffer, out)
                                   \/ WillNotice(elements, damage, step, buffer)
    BY <1>1 DEF RequestInv
  <1>3. elements \in Seq(DOMAIN Samples) /\ Len(elements) \in Nat
    BY <1>2, ValuesSequence DEF Proper
  <1>4. step \in 0 .. Len(elements) - 1 /\ step + 1 \in 0 .. Len(elements)
    BY <1>1, <1>2, <1>3
  <1> HIDE DEF r
  <1>5. SignatureInv(elements, damage, step + 1, Tail(signature))
    <2>1. CASE damage = "signature"
      <3>1. signature \in Seq(DOMAIN Samples) /\ Len(signature) # Len(elements) - step /\ Len(signature) \in Nat
        BY <1>2, <2>1 DEF SignatureInv
      <3>2. Tail(signature) \in Seq(DOMAIN Samples) /\ Len(Tail(signature)) = Len(signature) - 1
        BY <1>1, <3>1
      <3>3. Len(Tail(signature)) # Len(elements) - (step + 1)
        BY <1>3, <1>4, <3>1, <3>2
      <3> QED
        BY <2>1, <3>2, <3>3 DEF SignatureInv
    <2>2. CASE damage # "signature"
      BY <1>2, <1>3, <1>4, <2>2, SignatureNext DEF SignatureInv
    <2> QED
      BY <2>1, <2>2
  <1>6. ASSUME damage # "signature"
        PROVE  \/ Tracks(elements, meant, style, damage, step + 1, r.rest, Append(out, r.val))
               \/ WillNotice(elements, damage, step + 1, r.rest)
    <2>1. ~WillNotice(elements, damage, step, buffer)
      BY <1>1, Noticed DEF r
    <2>2. Tracks(elements, meant, style, damage, step, buffer, out) /\ damage \in {"none", "cut", "longer"}
      BY <1>2, <1>6, <2>1
    <2> QED
      BY <1>1, <1>2, <1>4, <2>2, TracksNext DEF r
  <1> QED
    BY <1>1, <1>2, <1>4, <1>5, <1>6 DEF RequestInv

LEMMA RequestFails == RequestInv /\ DecodeFails => RequestInv'
  <1> SUFFICES ASSUME RequestInv, DecodeFails PROVE RequestInv'
    OBVIOUS
  <1>1. /\ mode = "request" /\ status = "open" /\ step < Len(elements) /\ ~error
        /\ ~Wanted \/ ~read(elements[step + 1], buffer).ok
        /\ step' = step + 1 /\ error' = TRUE
        /\ UNCHANGED <<mode, call, elements, meant, style, damage, status, signature, buffer, out>>
    BY DEF DecodeFails, Reading, Open, Same
  <1>2. /\ damage \in {"none", "cut", "longer", "signature"}
        /\ Proper(elements, meant, style) /\ step \in 0 .. Len(elements)
        /\ SignatureInv(elements, damage, step, signature)
        /\ damage # "signature" => \/ Tracks(elements, meant, style, damage, step, buffer, out)
                                   \/ WillNotice(elements, damage, step, buffer)
    BY <1>1 DEF RequestInv
  <1>3. elements \in Seq(DOMAIN Samples) /\ Len(elements) \in Nat
    BY <1>2, ValuesSequence DEF Proper
  <1>4. step \in 0 .. Len(elements) - 1 /\ step + 1 \in 0 .. Len(elements)
    BY <1>1, <1>2, <1>3
  <1>5. ASSUME damage = "none" PROVE FALSE
    <2>1. Wanted
      BY <1>2, <1>3, <1>4, <1>5, SignatureNext DEF SignatureInv, Wanted
    <2>2. Tracks(elements, meant, style, damage, step, buffer, out)
      BY <1>2, <1>5 DEF WillNotice
    <2>3. read(elements[step + 1], buffer).ok
      BY <1>2, <1>4, <1>5, <2>2, TracksNext
    <2> QED
      BY <1>1, <2>1, <2>3
  <1> QED
    BY <1>1, <1>2, <1>4, <1>5 DEF RequestInv

LEMMA RequestEnds == RequestInv /\ Err => RequestInv'
  <1> SUFFICES ASSUME RequestInv, Err PROVE RequestInv'
    OBVIOUS
  <1>1. /\ mode = "request" /\ status = "open" /\ step = Len(elements)
        /\ status' = IF ~error /\ signature = << >> /\ buffer = << >> THEN "accepted" ELSE "rejected"
        /\ UNCHANGED <<mode, call, elements, meant, style, damage, signature, buffer, error, out, step>>
    BY DEF Err, Open, Same
  <1>2. /\ damage \in {"none", "cut", "longer", "signature"}
        /\ Proper(elements, meant, style) /\ step \in 0 .. Len(elements)
        /\ ~error => SignatureInv(elements, damage, step, signature)
        /\ ~error /\ damage # "signature" => \/ Tracks(elements, meant, style, damage, step, buffer, out)
                                             \/ WillNotice(elements, damage, step, buffer)
        /\ damage = "none" => ~error
    BY <1>1 DEF RequestInv
  <1>3. elements \in Seq(DOMAIN Samples) /\ Len(elements) \in Nat
    BY <1>2, ValuesSequence DEF Proper
  <1>4. CASE error
    BY <1>1, <1>2, <1>4 DEF RequestInv
  <1>5. CASE ~error /\ damage = "signature"
    <2>1. Len(signature) # Len(elements) - step
      BY <1>2, <1>5 DEF SignatureInv
    <2>2. signature # << >>
      BY <1>1, <1>3, <2>1
    <2> QED
      BY <1>1, <1>2, <1>5, <2>2 DEF RequestInv
  <1>6. CASE ~error /\ damage # "signature"
    <2> DEFINE n == Len(elements)
               w == Requested(elements, meant, style)
    <2>1. ~WillNotice(elements, damage, step, buffer)
      BY <1>1, <1>3 DEF WillNotice
    <2>2. PICK F, p :
            /\ Beginnings(w, F) /\ Agrees(p, F[n])
            /\ Len(p) >= Len(F[n]) /\ buffer = Drop(p, Len(F[n])) /\ out = SubSeq(meant, 1, n)
            /\ damage = "none" => Len(p) = Len(F[n])
            /\ damage = "cut" => Len(p) < Len(F[n])
            /\ damage = "longer" => Len(p) > Len(F[n])
      BY <1>1, <1>2, <1>6, <2>1 DEF Tracks
    <2>3. p \in Seq(Byte) /\ Len(p) \in Nat /\ Len(F[n]) \in Nat
      BY <2>2 DEF Agrees
    <2>4. damage # "cut"
      BY <2>2, <2>3
    <2>5. CASE damage = "longer"
      <3>1. Len(F[n]) <= Len(p) /\ Len(p) - Len(F[n]) # 0
        BY <2>2, <2>3, <2>5
      <3>2. Len(buffer) = Len(p) - Len(F[n])
        BY <2>2, <2>3, <3>1, DropFacts
      <3>3. buffer # << >>
        BY <3>1, <3>2
      <3> QED
        BY <1>1, <1>2, <1>6, <2>5, <3>3 DEF RequestInv
    <2>6. CASE damage = "none"
      <3>1. buffer = << >>
        BY <2>2, <2>3, <2>6, DropNone
      <3>2. signature = << >>
        BY <1>1, <1>2, <1>3, <1>6, DropNone DEF SignatureInv
      <3>3. out = meant
        <4>1. PICK T : meant \in Seq(T) /\ Len(meant) = n
          BY <1>2, ValuesSequence DEF Proper
        <4> QED
          BY <2>2, <4>1, WholeSequence
      <3>4. status' = "accepted"
        BY <1>1, <1>6, <3>1, <3>2
      <3> QED
        BY <1>1, <1>2, <1>6, <2>6, <3>3, <3>4 DEF RequestInv
    <2> QED
      BY <1>2, <1>6, <2>4, <2>5, <2>6
  <1> QED
    BY <1>4, <1>5, <1>6

LEMMA RequestStep == RequestInv /\ [Next]_vars => RequestInv'
  <1> SUFFICES ASSUME RequestInv, [Next]_vars PROVE RequestInv'
    OBVIOUS
  <1>1. CASE Decode
    BY <1>1, RequestDecode
  <1>2. CASE DecodeFails
    BY <1>2, RequestFails
  <1>3. CASE DecodeSkipped
    <2>1. /\ mode = "request" /\ step < Len(elements) /\ error
          /\ step' = step + 1 /\ UNCHANGED <<mode, call, elements, meant, style, damage, status, error, out>>
      BY <1>3 DEF DecodeSkipped, Reading, Open, Same
    <2>2. Proper(elements, meant, style) /\ step \in 0 .. Len(elements)
      BY <2>1 DEF RequestInv
    <2>3. Len(elements) \in Nat
      BY <2>2, ValuesSequence DEF Proper
    <2>4. step + 1 \in 0 .. Len(elements)
      BY <2>1, <2>2, <2>3
    <2> QED
      BY <2>1, <2>4 DEF RequestInv
  <1>4. CASE Err
    BY <1>4, RequestEnds
  <1>5. CASE Write
    BY <1>5 DEF Write, Same, RequestInv
  <1>6. CASE Send
    BY <1>6 DEF Send, Same, RequestInv
  <1>7. CASE Finalize
    BY <1>7 DEF Finalize, Same, RequestInv
  <1>8. CASE handleGenerateRandom
    BY <1>8 DEF handleGenerateRandom, Same, RequestInv
  <1>9. CASE UNCHANGED vars
    BY <1>9 DEF vars, RequestInv
  <1> QED
    BY <1>1, <1>2, <1>3, <1>4, <1>5, <1>6, <1>7, <1>8, <1>9 DEF Next

\* A request is not rejected and a handler that reads it gets the values the client
\* meant, whatever they are, NULL arrays included, and whether or not the client
\* marks mechanisms without parameters, if no handle sent without a marker before it begins like one (readMechanism).
THEOREM RequestsUnderstood ==
  ASSUME HandlesClear
  PROVE  Spec => []Understood
  <1>1. Init => RequestInv
    BY RequestInit
  <1>2. RequestInv /\ [Next]_vars => RequestInv'
    BY RequestStep
  <1>3. RequestInv => Understood
    BY DEF RequestInv, Understood
  <1> QED
    BY <1>1, <1>2, <1>3, PTL DEF Spec

\* A request that lost any of its last bytes, has bytes too many or another
\* signature than the handler's is never executed, under the same condition and
\* unless it is C_Finalize (decode, sig and err; lost bytes of a marker are noticed one element later).
THEOREM DamageNoticed ==
  ASSUME HandlesClear
  PROVE  Spec => []DamageRejected
  <1>1. Init => RequestInv
    BY RequestInit
  <1>2. RequestInv /\ [Next]_vars => RequestInv'
    BY RequestStep
  <1>3. RequestInv => DamageRejected
    BY DEF RequestInv, DamageRejected
  <1> QED
    BY <1>1, <1>2, <1>3, PTL DEF Spec

=============================================================================
