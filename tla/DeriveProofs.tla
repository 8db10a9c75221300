---------------------------- MODULE DeriveProofs ----------------------------
(***************************************************************************)
(* The loop of x963KDF and the lengths of a derived value, for every       *)
(* length of a hash, a secret and a template, and any width of the counter *)
(* and of lengths.                                                         *)
(***************************************************************************)
EXTENDS Derive, DigitsProofs

\* Byte k of the stream of hashes with counters 1, 2, and so on, which wrap.
StreamByte(k) == <<(((k - 1) \div HashLen) + 1) % CounterWidth, ((k - 1) % HashLen) + 1>>

IsStream(b) == /\ b \in Seq(Nat \X Nat)
               /\ \A k \in 1 .. Len(b) : b[k] = StreamByte(k)

\* n blocks have been hashed, and the counter is one ahead.
Blocks(n) == Len(out) = n * HashLen /\ counter = (n + 1) % CounterWidth

Types ==
  /\ tmpl \in Tmpls
  /\ shared \in Seq(0 .. Base - 1) /\ Len(shared) = SecretLen
  /\ valueLen \in Nat /\ valueLen < Width
  /\ pc \in {"start", "kdf", "loop", "resize", "done", "crashed"}

InLoop ==
  pc = "loop" => /\ kdf = "hash" /\ toInt(valueLen) > 0
                 /\ IsStream(out)
                 /\ \E n \in Nat : Blocks(n)

\* What there is to resize: the shared secret, or a stream of the length asked
\* for, which resizeSecret then leaves alone.
ToResize ==
  pc = "resize" => /\ kdf = "null" => out = shared
                   /\ kdf # "null" => kdf = "hash" /\ IsStream(out) /\ Len(out) = valueLen

Result ==
  /\ rv = "CKR_OK" => /\ pc = "done"
                      /\ Len(out) = valueLen
                      /\ kdf = "null" => out = resizeSecret(shared, valueLen)
                      /\ kdf # "null" => IsStream(out)
  /\ pc \in {"start", "kdf"} => out = << >>
  /\ pc = "start" => counter = 0
  /\ pc = "kdf" => kdf # "null"

IndInv == Types /\ InLoop /\ ToResize /\ Result

-----------------------------------------------------------------------------
\* A block more makes the stream longer.
LEMMA StreamGrows ==
  ASSUME NEW b, IsStream(b), NEW n \in Nat, Len(b) = n * HashLen
  PROVE  /\ IsStream(b \o Block((n + 1) % CounterWidth))
         /\ Len(b \o Block((n + 1) % CounterWidth)) = (n + 1) * HashLen
  <1> DEFINE c == (n + 1) % CounterWidth
             x == Block(c)
             r == b \o x
  <1>1. HashLen \in Nat \ {0} /\ c \in Nat
    BY DeriveAssumption
  <1> HIDE DEF c
  <1>2. x \in Seq(Nat \X Nat) /\ Len(x) = HashLen /\ \A j \in 1 .. HashLen : x[j] = <<c, j>>
    BY <1>1 DEF Block
  <1> HIDE DEF x
  <1>3. b \in Seq(Nat \X Nat) /\ \A k \in 1 .. Len(b) : b[k] = StreamByte(k)
    BY DEF IsStream
  <1>4. r \in Seq(Nat \X Nat) /\ Len(r) = Len(b) + HashLen
    <2>1. \A S : b \in Seq(S) /\ x \in Seq(S) => b \o x \in Seq(S) /\ Len(b \o x) = Len(b) + Len(x)
      OBVIOUS
    <2> QED
      BY <1>2, <1>3, <2>1
  <1>5. Len(r) = (n + 1) * HashLen
    BY <1>1, <1>4
  <1>6. ASSUME NEW k \in 1 .. Len(r) PROVE r[k] = StreamByte(k)
    <2>1. CASE k <= Len(b)
      BY <1>1, <1>2, <1>3, <2>1
    <2>2. CASE k > Len(b)
      <3> DEFINE j == k - Len(b)
      <3>1. j \in 1 .. HashLen /\ r[k] = x[j]
        <4>1. \A S, p, q : p \in Seq(S) /\ q \in Seq(S) =>
                \A i \in Len(p) + 1 .. Len(p) + Len(q) : (p \o q)[i] = q[i - Len(p)]
          OBVIOUS
        <4>2. k \in Len(b) + 1 .. Len(b) + Len(x) /\ Len(b) \in Nat
          BY <1>1, <1>2, <1>3, <1>4, <2>2
        <4>3. (b \o x)[k] = x[k - Len(b)]
          BY <1>2, <1>3, <4>1, <4>2
        <4> QED
          BY <1>1, <1>2, <4>2, <4>3
      <3>2. j - 1 \in 0 .. HashLen - 1 /\ k - 1 = n * HashLen + (j - 1)
        BY <1>1, <3>1
      <3> HIDE DEF j
      <3>3. (k - 1) \div HashLen = n /\ (k - 1) % HashLen = j - 1
        BY <1>1, <3>2, QuotientAndRest
      <3>4. StreamByte(k) = <<c, j>>
        BY <1>1, <3>1, <3>3 DEF StreamByte, c
      <3> QED
        BY <1>2, <3>1, <3>4
    <2> QED
      BY <1>3, <1>4, <2>1, <2>2
  <1> QED
    BY <1>4, <1>5, <1>6 DEF IsStream, x, c

\* The length the template asks for is one of its own, or the secret's.
LEMMA LengthRead ==
  ASSUME IndInv, ReadTemplate
  PROVE  valueLen' \in Nat /\ valueLen' < Width
  <1>1. tmpl \in Seq((0 .. Width - 1) \cup {Nil}) /\ Width \in Nat
    BY DeriveAssumption DEF IndInv, Types
  <1>2. CASE Sized = {}
    BY <1>2, DeriveAssumption DEF ReadTemplate, Asked
  <1>3. CASE Sized # {}
    <2> DEFINE last == CHOOSE i \in Sized : \A j \in Sized : j <= i
    <2>1. Sized \in SUBSET (1 .. Len(tmpl)) /\ Len(tmpl) \in Nat
      BY <1>1 DEF Sized
    <2>2. \E i \in Sized : \A j \in Sized : j <= i
      BY <1>3, <2>1, GreatestNatural
    <2>3. last \in Sized
      BY <2>2
    <2> HIDE DEF last
    <2>4. tmpl[last] \in 0 .. Width - 1
      BY <1>1, <2>3 DEF Sized
    <2>5. valueLen' = tmpl[last]
      BY <1>3 DEF ReadTemplate, Asked, last
    <2> QED
      BY <1>1, <2>4, <2>5
  <1> QED
    BY <1>2, <1>3

\* A positive length survives the conversion to int.
LEMMA PositiveInt ==
  ASSUME Types
  PROVE  /\ toInt(valueLen) \in Int
         /\ toInt(valueLen) > 0 => toInt(valueLen) = valueLen
  BY DeriveAssumption DEF Types, toInt

\* The counter of the next block, wrapped or not.
LEMMA NextCounter ==
  ASSUME NEW n \in Nat
  PROVE  (((n + 1) % CounterWidth) + 1) % CounterWidth = (n + 2) % CounterWidth
  <1>1. CounterWidth \in Nat \ {0, 1}
    BY DeriveAssumption
  <1>2. \A w \in Nat \ {0, 1}, a \in Nat : ((a % w) + 1) % w = (a + 1) % w
    <2> SUFFICES ASSUME NEW w \in Nat \ {0, 1}, NEW a \in Nat
                 PROVE  ((a % w) + 1) % w = (a + 1) % w
      OBVIOUS
    <2> DEFINE d == a \div w
               m == a % w
    <2>1. d \in Nat /\ m \in 0 .. w - 1 /\ a = d * w + m
      OBVIOUS
    <2> HIDE DEF d, m
    <2>2. CASE m + 1 < w
      <3>1. m + 1 \in 0 .. w - 1 /\ a + 1 = d * w + (m + 1)
        BY <2>1, <2>2
      <3>2. (a + 1) % w = m + 1
        BY <2>1, <3>1, QuotientAndRest
      <3>3. (m + 1) % w = m + 1
        BY <2>1, <2>2
      <3> QED
        BY <3>2, <3>3 DEF m
    <2>3. CASE m + 1 = w
      <3>1. 0 \in 0 .. w - 1 /\ a + 1 = (d + 1) * w + 0 /\ d + 1 \in Nat
        BY <2>1, <2>3
      <3>2. (a + 1) % w = 0
        BY <3>1, QuotientAndRest
      <3>3. (m + 1) % w = 0
        BY <2>3
      <3> QED
        BY <3>2, <3>3 DEF m
    <2> QED
      BY <2>1, <2>2, <2>3
  <1>3. (n + 1) + 1 = n + 2 /\ n + 1 \in Nat
    OBVIOUS
  <1> QED
    BY <1>1, <1>2, <1>3

\* One block of x963KDF: the block is the next of the stream, also after the
\* counter has wrapped.
LEMMA BlockStep ==
  ASSUME IndInv, x963KDFBlock
  PROVE  IndInv'
  <1>1. /\ pc = "loop" /\ kdf = "hash" /\ toInt(valueLen) > 0 /\ IsStream(out)
        /\ out' = out \o Block(counter)
        /\ counter' = (counter + 1) % CounterWidth
        /\ UNCHANGED <<pc, tmpl, kdf, shared, valueLen, rv>>
    BY DEF x963KDFBlock, IndInv, InLoop
  <1>2. PICK n \in Nat : Len(out) = n * HashLen /\ counter = (n + 1) % CounterWidth
    BY <1>1 DEF IndInv, InLoop, Blocks
  <1>3. IsStream(out') /\ Len(out') = (n + 1) * HashLen
    BY <1>1, <1>2, StreamGrows
  <1>4. counter' = ((n + 1) + 1) % CounterWidth
    BY <1>1, <1>2, NextCounter
  <1>5. Blocks(n + 1)'
    BY <1>3, <1>4 DEF Blocks
  <1>6. InLoop'
    BY <1>1, <1>3, <1>5 DEF InLoop, toInt
  <1>7. rv # "CKR_OK"
    BY <1>1 DEF IndInv, Result
  <1> QED
    BY <1>1, <1>6, <1>7 DEF IndInv, Types, ToResize, Result

\* x963KDF returns a prefix of the stream, of the length asked for.
LEMMA ReturnStep ==
  ASSUME IndInv, x963KDFReturn
  PROVE  IndInv'
  <1>1. /\ pc = "loop" /\ kdf = "hash" /\ toInt(valueLen) > 0 /\ IsStream(out)
        /\ Len(out) >= toInt(valueLen) /\ out' = SubSeq(out, 1, toInt(valueLen))
        /\ pc' = "resize"
        /\ UNCHANGED <<tmpl, kdf, shared, valueLen, counter, rv>>
    BY DEF x963KDFReturn, IndInv, InLoop
  <1>2. toInt(valueLen) = valueLen /\ valueLen \in Nat
    BY <1>1, PositiveInt DEF IndInv, Types
  <1>3. out \in Seq(Nat \X Nat) /\ \A k \in 1 .. Len(out) : out[k] = StreamByte(k)
    BY <1>1 DEF IsStream
  <1>4. /\ out' \in Seq(Nat \X Nat) /\ Len(out') = valueLen
        /\ \A k \in 1 .. valueLen : out'[k] = out[k]
    BY <1>1, <1>2, <1>3
  <1>5. IsStream(out')
    BY <1>1, <1>2, <1>3, <1>4 DEF IsStream
  <1>6. rv # "CKR_OK"
    BY <1>1 DEF IndInv, Result
  <1> QED
    BY <1>1, <1>4, <1>5, <1>6 DEF IndInv, Types, InLoop, ToResize, Result

\* resizeSecret returns the length asked for, and leaves a stream alone.
LEMMA ResizeStep ==
  ASSUME IndInv, Resize
  PROVE  IndInv'
  <1>1. /\ pc = "resize" /\ out' = resizeSecret(out, valueLen) /\ pc' = "done"
        /\ rv' = "CKR_OK" /\ UNCHANGED <<tmpl, kdf, shared, valueLen, counter>>
    BY DEF Resize
  <1>2. valueLen \in Nat /\ SecretLen \in Nat /\ Base \in Nat \ {0}
        /\ shared \in Seq(0 .. Base - 1) /\ Len(shared) = SecretLen
    BY DeriveAssumption DEF IndInv, Types
  <1>3. CASE kdf = "null"
    <2>1. out = shared
      BY <1>1, <1>3 DEF IndInv, ToResize
    <2>2. Len(out') = valueLen
      <3>1. CASE valueLen <= Len(shared)
        BY <1>1, <1>2, <2>1, <3>1 DEF resizeSecret
      <3>2. CASE ~(valueLen <= Len(shared))
        <4> DEFINE z == [k \in 1 .. valueLen - Len(shared) |-> 0]
        <4>1. z \in Seq(0 .. Base - 1) /\ Len(z) = valueLen - Len(shared)
          BY <1>2, <3>2
        <4>2. out' = z \o shared
          BY <1>1, <2>1, <3>2 DEF resizeSecret
        <4> HIDE DEF z
        <4>3. Len(z \o shared) = Len(z) + Len(shared)
          BY <1>2, <4>1
        <4> QED
          BY <1>2, <4>1, <4>2, <4>3
      <3> QED
        BY <3>1, <3>2
    <2> QED
      BY <1>1, <1>3, <2>1, <2>2 DEF IndInv, Types, InLoop, ToResize, Result
  <1>4. CASE kdf # "null"
    <2>1. IsStream(out) /\ Len(out) = valueLen /\ out \in Seq(Nat \X Nat)
      BY <1>1, <1>4 DEF IndInv, ToResize, IsStream
    <2>2. out' = SubSeq(out, 1, valueLen)
      BY <1>1, <1>2, <2>1 DEF resizeSecret
    <2>3. out' = out
      BY <1>2, <2>1, <2>2
    <2> QED
      BY <1>1, <1>4, <2>1, <2>3 DEF IndInv, Types, InLoop, ToResize, Result
  <1> QED
    BY <1>3, <1>4

\* The blocks of x963KDF follow one another from counter 1, through every wrap of
\* the counter, and what is resized is the secret or a stream that already has its
\* length.
THEOREM DerivationConsistent == Spec => []IndInv
  <1>1. Init => IndInv
    <2> SUFFICES ASSUME Init PROVE IndInv
      OBVIOUS
    <2>1. shared \in Seq(0 .. Base - 1) /\ Len(shared) = SecretLen
      BY DeriveAssumption DEF Init
    <2>2. valueLen \in Nat /\ valueLen < Width
      BY DeriveAssumption DEF Init
    <2> QED
      BY <2>1, <2>2 DEF Init, IndInv, Types, InLoop, ToResize, Result
  <1>2. IndInv /\ [Next]_vars => IndInv'
    <2> SUFFICES ASSUME IndInv, [Next]_vars PROVE IndInv'
      OBVIOUS
    <2>1. CASE ReadTemplate
      <3>1. valueLen' \in Nat /\ valueLen' < Width
        BY <2>1, LengthRead
      <3> QED
        BY <2>1, <3>1 DEF ReadTemplate, IndInv, Types, InLoop, ToResize, Result
    <2>2. CASE hashForKDF \/ x963KDFRefused
      BY <2>2 DEF hashForKDF, x963KDFRefused, Refuse, IndInv, Types, InLoop, ToResize, Result
    <2>3. CASE x963KDFStart
      <3>1. /\ pc = "kdf" /\ kdf = "hash" /\ toInt(valueLen) > 0 /\ pc' = "loop" /\ counter' = 1
            /\ UNCHANGED <<tmpl, kdf, shared, valueLen, out, rv>> /\ out = << >>
        BY <2>3 DEF x963KDFStart, IndInv, Result
      <3>2. CounterWidth \in Nat \ {0, 1}
        BY DeriveAssumption
      <3>3. Blocks(0)' /\ IsStream(out)'
        BY <3>1, <3>2, DeriveAssumption DEF Blocks, IsStream
      <3>4. InLoop'
        BY <3>1, <3>3 DEF InLoop, toInt
      <3> QED
        BY <3>1, <3>4 DEF IndInv, Types, ToResize, Result
    <2>4. CASE x963KDFBlock
      BY <2>4, BlockStep
    <2>5. CASE x963KDFReturn
      BY <2>5, ReturnStep
    <2>6. CASE Resize
      BY <2>6, ResizeStep
    <2>7. CASE OutOfMemory
      BY <2>7 DEF OutOfMemory, IndInv, Types, InLoop, ToResize, Result
    <2>8. CASE UNCHANGED vars
      <3>1. \A n \in Nat : Blocks(n) => Blocks(n)'
        BY <2>8 DEF vars, Blocks
      <3>2. InLoop'
        BY <2>8, <3>1 DEF vars, IndInv, InLoop, toInt
      <3> QED
        BY <2>8, <3>2 DEF vars, IndInv, Types, ToResize, Result
    <2> QED
      BY <2>1, <2>2, <2>3, <2>4, <2>5, <2>6, <2>7, <2>8 DEF Next
  <1> QED
    BY <1>1, <1>2, PTL DEF Spec

\* A value derived with a KDF is a prefix of the one stream of hashes, for every
\* length and every width of the counter, the lengths at which the uint32 counter
\* wraps and the stream repeats itself included (x963KDF).
THEOREM StreamDerived == Spec => []KDFStream
  <1>1. IndInv => KDFStream
    BY DEF IndInv, Result, IsStream, StreamByte, KDFStream
  <1> QED
    BY <1>1, DerivationConsistent, PTL

\* resizeSecret keeps the number a secret stands for, or cuts its low digits off.
LEMMA ResizedNumber ==
  ASSUME NEW secret \in Seq(0 .. Base - 1), NEW n \in Nat
  PROVE  Number(resizeSecret(secret, n), Base)
           = IF n >= Len(secret) THEN Number(secret, Base)
             ELSE Number(secret, Base) \div Power(Base, Len(secret) - n)
  <1>1. Base \in Nat \ {0} /\ Len(secret) \in Nat /\ secret \in Seq(Nat)
    BY DeriveAssumption
  <1>2. CASE n < Len(secret)
    <2>1. n \in 0 .. Len(secret) /\ resizeSecret(secret, n) = SubSeq(secret, 1, n)
      BY <1>1, <1>2 DEF resizeSecret
    <2> QED
      BY <1>1, <1>2, <2>1, NumberOfPrefix
  <1>3. CASE n = Len(secret)
    <2>1. SubSeq(secret, 1, n) = secret
      BY <1>1, <1>3
    <2>2. resizeSecret(secret, n) = SubSeq(secret, 1, n)
      BY <1>1, <1>3 DEF resizeSecret
    <2>3. Number(resizeSecret(secret, n), Base) = Number(secret, Base)
      BY <2>1, <2>2
    <2> QED
      BY <1>1, <1>3, <2>3
  <1>4. CASE n > Len(secret)
    <2>1. n - Len(secret) \in Nat
      BY <1>1, <1>4
    <2>2. Number([k \in 1 .. n - Len(secret) |-> 0] \o secret, Base) = Number(secret, Base)
      BY <1>1, <2>1, NumberOfZeros
    <2> QED
      BY <1>1, <1>4, <2>2 DEF resizeSecret
  <1> QED
    BY <1>1, <1>2, <1>3, <1>4

\* The value has the length the object reports, whatever the template asked for,
\* and without a KDF it is the number the shared secret stands for, cut to that
\* length from below (deriveECDH, resizeSecret).
THEOREM SecretResized == Spec => []ResizedSecret
  <1>1. IndInv => ResizedSecret
    <2> SUFFICES ASSUME IndInv, rv = "CKR_OK" PROVE ResizedSecret
      BY DEF ResizedSecret
    <2>1. Len(out) = valueLen /\ (kdf = "null" => out = resizeSecret(shared, valueLen))
      BY DEF IndInv, Result
    <2>2. shared \in Seq(0 .. Base - 1) /\ Len(shared) = SecretLen /\ valueLen \in Nat
      BY DEF IndInv, Types
    <2>3. Number(resizeSecret(shared, valueLen), Base)
            = IF valueLen >= SecretLen THEN Number(shared, Base)
              ELSE Number(shared, Base) \div Power(Base, SecretLen - valueLen)
      BY <2>2, ResizedNumber
    <2> QED
      BY <2>1, <2>3 DEF ResizedSecret
  <1> QED
    BY <1>1, DerivationConsistent, PTL

=============================================================================
