------------------------------- MODULE Buffer -------------------------------
(***************************************************************************)
(* The buffer of a message (p11kit/rpc.go): numbers, byte arrays, dates    *)
(* and attributes as bytes, and reading them back.                         *)
(*                                                                         *)
(* A byte is a digit of base Base; the byte of an ASCII digit is the digit *)
(* itself.  A reader takes the bytes left and returns whether it succeeded, *)
(* what it read, and the bytes then left.                                  *)
(***************************************************************************)
EXTENDS Digits, SequencesExt

CONSTANTS
  Base,       \* 256 in the code
  N32, N64,   \* the bytes of a uint32 and a uint64 (4 and 8)
  valueType,  \* valueType[t]: how the value of an attribute of type t is encoded
  Nil         \* no value

Null == Power(Base, N32) - 1   \* 0xffffffff, the length of a NULL byte array

ASSUME BufferAssumption ==
  /\ Base \in Nat /\ Base > 10
  /\ N32 \in Nat \ {0} /\ N64 = 2 * N32
  /\ DOMAIN valueType = 0 .. Null
  /\ Nil \notin Nat /\ Nil \notin Seq(Nat)

Byte == 0 .. Base - 1
Years == 1000 .. 9999
Ulong == 0 .. Power(Base, N64) - 1
IsArray(a) == a \in Seq(Byte) /\ Len(a) < Null

\* A template entry, with a value its type can have or none.
IsAttribute(a) ==
  /\ a \in [typ : 0 .. Null, val : {a.val}]
  /\ \/ a.val = Nil
     \/ valueType[a.typ] = "byte" /\ a.val \in Byte
     \/ valueType[a.typ] = "ulong" /\ a.val \in Ulong
     \/ valueType[a.typ] = "bytes" /\ IsArray(a.val)
     \/ valueType[a.typ] = "date" /\ a.val \in Years \X (1 .. 12) \X (1 .. 31)

-----------------------------------------------------------------------------
\* Writing: the bytes an add method appends.

\* PutUint32 and PutUint64, with the conversion that cuts a number to size.
addUint(n, w) == [i \in 1 .. w |-> (n \div Power(Base, w - i)) % Base]
addUint32(n) == addUint(n, N32)
addUint64(n) == addUint(n, N64)

addByteArray(a) == addUint32(Len(a)) \o a

\* addDate of <<year, month, day>>: years without four digits become zeros.
addDate(t) ==
  LET y == IF t[1] \in Years THEN t[1] ELSE 0 IN
  <<y \div 1000, (y \div 100) % 10, (y \div 10) % 10, y % 10,
    t[2] \div 10, t[2] % 10, t[3] \div 10, t[3] % 10>>

\* attribute.value, for a value of the kind its type has.
value(a) ==
  CASE valueType[a.typ] = "byte"  -> <<a.val>>
    [] valueType[a.typ] = "ulong" -> addUint64(a.val)
    [] valueType[a.typ] = "bytes" -> addByteArray(a.val)
    [] valueType[a.typ] = "date"  -> addDate(a.val)

\* The length announced is that of the value, not of its encoding.
valueLengthEncoded(a) == Len(value(a))   \* mutant: the encoding is measured
valueLength(a) ==
  IF valueType[a.typ] = "bytes" THEN Len(a.val) ELSE Len(value(a))

addAttribute(a) ==
  addUint32(a.typ) \o
  (IF a.val = Nil THEN <<0>> ELSE <<1>> \o addUint32(valueLength(a)) \o value(a))

-----------------------------------------------------------------------------
\* Reading.

Ok(v, b) == [ok |-> TRUE, val |-> v, rest |-> b]
Fail == [ok |-> FALSE, val |-> Nil, rest |-> << >>]

\* Read on after r, or fail with it.
Then(r, Read(_, _)) == IF r.ok THEN Read(r.val, r.rest) ELSE Fail

Take(b, n) == IF Len(b) < n THEN Fail ELSE Ok(SubSeq(b, 1, n), SubSeq(b, n + 1, Len(b)))

byte(b) == Then(Take(b, 1), LAMBDA x, r : Ok(x[1], r))
uint32(b) == Then(Take(b, N32), LAMBDA x, r : Ok(Number(x, Base), r))
uint64(b) == Then(Take(b, N64), LAMBDA x, r : Ok(Number(x, Base), r))
peekUint32(b, n) == uint32(b).ok /\ uint32(b).val = n

byteArray(b) ==
  Then(uint32(b), LAMBDA n, r : IF n = Null THEN Ok(Nil, r) ELSE Take(r, n))

\* date: eight decimal digits.  Clients send dates that exist, so time.Date has
\* nothing to normalize.
date(b) ==
  Then(Take(b, 8), LAMBDA x, r :
    IF \E i \in 1 .. 8 : x[i] > 9 THEN Fail
    ELSE Ok(<<x[1] * 1000 + x[2] * 100 + x[3] * 10 + x[4], x[5] * 10 + x[6],
              x[7] * 10 + x[8]>>, r))

\* The announced length is read and not used; mechanism arrays and types that
\* are not known cannot be read.
attributeOf(typ, b) ==
  LET Read(x, r) == Ok([typ |-> typ, val |-> x], r) IN
  CASE valueType[typ] = "byte"  -> Then(byte(b), Read)
    [] valueType[typ] = "ulong" -> Then(uint64(b), Read)
    [] valueType[typ] = "bytes" -> Then(byteArray(b), Read)
    [] valueType[typ] = "date"  -> Then(date(b), Read)
    [] OTHER                    -> Fail

attribute(b) ==
  Then(uint32(b), LAMBDA typ, r1 :
    Then(byte(r1), LAMBDA validity, r2 :
      IF validity = 0 THEN Ok([typ |-> typ, val |-> Nil], r2)
      ELSE Then(uint32(r2), LAMBDA length, r3 : attributeOf(typ, r3))))

\* A counted list of elements.
Repeat(n, Read(_), b) ==
  LET list[i \in 0 .. n] ==
        IF i = 0 THEN Ok(<< >>, b)
        ELSE Then(list[i - 1], LAMBDA vs, r :
               Then(Read(r), LAMBDA v, r2 : Ok(Append(vs, v), r2)))
  IN list[n]

=============================================================================
