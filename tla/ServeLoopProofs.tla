--------------------------- MODULE ServeLoopProofs ---------------------------
(***************************************************************************)
(* The loop on the wire implements RPCService, for any messages, any       *)
(* number of them and pipes of any capacity.                               *)
(***************************************************************************)
EXTENDS ServeLoop, TLAPS

\* The cells of s are those of the stream T after position p.
At(T, p, s) == /\ s \in Seq(Nat) /\ p + Len(s) <= Len(T)
               /\ \A k \in 1 .. Len(s) : s[k] = T[p + k]

\* T is one cell, a version, and then the frames of F one after the other;
\* frame i ends at b[i].
Framed(T, b, F) ==
  /\ T \in Seq(Nat) /\ F \in Seq(Seq(Nat)) /\ b \in [0 .. Len(F) -> Nat]
  /\ b[0] = 1 /\ b[Len(F)] = Len(T)
  /\ \A i, j \in 0 .. Len(F) : i <= j => b[i] <= b[j]
  /\ \A i \in 1 .. Len(F) : /\ b[i] = b[i - 1] + Len(F[i])
                            /\ \A k \in 1 .. Len(F[i]) : T[b[i - 1] + k] = F[i][k]

-----------------------------------------------------------------------------
\* Two pieces of a stream, joined.
LEMMA ConcatCells ==
  ASSUME NEW T \in Seq(Nat), NEW e \in Seq(Nat)
  PROVE  /\ T \o e \in Seq(Nat) /\ Len(T \o e) = Len(T) + Len(e)
         /\ \A k \in 1 .. Len(T) : (T \o e)[k] = T[k]
         /\ \A k \in 1 .. Len(e) : (T \o e)[Len(T) + k] = e[k]
  OBVIOUS

\* The first cell of a piece is the next of the stream.
LEMMA AtHead ==
  ASSUME NEW T \in Seq(Nat), NEW p \in Nat, NEW s, At(T, p, s), s # << >>
  PROVE  /\ At(T, p + 1, Tail(s)) /\ Len(Tail(s)) = Len(s) - 1 /\ Len(s) > 0
         /\ Head(s) = T[p + 1] /\ p + 1 <= Len(T)
  <1>1. /\ s \in Seq(Nat) /\ Len(s) > 0 /\ p + Len(s) <= Len(T)
        /\ \A k \in 1 .. Len(s) : s[k] = T[p + k]
    BY DEF At
  <1>2. /\ Tail(s) \in Seq(Nat) /\ Len(Tail(s)) = Len(s) - 1
        /\ \A k \in 1 .. Len(s) - 1 : Tail(s)[k] = s[k + 1]
        /\ Head(s) = s[1]
    BY <1>1
  <1>3. \A k \in 1 .. Len(s) - 1 : Tail(s)[k] = T[p + 1 + k]
    BY <1>1, <1>2
  <1> QED
    BY <1>1, <1>2, <1>3 DEF At

\* A piece with the next cell of the stream added is a piece.
LEMMA AtAppend ==
  ASSUME NEW T \in Seq(Nat), NEW p \in Nat, NEW s, At(T, p, s), p + Len(s) + 1 <= Len(T),
         NEW x, x = T[p + Len(s) + 1]
  PROVE  At(T, p, Append(s, x)) /\ Len(Append(s, x)) = Len(s) + 1
  <1>1. s \in Seq(Nat) /\ \A k \in 1 .. Len(s) : s[k] = T[p + k]
    BY DEF At
  <1>2. x \in Nat
    BY <1>1
  <1>3. /\ Append(s, x) \in Seq(Nat) /\ Len(Append(s, x)) = Len(s) + 1
        /\ \A k \in 1 .. Len(s) : Append(s, x)[k] = s[k]
        /\ Append(s, x)[Len(s) + 1] = x
    BY <1>1, <1>2
  <1>4. ASSUME NEW k \in 1 .. Len(s) + 1 PROVE Append(s, x)[k] = T[p + k]
    <2>1. Len(s) \in Nat /\ p + (Len(s) + 1) = p + Len(s) + 1
      BY <1>1
    <2>2. k \in 1 .. Len(s) \/ k = Len(s) + 1
      BY <2>1
    <2> QED
      BY <1>1, <1>3, <2>1, <2>2
  <1>5. p + Len(Append(s, x)) <= Len(T)
    BY <1>1, <1>3
  <1> QED
    BY <1>3, <1>4, <1>5 DEF At

\* A piece of a stream is one of the longer stream.
LEMMA AtConcat ==
  ASSUME NEW T \in Seq(Nat), NEW e \in Seq(Nat), NEW p \in Nat, NEW s, At(T, p, s)
  PROVE  At(T \o e, p, s)
  <1>1. s \in Seq(Nat) /\ p + Len(s) <= Len(T) /\ \A k \in 1 .. Len(s) : s[k] = T[p + k]
    BY DEF At
  <1>2. Len(s) \in Nat /\ Len(T) \in Nat /\ Len(e) \in Nat
    BY <1>1
  <1>3. \A k \in 1 .. Len(s) : p + k \in 1 .. Len(T)
    BY <1>1, <1>2
  <1>4. \A k \in 1 .. Len(s) : s[k] = (T \o e)[p + k]
    BY <1>1, <1>3, ConcatCells
  <1>5. p + Len(s) <= Len(T \o e)
    BY <1>1, <1>2, ConcatCells
  <1> QED
    BY <1>1, <1>4, <1>5 DEF At

\* An empty piece is anywhere, and a stream ends with what was added last.
LEMMA AtEnds ==
  ASSUME NEW T \in Seq(Nat), NEW e \in Seq(Nat)
  PROVE  /\ \A p \in 0 .. Len(T) : At(T, p, << >>)
         /\ At(T \o e, Len(T), e)
  BY ConcatCells DEF At

\* With another frame at the end of the stream, frames end at c.
Grown(T, b, F, e, c) ==
  /\ Framed(T \o e, c, Append(F, e))
  /\ \A i \in 0 .. Len(F) : c[i] = b[i]
  /\ c[Len(F) + 1] = Len(T) + Len(e)

LEMMA FramedGrows ==
  ASSUME NEW T, NEW b, NEW F, Framed(T, b, F), NEW e \in Seq(Nat)
  PROVE  \E c : Grown(T, b, F, e, c)
  <1> DEFINE n == Len(F)
             U == T \o e
             G == Append(F, e)
             c == [i \in 0 .. n + 1 |-> IF i <= n THEN b[i] ELSE Len(T) + Len(e)]
  <1>1. /\ T \in Seq(Nat) /\ F \in Seq(Seq(Nat)) /\ b \in [0 .. n -> Nat] /\ n \in Nat
        /\ b[0] = 1 /\ b[n] = Len(T) /\ Len(T) \in Nat /\ Len(e) \in Nat
        /\ \A i, j \in 0 .. n : i <= j => b[i] <= b[j]
    BY DEF Framed
  <1>2. /\ \A i \in 1 .. n : b[i] = b[i - 1] + Len(F[i]) /\ F[i] \in Seq(Nat)
        /\ \A i \in 1 .. n : \A k \in 1 .. Len(F[i]) : T[b[i - 1] + k] = F[i][k]
    BY <1>1 DEF Framed
  <1>3. /\ U \in Seq(Nat) /\ Len(U) = Len(T) + Len(e)
        /\ \A k \in 1 .. Len(T) : U[k] = T[k]
        /\ \A k \in 1 .. Len(e) : U[Len(T) + k] = e[k]
    BY <1>1, ConcatCells
  <1>4. /\ G \in Seq(Seq(Nat)) /\ Len(G) = n + 1 /\ G[n + 1] = e
        /\ \A i \in 1 .. n : G[i] = F[i]
    BY <1>1
  <1>5. /\ c \in [0 .. n + 1 -> Nat] /\ c[n + 1] = Len(T) + Len(e)
        /\ \A i \in 0 .. n : c[i] = b[i]
    BY <1>1
  <1> HIDE DEF U, G, c, n
  <1>6. \A i, j \in 0 .. n + 1 : i <= j => c[i] <= c[j]
    <2>1. \A i \in 0 .. n : b[i] <= Len(T)
      BY <1>1
    <2>2. \A i \in 0 .. n + 1 : i \in 0 .. n \/ i = n + 1
      BY <1>1
    <2>3. ASSUME NEW i \in 0 .. n + 1, NEW j \in 0 .. n + 1, i <= j PROVE c[i] <= c[j]
      <3>1. CASE j \in 0 .. n
        <4>1. i \in 0 .. n
          BY <1>1, <2>3, <3>1
        <4> QED
          BY <1>1, <1>5, <2>3, <3>1, <4>1
      <3>2. CASE j = n + 1
        <4>1. c[i] \in Nat /\ (i \in 0 .. n => c[i] <= Len(T))
          BY <1>5, <2>1
        <4> QED
          BY <1>1, <1>5, <2>2, <3>2, <4>1
      <3> QED
        BY <2>2, <3>1, <3>2
    <2> QED
      BY <2>3
  <1>7. ASSUME NEW i \in 1 .. n + 1
        PROVE  /\ c[i] = c[i - 1] + Len(G[i])
               /\ \A k \in 1 .. Len(G[i]) : U[c[i - 1] + k] = G[i][k]
    <2>1. CASE i = n + 1
      <3>1. i - 1 = n /\ n \in 0 .. n
        BY <1>1, <2>1
      <3>2. c[i - 1] = Len(T) /\ c[i] = Len(T) + Len(e) /\ G[i] = e
        BY <1>1, <1>4, <1>5, <2>1, <3>1
      <3> QED
        BY <1>3, <3>2
    <2>2. CASE i # n + 1
      <3>1. i \in 1 .. n /\ i - 1 \in 0 .. n /\ i \in 0 .. n
        BY <1>1, <2>2
      <3>2. G[i] = F[i] /\ c[i] = b[i] /\ c[i - 1] = b[i - 1]
        BY <1>4, <1>5, <3>1
      <3>3. b[i - 1] \in Nat /\ b[i] \in Nat /\ b[i] <= Len(T) /\ Len(F[i]) \in Nat
        BY <1>1, <1>2, <3>1
      <3>4. ASSUME NEW k \in 1 .. Len(F[i]) PROVE U[b[i - 1] + k] = F[i][k]
        <4>1. b[i - 1] + k \in 1 .. Len(T)
          BY <1>2, <3>1, <3>3
        <4> QED
          BY <1>2, <1>3, <3>1, <4>1
      <3> QED
        BY <1>2, <3>1, <3>2, <3>4
    <2> QED
      BY <2>1, <2>2
  <1>8. c[0] = 1
    BY <1>1, <1>5
  <1>9. Framed(U, c, G)
    BY <1>3, <1>4, <1>5, <1>6, <1>7, <1>8 DEF Framed
  <1>10. Grown(T, b, F, e, c)
    BY <1>5, <1>9 DEF U, G, n, Grown
  <1> QED
    BY <1>10

\* After the first n frames there is another, with these cells.
NextFrame(T, b, F, n) ==
  /\ n + 1 \in 1 .. Len(F) /\ b[n] \in Nat /\ b[n + 1] \in Nat
  /\ F[n + 1] \in Seq(Nat) /\ b[n + 1] = b[n] + Len(F[n + 1]) /\ b[n + 1] <= Len(T)
  /\ \A k \in 1 .. Len(F[n + 1]) : T[b[n] + k] = F[n + 1][k]

\* A stream that goes on after a frame has another frame there.
LEMMA FrameCells ==
  ASSUME NEW T, NEW b, NEW F, Framed(T, b, F), NEW n \in 0 .. Len(F), b[n] < Len(T)
  PROVE  NextFrame(T, b, F, n)
  <1>0. /\ b[Len(F)] = Len(T) /\ b \in [0 .. Len(F) -> Nat]
        /\ F \in Seq(Seq(Nat)) /\ T \in Seq(Nat)
        /\ \A i, j \in 0 .. Len(F) : i <= j => b[i] <= b[j]
    BY Zenon DEF Framed
  <1>1. Len(F) \in Nat /\ Len(T) \in Nat
    BY <1>0
  <1>2. n # Len(F)
    BY <1>0, <1>1
  <1>3. n + 1 \in 1 .. Len(F) /\ (n + 1) - 1 = n
    BY <1>1, <1>2
  <1>4. /\ b[n + 1] = b[(n + 1) - 1] + Len(F[n + 1])
        /\ \A k \in 1 .. Len(F[n + 1]) : T[b[(n + 1) - 1] + k] = F[n + 1][k]
    BY <1>3, Zenon DEF Framed
  <1>5. /\ b[n] \in Nat /\ b[n + 1] \in Nat /\ F[n + 1] \in Seq(Nat) /\ b[n + 1] <= Len(T)
    <2>1. n + 1 \in 0 .. Len(F) /\ Len(F) \in 0 .. Len(F) /\ n + 1 <= Len(F)
      BY <1>1, <1>3
    <2>2. b[n] \in Nat /\ b[n + 1] \in Nat
      BY <1>0, <2>1
    <2>3. F[n + 1] \in Seq(Nat)
      BY <1>0, <1>3
    <2>4. b[n + 1] <= b[Len(F)]
      BY <1>0, <2>1, Zenon
    <2> QED
      BY <1>0, <2>2, <2>3, <2>4
  <1> QED
    BY <1>3, <1>4, <1>5 DEF NextFrame

-----------------------------------------------------------------------------
SigWord(m) == IF m.form = "null" THEN Null ELSE Len(m.sig)
BodyOf(m) == IF m.form = "short" THEN m.fields
             ELSE <<m.call, SigWord(m)>> \o m.sig \o m.fields

\* Sequences with the same cells are the same.
LEMMA SameCells ==
  ASSUME NEW s \in Seq(Nat), NEW t \in Seq(Nat), Len(s) = Len(t),
         \A k \in 1 .. Len(s) : s[k] = t[k]
  PROVE  s = t
  OBVIOUS

\* Where the parts of three joined sequences are.
LEMMA ThreeParts ==
  ASSUME NEW x \in Seq(Nat), NEW y \in Seq(Nat), NEW z \in Seq(Nat)
  PROVE  /\ x \o y \o z \in Seq(Nat) /\ Len(x \o y \o z) = Len(x) + Len(y) + Len(z)
         /\ \A k \in 1 .. Len(x) : (x \o y \o z)[k] = x[k]
         /\ \A k \in 1 .. Len(y) : (x \o y \o z)[Len(x) + k] = y[k]
         /\ \A k \in 1 .. Len(z) : (x \o y \o z)[Len(x) + Len(y) + k] = z[k]
  <1> DEFINE u == x \o y
             s == u \o z
  <1>1. /\ u \in Seq(Nat) /\ Len(u) = Len(x) + Len(y)
        /\ \A k \in 1 .. Len(x) : u[k] = x[k]
        /\ \A k \in 1 .. Len(y) : u[Len(x) + k] = y[k]
    BY ConcatCells
  <1> HIDE DEF u
  <1>2. /\ s \in Seq(Nat) /\ Len(s) = Len(u) + Len(z)
        /\ \A k \in 1 .. Len(u) : s[k] = u[k]
        /\ \A k \in 1 .. Len(z) : s[Len(u) + k] = z[k]
    BY <1>1, ConcatCells
  <1> HIDE DEF s
  <1>3. Len(x) \in Nat /\ Len(y) \in Nat /\ Len(z) \in Nat
    OBVIOUS
  <1>4. \A k \in 1 .. Len(x) : s[k] = x[k]
    BY <1>1, <1>2, <1>3
  <1>5. \A k \in 1 .. Len(y) : s[Len(x) + k] = y[k]
    <2>1. \A k \in 1 .. Len(y) : Len(x) + k \in 1 .. Len(u)
      BY <1>1, <1>3
    <2> QED
      BY <1>1, <1>2, <2>1
  <1>6. s = x \o y \o z
    BY DEF s, u
  <1> QED
    BY <1>1, <1>2, <1>3, <1>4, <1>5, <1>6

\* A part of a sequence, cut out.
LEMMA CutOut ==
  ASSUME NEW s \in Seq(Nat), NEW x \in Seq(Nat), NEW i \in Nat, i + Len(x) <= Len(s),
         \A k \in 1 .. Len(x) : s[i + k] = x[k]
  PROVE  SubSeq(s, i + 1, i + Len(x)) = x
  <1> DEFINE r == SubSeq(s, i + 1, i + Len(x))
  <1>1. Len(x) \in Nat /\ Len(s) \in Nat
    OBVIOUS
  <1>2. r \in Seq(Nat) /\ Len(r) = Len(x) /\ \A k \in 1 .. Len(x) : r[k] = s[i + k]
    BY <1>1
  <1> HIDE DEF r
  <1>3. r = x
    BY <1>2, SameCells
  <1> QED
    BY <1>3 DEF r

\* The shapes of messages, a request, its body and a response, and what is in
\* which cell of them.
Request(u, v, w, y, z) == <<u, v, w>> \o y \o z
CallBody(u, c, y, z) == <<u, c>> \o y \o z
Frame(u, c, y, z) == <<u, 0, 2 + Len(y) + Len(z), c, Len(y)>> \o y \o z

IsRequest(s, u, v, w, y, z) ==
  /\ s \in Seq(Nat) /\ Len(s) = 3 + Len(y) + Len(z)
  /\ s[1] = u /\ s[2] = v /\ s[3] = w
  /\ \A k \in 1 .. Len(z) : s[3 + Len(y) + k] = z[k]
IsCallBody(b, u, y, z) ==
  /\ b \in Seq(Nat) /\ ~Malformed(b) /\ b[1] = u
  /\ SubSeq(b, 3, 2 + SigLen(b)) = y
  /\ SubSeq(b, 3 + SigLen(b), Len(b)) = z
IsFrame(s, u, c, y, z) ==
  /\ s \in Seq(Nat) /\ Len(s) = 5 + Len(y) + Len(z)
  /\ s[1] = u /\ s[3] = 2 + Len(y) + Len(z) /\ s[4] = c
  /\ SubSeq(s, 6, 5 + s[5]) = y
  /\ SubSeq(s, 6 + s[5], Len(s)) = z

\* The cells of a header of three words, a part and a rest.
LEMMA ThreeWords ==
  ASSUME NEW u \in Nat, NEW v \in Nat, NEW w \in Nat, NEW y \in Seq(Nat), NEW z \in Seq(Nat)
  PROVE  IsRequest(Request(u, v, w, y, z), u, v, w, y, z)
  <1> DEFINE x == <<u, v, w>>
             s == Request(u, v, w, y, z)
  <1>1. x \in Seq(Nat) /\ Len(x) = 3 /\ x[1] = u /\ x[2] = v /\ x[3] = w
    OBVIOUS
  <1> HIDE DEF x
  <1>2. s = x \o y \o z
    BY DEF x, Request
  <1> HIDE DEF s
  <1>3. /\ x \o y \o z \in Seq(Nat) /\ Len(x \o y \o z) = Len(x) + Len(y) + Len(z)
        /\ \A k \in 1 .. Len(x) : (x \o y \o z)[k] = x[k]
        /\ \A k \in 1 .. Len(z) : (x \o y \o z)[Len(x) + Len(y) + k] = z[k]
    BY <1>1, ThreeParts, Zenon
  <1>4. 1 \in 1 .. 3 /\ 2 \in 1 .. 3 /\ 3 \in 1 .. 3
    OBVIOUS
  <1> QED
    BY <1>1, <1>2, <1>3, <1>4 DEF s, IsRequest

\* A body: the call, the signature with the word for its length, and the
\* fields.
LEMMA TwoWords ==
  ASSUME NEW u \in Nat, NEW c \in Nat, NEW y \in Seq(Nat), NEW z \in Seq(Nat),
         Len(y) = IF c = Null THEN 0 ELSE c
  PROVE  IsCallBody(CallBody(u, c, y, z), u, y, z)
  <1> DEFINE x == <<u, c>>
             n == Len(y)
             l == Len(z)
             b == CallBody(u, c, y, z)
  <1>0. n \in Nat /\ l \in Nat
    OBVIOUS
  <1>1. x \in Seq(Nat) /\ Len(x) = 2 /\ x[1] = u /\ x[2] = c
    BY <1>0
  <1> HIDE DEF x
  <1>2. b = x \o y \o z
    BY DEF x, CallBody
  <1> HIDE DEF b
  <1>3. /\ x \o y \o z \in Seq(Nat) /\ Len(x \o y \o z) = Len(x) + n + l
        /\ \A k \in 1 .. Len(x) : (x \o y \o z)[k] = x[k]
        /\ \A k \in 1 .. n : (x \o y \o z)[Len(x) + k] = y[k]
        /\ \A k \in 1 .. l : (x \o y \o z)[Len(x) + n + k] = z[k]
    BY <1>1, ThreeParts, Zenon
  <1>4. 1 \in 1 .. 2 /\ 2 \in 1 .. 2
    OBVIOUS
  <1>5. b \in Seq(Nat) /\ b[1] = u /\ SigLen(b) = n /\ Len(b) = 2 + n + l
    BY <1>1, <1>2, <1>3, <1>4 DEF SigLen
  <1>6. \A k \in 1 .. n : b[2 + k] = y[k]
    BY <1>1, <1>2, <1>3
  <1>7. \A k \in 1 .. l : b[(2 + n) + k] = z[k]
    BY <1>1, <1>2, <1>3
  <1>8. ~Malformed(b)
    <2>1. ~(Len(b) < 2) /\ ~(Len(b) < 2 + SigLen(b))
      BY <1>0, <1>5
    <2> QED
      BY <2>1 DEF Malformed
  <1>9. SubSeq(b, 3, 2 + SigLen(b)) = y
    <2>1. 3 = 2 + 1 /\ 2 + SigLen(b) = 2 + n /\ 2 + n <= Len(b) /\ 2 \in Nat
      BY <1>0, <1>5
    <2>2. SubSeq(b, 2 + 1, 2 + n) = y
      BY <1>5, <1>6, <2>1, CutOut, Zenon
    <2> QED
      BY <2>1, <2>2
  <1>10. SubSeq(b, 3 + SigLen(b), Len(b)) = z
    <2> DEFINE i == 2 + n
    <2>1. i \in Nat /\ 3 + SigLen(b) = i + 1 /\ Len(b) = i + l /\ i + l <= Len(b)
      BY <1>0, <1>5
    <2>2. \A k \in 1 .. l : b[i + k] = z[k]
      BY <1>7
    <2> HIDE DEF i
    <2>3. SubSeq(b, i + 1, i + l) = z
      BY <1>5, <2>1, <2>2, CutOut, Zenon
    <2> QED
      BY <2>1, <2>3
  <1> QED
    BY <1>5, <1>8, <1>9, <1>10 DEF b, IsCallBody

\* A response: five words, the signature and the fields.
LEMMA FiveWords ==
  ASSUME NEW u \in Nat, NEW c \in Nat, NEW y \in Seq(Nat), NEW z \in Seq(Nat)
  PROVE  IsFrame(Frame(u, c, y, z), u, c, y, z)
  <1> DEFINE x == <<u, 0, 2 + Len(y) + Len(z), c, Len(y)>>
             n == Len(y)
             l == Len(z)
             s == Frame(u, c, y, z)
  <1>0. n \in Nat /\ l \in Nat /\ 2 + n + l \in Nat
    OBVIOUS
  <1>1. x \in Seq(Nat) /\ Len(x) = 5 /\ x[1] = u /\ x[3] = 2 + n + l /\ x[4] = c /\ x[5] = n
    BY <1>0
  <1> HIDE DEF x
  <1>2. s = x \o y \o z
    BY DEF x, Frame
  <1> HIDE DEF s
  <1>3. /\ x \o y \o z \in Seq(Nat) /\ Len(x \o y \o z) = Len(x) + n + l
        /\ \A k \in 1 .. Len(x) : (x \o y \o z)[k] = x[k]
        /\ \A k \in 1 .. n : (x \o y \o z)[Len(x) + k] = y[k]
        /\ \A k \in 1 .. l : (x \o y \o z)[Len(x) + n + k] = z[k]
    BY <1>1, ThreeParts, Zenon
  <1>4. 1 \in 1 .. 5 /\ 3 \in 1 .. 5 /\ 4 \in 1 .. 5 /\ 5 \in 1 .. 5
    OBVIOUS
  <1>5. /\ s \in Seq(Nat) /\ Len(s) = 5 + n + l
        /\ s[1] = u /\ s[3] = 2 + n + l /\ s[4] = c /\ s[5] = n
    BY <1>1, <1>2, <1>3, <1>4
  <1>6. \A k \in 1 .. n : s[5 + k] = y[k]
    BY <1>1, <1>2, <1>3
  <1>7. \A k \in 1 .. l : s[(5 + n) + k] = z[k]
    BY <1>1, <1>2, <1>3
  <1>8. SubSeq(s, 6, 5 + s[5]) = y
    <2>1. 6 = 5 + 1 /\ 5 + s[5] = 5 + n /\ 5 + n <= Len(s) /\ 5 \in Nat
      BY <1>0, <1>5
    <2>2. SubSeq(s, 5 + 1, 5 + n) = y
      BY <1>5, <1>6, <2>1, CutOut, Zenon
    <2> QED
      BY <2>1, <2>2
  <1>9. SubSeq(s, 6 + s[5], Len(s)) = z
    <2> DEFINE i == 5 + n
    <2>1. i \in Nat /\ 6 + s[5] = i + 1 /\ Len(s) = i + l /\ i + l <= Len(s)
      BY <1>0, <1>5
    <2>2. \A k \in 1 .. l : s[i + k] = z[k]
      BY <1>7
    <2> HIDE DEF i
    <2>3. SubSeq(s, i + 1, i + l) = z
      BY <1>5, <2>1, <2>2, CutOut, Zenon
    <2> QED
      BY <2>1, <2>3
  <1> QED
    BY <1>5, <1>8, <1>9 DEF s, IsFrame

\* What a client writes: the header says how long options and body are.
LEMMA EncodeCells ==
  ASSUME NEW m \in Message
  PROVE  /\ Encode(m) \in Seq(Nat) /\ BodyOf(m) \in Seq(Nat)
         /\ Len(Encode(m)) = 3 + Len(m.options) + Len(BodyOf(m))
         /\ Encode(m)[1] = m.id /\ Encode(m)[2] = Len(m.options)
         /\ Encode(m)[3] = Len(BodyOf(m))
         /\ \A k \in 1 .. Len(BodyOf(m)) : Encode(m)[3 + Len(m.options) + k] = BodyOf(m)[k]
  <1>1. /\ m.id \in Nat /\ m.options \in Seq(Nat) /\ m.call \in Nat /\ m.sig \in Seq(Nat)
        /\ m.fields \in Seq(Nat)
    BY DEF Message
  <1>2. BodyOf(m) \in Seq(Nat)
    <2>1. <<m.call, SigWord(m)>> \in Seq(Nat)
      BY <1>1, ServeLoopAssumption DEF SigWord
    <2> QED
      BY <1>1, <2>1, ThreeParts DEF BodyOf
  <1>3. Len(m.options) \in Nat /\ Len(BodyOf(m)) \in Nat
    BY <1>1, <1>2
  <1>4. Encode(m) = Request(m.id, Len(m.options), Len(BodyOf(m)), m.options, BodyOf(m))
    BY DEF Encode, BodyOf, SigWord, Request
  <1>5. IsRequest(Encode(m), m.id, Len(m.options), Len(BodyOf(m)), m.options, BodyOf(m))
    BY <1>1, <1>2, <1>3, <1>4, ThreeWords
  <1> QED
    BY <1>2, <1>5 DEF IsRequest

\* What the server takes for the body of a message is its body.
LEMMA BodyRead ==
  ASSUME NEW m \in Message, NEW s \in Seq(Nat), Len(s) = Len(m.options) + Len(BodyOf(m)),
         \A k \in 1 .. Len(s) : s[k] = Encode(m)[3 + k]
  PROVE  SubSeq(s, Len(m.options) + 1, Len(s)) = BodyOf(m)
  <1> DEFINE n == Len(m.options)
             l == Len(BodyOf(m))
  <1>1. /\ BodyOf(m) \in Seq(Nat) /\ n \in Nat /\ l \in Nat
        /\ \A k \in 1 .. l : Encode(m)[3 + n + k] = BodyOf(m)[k]
    <2>1. m.options \in Seq(Nat)
      BY DEF Message
    <2> QED
      BY <2>1, EncodeCells
  <1>2. \A k \in 1 .. l : n + k \in 1 .. n + l /\ 3 + (n + k) = 3 + n + k
    BY <1>1
  <1>3. \A k \in 1 .. l : s[n + k] = BodyOf(m)[k]
    BY <1>1, <1>2
  <1>4. n + l <= Len(s)
    BY <1>1
  <1>5. SubSeq(s, n + 1, n + l) = BodyOf(m)
    BY <1>1, <1>3, <1>4, CutOut, Zenon
  <1> QED
    BY <1>5

\* Call, signature and fields of a body are found where the client put them, and a
\* short body is noticed.
LEMMA BodyParsed ==
  ASSUME NEW m \in Messages
  PROVE  LET b == BodyOf(m) IN
         /\ Malformed(b) <=> m.form = "short"
         /\ m.form # "short" => /\ b[1] = m.call
                               /\ SubSeq(b, 3, 2 + SigLen(b)) = m.sig
                               /\ SubSeq(b, 3 + SigLen(b), Len(b)) = m.fields
  <1>1. /\ m \in Message /\ m.call \in Nat /\ m.sig \in Seq(Nat) /\ m.fields \in Seq(Nat)
        /\ m.form \in {"plain", "null", "short"} /\ Null \in Nat
    BY ServeLoopAssumption DEF Message
  <1>2. CASE m.form = "short"
    <2>1. BodyOf(m) = m.fields
      BY <1>2 DEF BodyOf
    <2>2. Len(m.fields) < 2 \/ (m.fields[2] # Null /\ Len(m.fields) < 2 + m.fields[2])
      BY <1>2, ServeLoopAssumption
    <2> QED
      BY <1>2, <2>1, <2>2 DEF Malformed, SigLen
  <1>3. CASE m.form # "short"
    <2>1. BodyOf(m) = CallBody(m.call, SigWord(m), m.sig, m.fields)
      BY <1>3 DEF BodyOf, CallBody
    <2>2. SigWord(m) \in Nat /\ Len(m.sig) = IF SigWord(m) = Null THEN 0 ELSE SigWord(m)
      BY <1>1, <1>3, ServeLoopAssumption DEF SigWord
    <2>3. IsCallBody(BodyOf(m), m.call, m.sig, m.fields)
      BY <1>1, <2>1, <2>2, TwoWords
    <2> QED
      BY <1>3, <2>3 DEF IsCallBody
  <1> QED
    BY <1>1, <1>2, <1>3

\* What the server writes, and that a client that has read all of it has the answer.
LEMMA ResponseCells ==
  ASSUME NEW a \in Reply
  PROVE  /\ writeResponse(a) \in Seq(Nat)
         /\ Len(writeResponse(a)) = 5 + Len(a.sig) + Len(a.fields)
         /\ writeResponse(a)[3] = 2 + Len(a.sig) + Len(a.fields)
         /\ Len(a.sig) \in Nat /\ Len(a.fields) \in Nat
         /\ Decoded(writeResponse(a)) = a
  <1>1. /\ a.id \in Nat /\ a.call \in Nat /\ a.sig \in Seq(Nat) /\ a.fields \in Seq(Nat)
        /\ a = [id |-> a.id, call |-> a.call, sig |-> a.sig, fields |-> a.fields]
    BY DEF Reply
  <1>2. Len(a.sig) \in Nat /\ Len(a.fields) \in Nat
    BY <1>1
  <1> DEFINE w == writeResponse(a)
  <1>3. w = Frame(a.id, a.call, a.sig, a.fields)
    BY DEF writeResponse, Frame
  <1> HIDE DEF w
  <1>4. /\ w \in Seq(Nat) /\ Len(w) = 5 + Len(a.sig) + Len(a.fields)
        /\ w[1] = a.id /\ w[3] = 2 + Len(a.sig) + Len(a.fields) /\ w[4] = a.call
        /\ SubSeq(w, 6, 5 + w[5]) = a.sig
        /\ SubSeq(w, 6 + w[5], Len(w)) = a.fields
    <2>1. IsFrame(w, a.id, a.call, a.sig, a.fields)
      BY <1>1, <1>3, FiveWords
    <2> QED
      BY <2>1 DEF IsFrame
  <1>5. Decoded(w) = a
    BY <1>1, <1>4 DEF Decoded, Service!Answer
  <1> QED
    BY <1>2, <1>4, <1>5 DEF w

-----------------------------------------------------------------------------
\* x, y and z are what follows position p of the stream T.
Pieces(T, p, x, y, z) ==
  /\ T \in Seq(Nat) /\ p \in Nat
  /\ At(T, p, x) /\ At(T, p + Len(x), y) /\ At(T, p + Len(x) + Len(y), z)
  /\ p + Len(x) + Len(y) + Len(z) = Len(T)

LEMMA PiecesTypes ==
  ASSUME NEW T, NEW p, NEW x, NEW y, NEW z, Pieces(T, p, x, y, z)
  PROVE  /\ T \in Seq(Nat) /\ p \in Nat /\ x \in Seq(Nat) /\ y \in Seq(Nat) /\ z \in Seq(Nat)
         /\ Len(x) \in Nat /\ Len(y) \in Nat /\ Len(z) \in Nat /\ Len(T) \in Nat
         /\ p + Len(x) + Len(y) + Len(z) = Len(T)
         /\ \A k \in 1 .. Len(x) : x[k] = T[p + k]
  <1>1. T \in Seq(Nat) /\ x \in Seq(Nat) /\ y \in Seq(Nat) /\ z \in Seq(Nat)
    BY DEF Pieces, At
  <1>2. Len(x) \in Nat /\ Len(y) \in Nat /\ Len(z) \in Nat /\ Len(T) \in Nat
    BY <1>1
  <1>3. p \in Nat /\ p + Len(x) + Len(y) + Len(z) = Len(T)
    BY DEF Pieces
  <1>4. \A k \in 1 .. Len(x) : x[k] = T[p + k]
    BY DEF Pieces, At
  <1> QED
    BY <1>1, <1>2, <1>3, <1>4

\* A cell leaves the pipe.
LEMMA PiecesRead ==
  ASSUME NEW T, NEW p, NEW x, NEW y, NEW z, Pieces(T, p, x, y, z), y # << >>
  PROVE  /\ Pieces(T, p, Append(x, Head(y)), Tail(y), z)
         /\ Len(Append(x, Head(y))) = Len(x) + 1 /\ Len(Tail(y)) = Len(y) - 1
         /\ Len(y) > 0 /\ Head(y) \in Nat
  <1>1. /\ T \in Seq(Nat) /\ p \in Nat /\ At(T, p, x) /\ At(T, p + Len(x), y)
        /\ At(T, p + Len(x) + Len(y), z) /\ p + Len(x) + Len(y) + Len(z) = Len(T)
    BY DEF Pieces
  <1>2. /\ Len(x) \in Nat /\ Len(y) \in Nat /\ Len(z) \in Nat /\ Len(T) \in Nat
        /\ y \in Seq(Nat)
    BY PiecesTypes
  <1>3. p + Len(x) \in Nat
    BY <1>1, <1>2
  <1>4. /\ At(T, p + Len(x) + 1, Tail(y)) /\ Len(Tail(y)) = Len(y) - 1 /\ Len(y) > 0
        /\ Head(y) = T[p + Len(x) + 1] /\ p + Len(x) + 1 <= Len(T)
    BY <1>1, <1>3, AtHead
  <1>5. At(T, p, Append(x, Head(y))) /\ Len(Append(x, Head(y))) = Len(x) + 1
    BY <1>1, <1>4, AtAppend
  <1>6. /\ p + (Len(x) + 1) = p + Len(x) + 1
        /\ p + (Len(x) + 1) + (Len(y) - 1) = p + Len(x) + Len(y)
        /\ p + (Len(x) + 1) + (Len(y) - 1) + Len(z) = Len(T)
    <2>1. p \in Nat /\ p + Len(x) + Len(y) + Len(z) = Len(T)
      BY <1>1
    <2> QED
      BY <1>2, <2>1
  <1>7. Head(y) \in Nat
    BY <1>2, <1>4
  <1> QED
    BY <1>1, <1>4, <1>5, <1>6, <1>7 DEF Pieces

\* A cell enters the pipe.
LEMMA PiecesWrite ==
  ASSUME NEW T, NEW p, NEW x, NEW y, NEW z, Pieces(T, p, x, y, z), z # << >>
  PROVE  /\ Pieces(T, p, x, Append(y, Head(z)), Tail(z))
         /\ Len(Append(y, Head(z))) = Len(y) + 1 /\ Len(Tail(z)) = Len(z) - 1
         /\ Len(z) > 0
  <1>1. /\ T \in Seq(Nat) /\ p \in Nat /\ At(T, p, x) /\ At(T, p + Len(x), y)
        /\ At(T, p + Len(x) + Len(y), z) /\ p + Len(x) + Len(y) + Len(z) = Len(T)
    BY DEF Pieces
  <1>2. Len(x) \in Nat /\ Len(y) \in Nat /\ Len(z) \in Nat /\ Len(T) \in Nat
    BY PiecesTypes
  <1>3. p + Len(x) + Len(y) \in Nat /\ p + Len(x) \in Nat
    BY <1>1, <1>2
  <1>4. /\ At(T, p + Len(x) + Len(y) + 1, Tail(z)) /\ Len(Tail(z)) = Len(z) - 1 /\ Len(z) > 0
        /\ Head(z) = T[p + Len(x) + Len(y) + 1] /\ p + Len(x) + Len(y) + 1 <= Len(T)
    BY <1>1, <1>3, AtHead
  <1>5. At(T, p + Len(x), Append(y, Head(z))) /\ Len(Append(y, Head(z))) = Len(y) + 1
    BY <1>1, <1>3, <1>4, AtAppend
  <1>6. /\ p + Len(x) + (Len(y) + 1) = p + Len(x) + Len(y) + 1
        /\ p + Len(x) + (Len(y) + 1) + (Len(z) - 1) = Len(T)
    BY <1>1, <1>2
  <1> QED
    BY <1>1, <1>4, <1>5, <1>6 DEF Pieces

\* The cells that were read are used up.
LEMMA PiecesTaken ==
  ASSUME NEW T, NEW p, NEW x, NEW y, NEW z, Pieces(T, p, x, y, z)
  PROVE  Pieces(T, p + Len(x), << >>, y, z)
  <1>1. /\ T \in Seq(Nat) /\ p \in Nat /\ At(T, p + Len(x), y)
        /\ At(T, p + Len(x) + Len(y), z) /\ p + Len(x) + Len(y) + Len(z) = Len(T)
    BY DEF Pieces
  <1>2. Len(x) \in Nat /\ Len(y) \in Nat /\ Len(z) \in Nat /\ Len(T) \in Nat
    BY PiecesTypes
  <1>3. p + Len(x) \in 0 .. Len(T) /\ p + Len(x) \in Nat
    BY <1>1, <1>2
  <1>4. At(T, p + Len(x), << >>)
    BY <1>1, <1>3, AtEnds
  <1>5. p + Len(x) + Len(<< >>) = p + Len(x) /\ Len(<< >>) = 0
    BY <1>3
  <1> QED
    BY <1>1, <1>3, <1>4, <1>5 DEF Pieces

\* There is more to write.
LEMMA PiecesGrow ==
  ASSUME NEW T, NEW p, NEW x, NEW y, Pieces(T, p, x, y, << >>), NEW e \in Seq(Nat)
  PROVE  Pieces(T \o e, p, x, y, e)
  <1>1. /\ T \in Seq(Nat) /\ p \in Nat /\ At(T, p, x) /\ At(T, p + Len(x), y)
        /\ p + Len(x) + Len(y) + Len(<< >>) = Len(T)
    BY DEF Pieces
  <1>2. Len(x) \in Nat /\ Len(y) \in Nat /\ Len(T) \in Nat /\ Len(<< >>) = 0 /\ Len(e) \in Nat
    BY PiecesTypes
  <1>3. p + Len(x) + Len(y) = Len(T) /\ p + Len(x) \in Nat
    BY <1>1, <1>2
  <1>4. At(T \o e, p, x) /\ At(T \o e, p + Len(x), y)
    BY <1>1, <1>3, AtConcat
  <1>5. At(T \o e, Len(T), e)
    BY <1>1, AtEnds
  <1>6. T \o e \in Seq(Nat) /\ Len(T \o e) = Len(T) + Len(e)
    BY <1>1, ConcatCells
  <1> QED
    BY <1>1, <1>3, <1>4, <1>5, <1>6 DEF Pieces

\* A stream begins with a version.
LEMMA FirstCell ==
  ASSUME NEW v \in Nat
  PROVE  /\ Framed(<<v>>, [i \in 0 .. 0 |-> 1], << >>)
         /\ Pieces(<<v>>, 0, << >>, << >>, <<v>>)
  <1>1. <<v>> \in Seq(Nat) /\ Len(<<v>>) = 1 /\ << >> \in Seq(Seq(Nat)) /\ Len(<< >>) = 0
    OBVIOUS
  <1> DEFINE b == [i \in 0 .. 0 |-> 1]
  <1>2. b \in [0 .. 0 -> Nat] /\ \A i \in 0 .. 0 : b[i] = 1
    OBVIOUS
  <1> HIDE DEF b
  <1>3. Framed(<<v>>, b, << >>)
    BY <1>1, <1>2 DEF Framed
  <1>4. Pieces(<<v>>, 0, << >>, << >>, <<v>>)
    BY <1>1 DEF Pieces, At
  <1> QED
    BY <1>3, <1>4 DEF b

-----------------------------------------------------------------------------
\* The invariant.

\* A request is under way, and the requests with it.
Started == toWrite # << >> /\ current # NoMessage
Begun == IF Started THEN Append(requests, current) ELSE requests

Client ==
  /\ requests \in Seq(Messages)
  /\ current \in Messages \cup {NoMessage} /\ toWrite \in Seq(Nat)
  /\ Started => Len(requests) < MaxRequests

Control ==
  /\ pc \in {"version", "hello", "header", "body", "write", "returned"}
  /\ done \in BOOLEAN /\ (done => pc \in {"write", "returned"})
  /\ pc \in {"version", "header", "body"} => out = << >>
  /\ pc \in {"hello", "write"} => in = << >>
  /\ in \in Seq(Nat) /\ answers \in Seq(Reply) /\ received \in Seq(Reply)

\* What the client has begun to write is T, a version and the requests' frames F,
\* which end at b.  The server has used the first p cells: those of the requests it
\* has answered, and the header of the next one if that is in hdr.  The cells it has
\* read since, the pipe and the client's rest follow.
InPieces(T, b, F, p) ==
  /\ Framed(T, b, F)
  /\ Len(F) = Len(Begun) /\ \A i \in 1 .. Len(F) : F[i] = Encode(Begun[i])
  /\ Pieces(T, p, in, c2s, toWrite)
  /\ Len(answers) <= Len(F)
  /\ Len(requests) > 0 => b[Len(requests)] <= p + Len(in) + Len(c2s)
  /\ pc = "version" => p = 0
  /\ pc \in {"hello", "header", "write"} => p = b[Len(answers)]
  /\ pc = "body" => /\ p = b[Len(answers)] + 3
                    /\ \A k \in 1 .. 3 : hdr[k] = T[b[Len(answers)] + k]

InWire == pc # "returned" => \E T, b, F, p : InPieces(T, b, F, p)

\* Nothing was written to the client.
Silent == answers = << >> /\ s2c = << >> /\ out = << >> /\ got = << >> /\ received = << >>

\* What was handed to Write is R, a version and the answers' frames G, which end at
\* d.  The client has used the first q cells, those of what it has received, and g
\* is the part of the next answer it has read.
OutPieces(R, d, G, q, g) ==
  /\ Framed(R, d, G)
  /\ Len(G) = Len(answers) /\ \A i \in 1 .. Len(G) : G[i] = writeResponse(answers[i])
  /\ Pieces(R, q, g, s2c, out)
  /\ Len(received) <= Len(G)
  /\ \/ got = << >> /\ g = << >> /\ q = 0 /\ received = << >>
     \/ /\ got = <<"version">> \o g
        /\ q = d[Len(received)]
        /\ Len(received) < Len(G) => q + Len(g) < d[Len(received) + 1]

OutWire ==
  IF pc = "version" THEN Silent
  ELSE (pc = "returned" /\ Silent) \/ \E R, d, G, q, g : OutPieces(R, d, G, q, g)

IndInv == Client /\ Control /\ InWire /\ OutWire

-----------------------------------------------------------------------------
\* The requests on the wire.

LEMMA MessageTypes ==
  ASSUME NEW m \in Messages
  PROVE  /\ m \in Message /\ m # NoMessage
         /\ m.options \in Seq(Nat) /\ Len(m.options) \in Nat /\ Len(BodyOf(m)) \in Nat
         /\ Encode(m) \in Seq(Nat) /\ Encode(m) # << >>
  <1>1. m \in Message /\ m.options \in Seq(Nat)
    BY ServeLoopAssumption DEF Message
  <1>2. "id" \in DOMAIN m /\ "id" \notin DOMAIN NoMessage
    BY <1>1 DEF Message, NoMessage
  <1>3. /\ Encode(m) \in Seq(Nat) /\ BodyOf(m) \in Seq(Nat)
        /\ Len(Encode(m)) = 3 + Len(m.options) + Len(BodyOf(m))
    BY <1>1, EncodeCells
  <1>4. Len(m.options) \in Nat /\ Len(BodyOf(m)) \in Nat
    BY <1>1, <1>3
  <1>5. Len(Encode(m)) # 0
    BY <1>3, <1>4
  <1> QED
    BY <1>1, <1>2, <1>3, <1>4, <1>5

LEMMA BegunTypes ==
  ASSUME Client
  PROVE  /\ Begun \in Seq(Messages) /\ requests \in Seq(Messages) /\ Len(requests) \in Nat
         /\ Started => Begun = Append(requests, current) /\ Len(Begun) = Len(requests) + 1
                       /\ current \in Messages
         /\ ~Started => Begun = requests
         /\ \A i \in 1 .. Len(requests) : Begun[i] = requests[i]
  <1>1. requests \in Seq(Messages)
    BY DEF Client
  <1>2. CASE Started
    <2>1. current \in Messages
      BY <1>2 DEF Client, Started
    <2> QED
      BY <1>1, <1>2, <2>1 DEF Begun
  <1>3. CASE ~Started
    BY <1>1, <1>3 DEF Begun
  <1> QED
    BY <1>2, <1>3

\* The facts of InPieces the steps use.
LEMMA InTypes ==
  ASSUME Client, Control, NEW T, NEW b, NEW F, NEW p, InPieces(T, b, F, p)
  PROVE  /\ Framed(T, b, F) /\ Pieces(T, p, in, c2s, toWrite)
         /\ T \in Seq(Nat) /\ F \in Seq(Seq(Nat)) /\ b \in [0 .. Len(F) -> Nat]
         /\ p \in Nat /\ Len(F) \in Nat /\ Len(T) \in Nat
         /\ Len(answers) \in 0 .. Len(F) /\ Len(requests) \in 0 .. Len(F)
         /\ Len(in) \in Nat /\ Len(c2s) \in Nat /\ Len(toWrite) \in Nat
         /\ p + Len(in) + Len(c2s) + Len(toWrite) = Len(T)
         /\ b[0] = 1 /\ b[Len(F)] = Len(T)
         /\ \A i, j \in 0 .. Len(F) : i <= j => b[i] <= b[j]
  <1>1. /\ Framed(T, b, F) /\ Pieces(T, p, in, c2s, toWrite) /\ Len(answers) <= Len(F)
        /\ Len(F) = Len(Begun)
    BY DEF InPieces
  <1>2. /\ T \in Seq(Nat) /\ F \in Seq(Seq(Nat)) /\ b \in [0 .. Len(F) -> Nat]
        /\ b[0] = 1 /\ b[Len(F)] = Len(T)
        /\ \A i, j \in 0 .. Len(F) : i <= j => b[i] <= b[j]
    BY <1>1, Zenon DEF Framed
  <1>3. Len(F) \in Nat /\ Len(T) \in Nat
    BY <1>2
  <1>4. /\ p \in Nat /\ Len(in) \in Nat /\ Len(c2s) \in Nat /\ Len(toWrite) \in Nat
        /\ p + Len(in) + Len(c2s) + Len(toWrite) = Len(T)
    BY <1>1, PiecesTypes
  <1>5. answers \in Seq(Reply)
    BY DEF Control
  <1>6. Len(answers) \in 0 .. Len(F)
    BY <1>1, <1>3, <1>5
  <1>7. Len(requests) \in 0 .. Len(F)
    BY <1>1, <1>3, BegunTypes
  <1> QED
    BY <1>1, <1>2, <1>3, <1>4, <1>6, <1>7

\* The header was read of request m, which is on the stream from there.
Here(T, b, F, p, n, m) ==
  /\ n + 1 \in 1 .. Len(F) /\ m \in Messages
  /\ hdr[1] = m.id /\ hdr[2] = Len(m.options) /\ hdr[3] = Len(BodyOf(m))
  /\ Needed = Len(m.options) + Len(BodyOf(m)) /\ Needed \in Nat
  /\ b[n + 1] = p + Needed
  /\ \A k \in 1 .. Needed : T[p + k] = Encode(m)[3 + k]

LEMMA RequestHere ==
  ASSUME Client, Control, NEW T, NEW b, NEW F, NEW p, InPieces(T, b, F, p), pc = "body"
  PROVE  Here(T, b, F, p, Len(answers), Begun[Len(answers) + 1])
  <1> DEFINE n == Len(answers)
             m == Begun[n + 1]
             e == F[n + 1]
  <1>1. /\ Framed(T, b, F) /\ F \in Seq(Seq(Nat)) /\ b \in [0 .. Len(F) -> Nat]
        /\ p \in Nat /\ Len(F) \in Nat /\ Len(T) \in Nat /\ n \in 0 .. Len(F)
        /\ Len(in) \in Nat /\ Len(c2s) \in Nat /\ Len(toWrite) \in Nat
        /\ p + Len(in) + Len(c2s) + Len(toWrite) = Len(T)
    BY InTypes
  <1>2. /\ p = b[n] + 3 /\ \A k \in 1 .. 3 : hdr[k] = T[b[n] + k]
        /\ Len(F) = Len(Begun) /\ \A i \in 1 .. Len(F) : F[i] = Encode(Begun[i])
    BY DEF InPieces
  <1>3. b[n] \in Nat /\ b[n] < Len(T)
    BY <1>1, <1>2
  <1>4. /\ n + 1 \in 1 .. Len(F) /\ b[n + 1] \in Nat
        /\ e \in Seq(Nat) /\ b[n + 1] = b[n] + Len(e) /\ b[n + 1] <= Len(T)
        /\ \A k \in 1 .. Len(e) : T[b[n] + k] = e[k]
    <2>1. NextFrame(T, b, F, n)
      BY <1>1, <1>3, FrameCells
    <2> QED
      BY <2>1 DEF NextFrame
  <1>5. m \in Messages /\ e = Encode(m)
    BY <1>2, <1>4, BegunTypes
  <1> HIDE DEF n, m, e
  <1>6. /\ Len(m.options) \in Nat /\ Len(BodyOf(m)) \in Nat /\ m \in Message
    BY <1>5, MessageTypes
  <1>7. /\ Len(e) = 3 + Len(m.options) + Len(BodyOf(m))
        /\ e[1] = m.id /\ e[2] = Len(m.options) /\ e[3] = Len(BodyOf(m))
    BY <1>5, <1>6, EncodeCells
  <1>8. hdr[1] = m.id /\ hdr[2] = Len(m.options) /\ hdr[3] = Len(BodyOf(m))
    <2>1. 1 \in 1 .. Len(e) /\ 2 \in 1 .. Len(e) /\ 3 \in 1 .. Len(e)
      BY <1>6, <1>7
    <2> QED
      BY <1>2, <1>4, <1>7, <2>1
  <1>9. Needed = Len(m.options) + Len(BodyOf(m)) /\ Needed \in Nat
    BY <1>6, <1>8 DEF Needed
  <1>10. b[n + 1] = p + Needed
    <2>1. /\ b[n] \in Nat /\ p = b[n] + 3 /\ b[n + 1] = b[n] + Len(e)
          /\ Len(e) = 3 + Len(m.options) + Len(BodyOf(m))
      BY <1>2, <1>3, <1>4, <1>7, Zenon
    <2> QED
      BY <1>6, <1>9, <2>1
  <1>11. ASSUME NEW k \in 1 .. Needed PROVE T[p + k] = Encode(m)[3 + k]
    <2>1. 3 + k \in 1 .. Len(e) /\ p + k = b[n] + (3 + k)
      <3>1. /\ b[n] \in Nat /\ p = b[n] + 3 /\ Needed = Len(m.options) + Len(BodyOf(m))
            /\ Len(e) = 3 + Len(m.options) + Len(BodyOf(m))
        BY <1>2, <1>3, <1>7, <1>9, Zenon
      <3>2. k \in Nat /\ 1 <= k /\ k <= Needed
        BY <1>9
      <3> QED
        BY <1>6, <3>1, <3>2
    <2> QED
      BY <1>4, <1>5, <2>1
  <1> QED
    BY <1>4, <1>5, <1>8, <1>9, <1>10, <1>11 DEF n, m, Here

-----------------------------------------------------------------------------
\* The way in, step by step.

\* The client begins a request.
LEMMA InBegin ==
  ASSUME Client, Control, NEW T, NEW b, NEW F, NEW p, InPieces(T, b, F, p), Begin
  PROVE  \E U, c, G : InPieces(U, c, G, p)'
  <1>1. PICK m \in Messages : current' = m /\ toWrite' = Encode(m)
    BY DEF Begin
  <1>2. toWrite = << >> /\ UNCHANGED <<c2s, requests, pc, in, hdr, answers>>
    BY DEF Begin, serverVars
  <1> DEFINE e == Encode(m)
             U == T \o e
             G == Append(F, e)
             n == Len(answers)
  <1>3. e \in Seq(Nat) /\ e # << >> /\ m # NoMessage
    BY MessageTypes
  <1> HIDE DEF e
  <1>4. Begun = requests /\ Begun' = Append(requests, m)
    BY <1>1, <1>2, <1>3 DEF Begun, Started, e
  <1>5. /\ Framed(T, b, F) /\ Pieces(T, p, in, c2s, toWrite)
        /\ T \in Seq(Nat) /\ F \in Seq(Seq(Nat)) /\ b \in [0 .. Len(F) -> Nat]
        /\ p \in Nat /\ Len(F) \in Nat /\ Len(T) \in Nat
        /\ n \in 0 .. Len(F) /\ Len(requests) \in 0 .. Len(F)
        /\ Len(in) \in Nat /\ Len(c2s) \in Nat /\ Len(toWrite) \in Nat
        /\ p + Len(in) + Len(c2s) + Len(toWrite) = Len(T)
    BY InTypes
  <1>6a. PICK c : Grown(T, b, F, e, c)
    BY <1>3, <1>5, FramedGrows
  <1>6. Framed(U, c, G) /\ \A i \in 0 .. Len(F) : c[i] = b[i]
    BY <1>6a DEF Grown
  <1>7. /\ Len(F) = Len(Begun) /\ \A i \in 1 .. Len(F) : F[i] = Encode(Begun[i])
        /\ Len(requests) > 0 => b[Len(requests)] <= p + Len(in) + Len(c2s)
        /\ pc = "version" => p = 0
        /\ pc \in {"hello", "header", "write"} => p = b[n]
        /\ pc = "body" => p = b[n] + 3 /\ \A k \in 1 .. 3 : hdr[k] = T[b[n] + k]
    BY DEF InPieces
  <1>8. Len(G) = Len(Begun') /\ \A i \in 1 .. Len(G) : G[i] = Encode(Begun'[i])
    <2>1. requests \in Seq(Messages)
      BY DEF Client
    <2>2. /\ Len(G) = Len(F) + 1 /\ G[Len(F) + 1] = e
          /\ \A i \in 1 .. Len(F) : G[i] = F[i]
      BY <1>3, <1>5
    <2>3. /\ Len(Begun') = Len(F) + 1 /\ Begun'[Len(F) + 1] = m
          /\ \A i \in 1 .. Len(F) : Begun'[i] = requests[i]
      BY <1>4, <1>7, <2>1
    <2>4. \A i \in 1 .. Len(F) + 1 : i \in 1 .. Len(F) \/ i = Len(F) + 1
      BY <1>5
    <2> HIDE DEF G
    <2> QED
      BY <1>4, <1>7, <2>2, <2>3, <2>4 DEF e
  <1>9. Pieces(U, p, in, c2s, e)
    BY <1>2, <1>3, <1>5, PiecesGrow
  <1>10. c[n] = b[n] /\ c[Len(requests)] = b[Len(requests)] /\ b[n] \in Nat
    BY <1>5, <1>6
  <1>11. n <= Len(G)
    BY <1>5, <1>3
  <1>12. ASSUME pc = "body" PROVE \A k \in 1 .. 3 : hdr[k] = U[b[n] + k]
    <2>1. ASSUME NEW k \in 1 .. 3 PROVE U[b[n] + k] = T[b[n] + k]
      <3>1. b[n] + 3 <= Len(T)
        BY <1>5, <1>7, <1>10, <1>12
      <3>2. b[n] + k \in 1 .. Len(T)
        <4>1. b[n] \in Nat /\ Len(T) \in Nat
          BY <1>5, <1>10
        <4> QED
          BY <3>1, <4>1
      <3> QED
        BY <1>3, <1>5, <3>2, ConcatCells
    <2> QED
      BY <1>7, <1>12, <2>1
  <1> HIDE DEF U, G
  <1>13. InPieces(U, c, G, p)'
    BY <1>1, <1>2, <1>6, <1>7, <1>8, <1>9, <1>10, <1>11, <1>12 DEF InPieces, e
  <1> QED
    BY <1>13

\* The client writes a cell.
LEMMA InClientWrite ==
  ASSUME Client, Control, NEW T, NEW b, NEW F, NEW p, InPieces(T, b, F, p), ClientWrite
  PROVE  InPieces(T, b, F, p)'
  <1> DEFINE n == Len(answers)
  <1>1. /\ toWrite # << >> /\ c2s' = Append(c2s, Head(toWrite)) /\ toWrite' = Tail(toWrite)
        /\ requests' = IF Len(toWrite) = 1 /\ current # NoMessage
                       THEN Append(requests, current) ELSE requests
        /\ UNCHANGED <<current, pc, in, hdr, answers>>
    BY DEF ClientWrite, serverVars
  <1>2. /\ Framed(T, b, F) /\ Pieces(T, p, in, c2s, toWrite)
        /\ p \in Nat /\ Len(F) \in Nat /\ Len(T) \in Nat /\ b \in [0 .. Len(F) -> Nat]
        /\ n \in 0 .. Len(F) /\ Len(requests) \in 0 .. Len(F)
        /\ Len(in) \in Nat /\ Len(c2s) \in Nat /\ Len(toWrite) \in Nat
        /\ p + Len(in) + Len(c2s) + Len(toWrite) = Len(T) /\ b[Len(F)] = Len(T)
    BY InTypes
  <1>3. /\ Len(F) = Len(Begun) /\ \A i \in 1 .. Len(F) : F[i] = Encode(Begun[i])
        /\ n <= Len(F)
        /\ Len(requests) > 0 => b[Len(requests)] <= p + Len(in) + Len(c2s)
        /\ pc = "version" => p = 0
        /\ pc \in {"hello", "header", "write"} => p = b[n]
        /\ pc = "body" => p = b[n] + 3 /\ \A k \in 1 .. 3 : hdr[k] = T[b[n] + k]
    BY DEF InPieces
  <1>4. /\ Pieces(T, p, in, c2s', toWrite')
        /\ Len(c2s') = Len(c2s) + 1 /\ Len(toWrite') = Len(toWrite) - 1 /\ Len(toWrite) > 0
    BY <1>1, <1>2, PiecesWrite
  <1>5. toWrite' \in Seq(Nat)
    BY <1>4, PiecesTypes
  <1>6. CASE Started /\ Len(toWrite) = 1
    <2>1. toWrite' = << >> /\ requests' = Append(requests, current)
      BY <1>1, <1>4, <1>5, <1>6 DEF Started
    <2>2. Begun' = Begun
      BY <1>6, <2>1 DEF Begun, Started
    <2>3. Len(requests') = Len(F)
      BY <1>3, <1>6, <2>1 DEF Begun
    <2>4. b[Len(F)] <= p + Len(in) + Len(c2s')
      BY <1>2, <1>4, <1>6
    <2> QED
      BY <1>1, <1>2, <1>3, <1>4, <2>2, <2>3, <2>4 DEF InPieces
  <1>7. CASE ~(Started /\ Len(toWrite) = 1)
    <2>1. requests' = requests
      BY <1>1, <1>7 DEF Started
    <2>2. Begun' = Begun
      <3>1. CASE Started
        <4>1. Len(toWrite') # 0
          BY <1>2, <1>4, <1>7, <3>1
        <4>2. toWrite' # << >>
          BY <4>1
        <4> QED
          BY <1>1, <2>1, <3>1, <4>2 DEF Begun, Started
      <3>2. CASE ~Started
        BY <1>1, <2>1, <3>2 DEF Begun, Started
      <3> QED
        BY <3>1, <3>2
    <2>3. Len(requests) > 0 => b[Len(requests)] <= p + Len(in) + Len(c2s')
      <3>1. b[Len(requests)] \in Nat
        BY <1>2
      <3> QED
        BY <1>2, <1>3, <1>4, <3>1
    <2> QED
      BY <1>1, <1>2, <1>3, <1>4, <2>1, <2>2, <2>3 DEF InPieces
  <1> QED
    BY <1>6, <1>7

\* The server reads a cell.
LEMMA InRead ==
  ASSUME Client, Control, NEW T, NEW b, NEW F, NEW p, InPieces(T, b, F, p), Read
  PROVE  InPieces(T, b, F, p)'
  <1>1. /\ c2s # << >> /\ c2s' = Tail(c2s) /\ in' = Append(in, Head(c2s))
        /\ UNCHANGED <<toWrite, current, requests, pc, hdr, answers>>
    BY DEF Read, clientVars
  <1>2. /\ Pieces(T, p, in, c2s, toWrite)
        /\ p \in Nat /\ Len(in) \in Nat /\ Len(c2s) \in Nat
    BY InTypes
  <1>3. /\ Pieces(T, p, in', c2s', toWrite)
        /\ Len(in') = Len(in) + 1 /\ Len(c2s') = Len(c2s) - 1
    BY <1>1, <1>2, PiecesRead
  <1>4. p + Len(in') + Len(c2s') = p + Len(in) + Len(c2s)
    BY <1>2, <1>3
  <1>5. Begun' = Begun
    BY <1>1 DEF Begun, Started
  <1> QED
    BY <1>1, <1>3, <1>4, <1>5 DEF InPieces

\* The version was read.
LEMMA InNegotiate ==
  ASSUME Client, Control, NEW T, NEW b, NEW F, NEW p, InPieces(T, b, F, p),
         answers = << >>, negotiateProtocolVersion
  PROVE  \E q : InPieces(T, b, F, q)'
  <1>1. /\ pc = "version" /\ Len(in) = 1 /\ in' = << >> /\ pc' = "hello"
        /\ UNCHANGED <<c2s, toWrite, current, requests, hdr, answers>>
    BY DEF negotiateProtocolVersion, clientVars, Needed
  <1>2. /\ Pieces(T, p, in, c2s, toWrite) /\ b[0] = 1 /\ p = 0 /\ Len(c2s) \in Nat
    BY <1>1, InTypes DEF InPieces
  <1>3. Pieces(T, p + Len(in), << >>, c2s, toWrite)
    BY <1>2, PiecesTaken
  <1>4. p + Len(in) = 1 /\ Len(answers) = 0 /\ 1 + Len(<< >>) + Len(c2s) = 1 + Len(c2s)
    BY <1>1, <1>2
  <1>5. Begun' = Begun
    BY <1>1 DEF Begun, Started
  <1>6. Pieces(T, 1, << >>, c2s, toWrite)
    BY <1>3, <1>4
  <1>7. InPieces(T, b, F, 1)'
    BY <1>1, <1>2, <1>4, <1>5, <1>6 DEF InPieces
  <1> QED
    BY <1>7

\* A header was read.
LEMMA InReadHeader ==
  ASSUME Client, Control, NEW T, NEW b, NEW F, NEW p, InPieces(T, b, F, p), readHeader
  PROVE  \E q : InPieces(T, b, F, q)'
  <1> DEFINE q == p + 3
  <1>1. /\ pc = "header" /\ Len(in) = 3 /\ hdr' = in /\ in' = << >> /\ pc' = "body"
        /\ UNCHANGED <<c2s, toWrite, current, requests, answers>>
    BY DEF readHeader, clientVars, Needed
  <1>2. Pieces(T, p, in, c2s, toWrite) /\ p \in Nat /\ Len(c2s) \in Nat
    BY InTypes
  <1>3. /\ p = b[Len(answers)]
        /\ Len(requests) > 0 => b[Len(requests)] <= p + Len(in) + Len(c2s)
    BY <1>1 DEF InPieces
  <1>4. \A k \in 1 .. 3 : in[k] = T[p + k]
    BY <1>1, <1>2 DEF Pieces, At
  <1>5. Pieces(T, q, << >>, c2s, toWrite)
    BY <1>1, <1>2, PiecesTaken
  <1>6. q + Len(<< >>) + Len(c2s) = p + Len(in) + Len(c2s)
    BY <1>1, <1>2
  <1>7. Begun' = Begun
    BY <1>1 DEF Begun, Started
  <1>8. InPieces(T, b, F, q)'
    BY <1>1, <1>3, <1>4, <1>5, <1>6, <1>7 DEF InPieces
  <1> QED
    BY <1>8

\* The handler sees the request that is to be answered next, and no other.
LEMMA RequestRead ==
  ASSUME Client, Control, InWire, pc = "body", Len(in) = Needed
  PROVE  LET m == requests[Len(answers) + 1] IN
         /\ Service!Waiting /\ Service!First = m /\ m \in Messages
         /\ hdr[1] = m.id /\ Body = BodyOf(m)
  <1> DEFINE n == Len(answers)
             m == Begun[n + 1]
  <1>1. PICK T, b, F, p : InPieces(T, b, F, p)
    BY DEF InWire
  <1>2. /\ Pieces(T, p, in, c2s, toWrite)
        /\ T \in Seq(Nat) /\ b \in [0 .. Len(F) -> Nat]
        /\ p \in Nat /\ Len(F) \in Nat /\ Len(T) \in Nat
        /\ n \in 0 .. Len(F) /\ Len(requests) \in 0 .. Len(F)
        /\ Len(in) \in Nat /\ Len(c2s) \in Nat /\ Len(toWrite) \in Nat
        /\ p + Len(in) + Len(c2s) + Len(toWrite) = Len(T)
        /\ b[Len(F)] = Len(T)
    BY <1>1, InTypes
  <1>3. /\ n + 1 \in 1 .. Len(F) /\ m \in Messages
        /\ hdr[1] = m.id /\ hdr[2] = Len(m.options) /\ hdr[3] = Len(BodyOf(m))
        /\ Needed = Len(m.options) + Len(BodyOf(m)) /\ Needed \in Nat
        /\ b[n + 1] = p + Needed
        /\ \A k \in 1 .. Needed : T[p + k] = Encode(m)[3 + k]
    <2>1. Here(T, b, F, p, n, m)
      BY <1>1, RequestHere
    <2> QED
      BY <2>1 DEF Here
  <1>4. n + 1 <= Len(requests)
    <2>1. SUFFICES ASSUME ~(n + 1 <= Len(requests)) PROVE FALSE
      OBVIOUS
    <2>2. Len(F) = Len(Begun)
      BY <1>1 DEF InPieces
    <2>3. Started /\ Len(F) = Len(requests) + 1
      BY <1>2, <1>3, <2>1, <2>2, BegunTypes
    <2>4. n + 1 = Len(F)
      BY <1>2, <1>3, <2>1, <2>3
    <2>5. Len(toWrite) = 0
      <3>1. Len(T) = p + Len(in)
        BY <1>2, <1>3, <2>4, Zenon
      <3> QED
        BY <1>2, <3>1
    <2>6. toWrite \in Seq(Nat)
      BY <1>2, PiecesTypes
    <2>7. toWrite = << >>
      BY <2>5, <2>6
    <2> QED
      BY <2>3, <2>7 DEF Started
  <1>5. n + 1 \in 1 .. Len(requests) /\ n < Len(requests)
    BY <1>2, <1>3, <1>4
  <1>6. m = requests[n + 1]
    BY <1>5, BegunTypes
  <1>7. /\ in \in Seq(Nat) /\ \A k \in 1 .. Len(in) : in[k] = T[p + k]
    BY <1>2 DEF Pieces, At
  <1>8. Body = BodyOf(m)
    <2>1. m \in Message
      BY <1>3, MessageTypes
    <2>2. \A k \in 1 .. Len(in) : in[k] = Encode(m)[3 + k]
      BY <1>3, <1>7
    <2>3. Len(in) = Len(m.options) + Len(BodyOf(m))
      BY <1>3
    <2> HIDE DEF m
    <2>4. SubSeq(in, Len(m.options) + 1, Len(in)) = BodyOf(m)
      BY <1>7, <2>1, <2>2, <2>3, BodyRead
    <2> QED
      BY <1>3, <2>4 DEF Body
  <1> QED
    BY <1>3, <1>5, <1>6, <1>8 DEF Service!Waiting, Service!First

\* A request was read and is answered.
LEMMA InDispatch ==
  ASSUME Client, Control, NEW T, NEW b, NEW F, NEW p, InPieces(T, b, F, p),
         Dispatch, pc' # "returned", NEW a \in Reply, answers' = Append(answers, a)
  PROVE  \E q : InPieces(T, b, F, q)'
  <1> DEFINE n == Len(answers)
  <1>q. PICK q : q = p + Len(in)
    OBVIOUS
  <1>1. /\ pc = "body" /\ Len(in) = Needed /\ in' = << >>
        /\ UNCHANGED <<c2s, toWrite, current, requests, hdr>>
    BY DEF Dispatch, clientVars
  <1>2. pc' = "write"
    BY DEF Dispatch
  <1>3. Pieces(T, p, in, c2s, toWrite) /\ p \in Nat /\ Len(c2s) \in Nat /\ Len(in) \in Nat
    BY InTypes
  <1>4. n + 1 \in 1 .. Len(F) /\ b[n + 1] = p + Needed
    <2>1. Here(T, b, F, p, n, Begun[n + 1])
      BY <1>1, RequestHere
    <2> QED
      BY <2>1 DEF Here
  <1>5. Len(requests) > 0 => b[Len(requests)] <= p + Len(in) + Len(c2s)
    BY DEF InPieces
  <1>6. Pieces(T, q, << >>, c2s, toWrite)
    BY <1>3, <1>q, PiecesTaken
  <1>7. q + Len(<< >>) + Len(c2s) = p + Len(in) + Len(c2s)
    BY <1>3, <1>q
  <1>8. Begun' = Begun
    BY <1>1 DEF Begun, Started
  <1>9. Len(answers') = n + 1 /\ n + 1 <= Len(F)
    <2>1. answers \in Seq(Reply)
      BY DEF Control
    <2> QED
      BY <1>4, <2>1
  <1>10. q = b[n + 1]
    BY <1>1, <1>4, <1>q
  <1>11. q = b[Len(answers')] /\ Len(answers') <= Len(F)
    BY <1>9, <1>10
  <1>12. Len(requests') > 0 => b[Len(requests')] <= q + Len(in') + Len(c2s')
    BY <1>1, <1>5, <1>7
  <1>13. Pieces(T, q, in', c2s', toWrite')
    BY <1>1, <1>6
  <1>14. /\ Framed(T, b, F)
         /\ Len(F) = Len(Begun') /\ \A i \in 1 .. Len(F) : F[i] = Encode(Begun'[i])
    BY <1>8 DEF InPieces
  <1>15. /\ pc' # "version" /\ pc' # "body"
         /\ pc' \in {"hello", "header", "write"} => q = b[Len(answers')]
    BY <1>2, <1>11
  <1>16. InPieces(T, b, F, q)'
    BY <1>11, <1>12, <1>13, <1>14, <1>15, Zenon DEF InPieces
  <1> QED
    BY <1>16

-----------------------------------------------------------------------------
\* The way out, step by step.

\* What the client has read, after the version.
LEMMA AfterVersion ==
  ASSUME NEW g \in Seq(Nat), NEW h \in Nat
  PROVE  LET v == <<"version">> \o g IN
         /\ v # << >> /\ v[1] = "version" /\ Tail(v) = g
         /\ Append(v, h) = <<"version">> \o Append(g, h)
  <1> DEFINE S == Nat \cup {"version"}
             v == <<"version">> \o g
  <1>1. g \in Seq(S) /\ h \in S /\ <<"version">> \in Seq(S)
    OBVIOUS
  <1>2. /\ v \in Seq(S) /\ Len(v) = Len(g) + 1 /\ v[1] = "version"
        /\ \A k \in 1 .. Len(g) : v[k + 1] = g[k]
    BY <1>1
  <1>3. v # << >>
    BY <1>2
  <1>4. Tail(v) = g
    BY <1>1, <1>2
  <1>5. Append(v, h) = <<"version">> \o Append(g, h)
    BY <1>1, <1>2
  <1> QED
    BY <1>2, <1>3, <1>4, <1>5

\* The facts of OutPieces the steps use.
LEMMA OutTypes ==
  ASSUME Control, NEW R, NEW d, NEW G, NEW q, NEW g, OutPieces(R, d, G, q, g)
  PROVE  /\ Framed(R, d, G) /\ Pieces(R, q, g, s2c, out)
         /\ R \in Seq(Nat) /\ G \in Seq(Seq(Nat)) /\ d \in [0 .. Len(G) -> Nat]
         /\ q \in Nat /\ g \in Seq(Nat) /\ Len(G) \in Nat /\ Len(R) \in Nat
         /\ Len(G) = Len(answers) /\ Len(received) \in 0 .. Len(G)
         /\ Len(g) \in Nat /\ Len(s2c) \in Nat /\ Len(out) \in Nat
         /\ q + Len(g) + Len(s2c) + Len(out) = Len(R)
         /\ d[0] = 1 /\ d[Len(G)] = Len(R)
         /\ \A i \in 1 .. Len(G) : answers[i] \in Reply /\ G[i] = writeResponse(answers[i])
  <1>1. /\ Framed(R, d, G) /\ Pieces(R, q, g, s2c, out) /\ Len(received) <= Len(G)
        /\ Len(G) = Len(answers) /\ \A i \in 1 .. Len(G) : G[i] = writeResponse(answers[i])
    BY DEF OutPieces
  <1>2. /\ R \in Seq(Nat) /\ G \in Seq(Seq(Nat)) /\ d \in [0 .. Len(G) -> Nat]
        /\ d[0] = 1 /\ d[Len(G)] = Len(R)
    BY <1>1, Zenon DEF Framed
  <1>3. Len(G) \in Nat /\ Len(R) \in Nat
    BY <1>2
  <1>4. /\ q \in Nat /\ Len(g) \in Nat /\ Len(s2c) \in Nat /\ Len(out) \in Nat
        /\ q + Len(g) + Len(s2c) + Len(out) = Len(R) /\ g \in Seq(Nat)
    BY <1>1, PiecesTypes
  <1>5. answers \in Seq(Reply) /\ received \in Seq(Reply)
    BY DEF Control
  <1>6. Len(received) \in 0 .. Len(G)
    BY <1>1, <1>3, <1>5
  <1>7. \A i \in 1 .. Len(G) : answers[i] \in Reply
    BY <1>1, <1>5
  <1> QED
    BY <1>1, <1>2, <1>3, <1>4, <1>6, <1>7

\* Answer k + 1, which has begun to arrive, or will.
AnswerAt(R, d, G, k) ==
  /\ k + 1 \in 1 .. Len(G) /\ k < Len(answers) /\ answers[k + 1] \in Reply
  /\ G[k + 1] = writeResponse(answers[k + 1]) /\ G[k + 1] \in Seq(Nat)
  /\ d[k] \in Nat /\ d[k + 1] = d[k] + Len(G[k + 1])
  /\ Len(G[k + 1]) \in Nat /\ Len(G[k + 1]) > 4 /\ Len(G[k + 1]) = 3 + G[k + 1][3]
  /\ \A i \in 1 .. Len(G[k + 1]) : R[d[k] + i] = G[k + 1][i]

LEMMA AnswerHere ==
  ASSUME Control, NEW R, NEW d, NEW G, NEW q, NEW g, OutPieces(R, d, G, q, g),
         NEW k \in 0 .. Len(G), d[k] < Len(R)
  PROVE  AnswerAt(R, d, G, k)
  <1> DEFINE e == G[k + 1]
             a == answers[k + 1]
  <1>1. /\ Framed(R, d, G) /\ Len(G) = Len(answers) /\ Len(G) \in Nat
        /\ \A i \in 1 .. Len(G) : answers[i] \in Reply /\ G[i] = writeResponse(answers[i])
    BY OutTypes
  <1>2. NextFrame(R, d, G, k)
    BY <1>1, FrameCells
  <1>3. /\ k + 1 \in 1 .. Len(G) /\ d[k] \in Nat /\ e \in Seq(Nat)
        /\ d[k + 1] = d[k] + Len(e) /\ \A i \in 1 .. Len(e) : R[d[k] + i] = e[i]
    BY <1>2 DEF NextFrame
  <1>4. a \in Reply /\ e = writeResponse(a) /\ k < Len(answers)
    BY <1>1, <1>3
  <1> HIDE DEF e, a
  <1>5. /\ Len(e) = 5 + Len(a.sig) + Len(a.fields) /\ e[3] = 2 + Len(a.sig) + Len(a.fields)
        /\ Len(a.sig) \in Nat /\ Len(a.fields) \in Nat
    BY <1>4, ResponseCells
  <1>6. Len(e) > 4 /\ Len(e) = 3 + e[3] /\ Len(e) \in Nat
    <2>1. \A x, y \in Nat : 5 + x + y > 4 /\ 5 + x + y = 3 + (2 + x + y) /\ 5 + x + y \in Nat
      OBVIOUS
    <2> QED
      BY <1>5, <2>1, Zenon
  <1> QED
    BY <1>3, <1>4, <1>6 DEF e, a, AnswerAt

\* An answer is handed to Write.
LEMMA OutDispatch ==
  ASSUME Control, NEW R, NEW d, NEW G, NEW q, NEW g, OutPieces(R, d, G, q, g), out = << >>,
         NEW a \in Reply, answers' = Append(answers, a), out' = writeResponse(a),
         UNCHANGED <<s2c, got, received>>
  PROVE  \E S, c, H : OutPieces(S, c, H, q, g)'
  <1> DEFINE e == writeResponse(a)
             S == R \o e
             H == Append(G, e)
             k == Len(received)
  <1>1. e \in Seq(Nat) /\ Len(e) \in Nat /\ Len(e) > 0
    <2>1. /\ e \in Seq(Nat) /\ Len(e) = 5 + Len(a.sig) + Len(a.fields)
          /\ Len(a.sig) \in Nat /\ Len(a.fields) \in Nat
      BY ResponseCells
    <2>2. \A x, y \in Nat : 5 + x + y > 0 /\ 5 + x + y \in Nat
      OBVIOUS
    <2> QED
      BY <2>1, <2>2, Zenon
  <1>2. /\ Framed(R, d, G) /\ Pieces(R, q, g, s2c, out)
        /\ R \in Seq(Nat) /\ G \in Seq(Seq(Nat)) /\ d \in [0 .. Len(G) -> Nat]
        /\ q \in Nat /\ Len(G) \in Nat /\ Len(R) \in Nat
        /\ Len(G) = Len(answers) /\ k \in 0 .. Len(G)
        /\ Len(g) \in Nat /\ Len(s2c) \in Nat /\ Len(out) \in Nat
        /\ q + Len(g) + Len(s2c) + Len(out) = Len(R)
        /\ \A i \in 1 .. Len(G) : G[i] = writeResponse(answers[i])
    BY OutTypes
  <1> HIDE DEF e
  <1>3. PICK c : Grown(R, d, G, e, c)
    BY <1>1, <1>2, FramedGrows
  <1>4. /\ Framed(S, c, H) /\ \A i \in 0 .. Len(G) : c[i] = d[i]
        /\ c[Len(G) + 1] = Len(R) + Len(e)
    BY <1>3 DEF Grown
  <1>5. Len(H) = Len(answers') /\ \A i \in 1 .. Len(H) : H[i] = writeResponse(answers'[i])
    <2>1. answers \in Seq(Reply)
      BY DEF Control
    <2>2. /\ Len(H) = Len(G) + 1 /\ H[Len(G) + 1] = e
          /\ \A i \in 1 .. Len(G) : H[i] = G[i]
      BY <1>1, <1>2
    <2>3. /\ Len(answers') = Len(G) + 1 /\ answers'[Len(G) + 1] = a
          /\ \A i \in 1 .. Len(G) : answers'[i] = answers[i]
      BY <1>2, <2>1
    <2>4. \A i \in 1 .. Len(G) + 1 : i \in 1 .. Len(G) \/ i = Len(G) + 1
      BY <1>2
    <2> HIDE DEF H
    <2> QED
      BY <1>2, <2>2, <2>3, <2>4 DEF e
  <1>6. Len(H) = Len(G) + 1
    BY <1>1, <1>2
  <1>7. Pieces(S, q, g, s2c, e)
    BY <1>1, <1>2, PiecesGrow
  <1> HIDE DEF S, H
  <1>8. k <= Len(H)
    BY <1>2, <1>6
  <1>9. ASSUME got = <<"version">> \o g, q = d[k],
               k < Len(G) => q + Len(g) < d[k + 1]
        PROVE  q = c[k] /\ (k < Len(H) => q + Len(g) < c[k + 1])
    <2>1. q = c[k]
      BY <1>2, <1>4, <1>9
    <2>2. CASE k < Len(G)
      <3>1. k + 1 \in 0 .. Len(G)
        BY <1>2, <2>2
      <3>2. c[k + 1] = d[k + 1]
        BY <1>4, <3>1
      <3> QED
        BY <1>9, <2>1, <2>2, <3>2
    <2>3. CASE k = Len(G)
      <3>1. c[k + 1] = Len(R) + Len(e)
        BY <1>4, <2>3
      <3>2. q + Len(g) < Len(R) + Len(e)
        BY <1>1, <1>2
      <3> QED
        BY <2>1, <3>1, <3>2
    <2> QED
      BY <1>2, <2>2, <2>3
  <1>10. OutPieces(S, c, H, q, g)'
    <2>1. \/ got = << >> /\ g = << >> /\ q = 0 /\ received = << >>
          \/ got = <<"version">> \o g /\ q = d[k] /\ (k < Len(G) => q + Len(g) < d[k + 1])
      BY DEF OutPieces
    <2>2. \/ got = << >> /\ g = << >> /\ q = 0 /\ received = << >>
          \/ got = <<"version">> \o g /\ q = c[k] /\ (k < Len(H) => q + Len(g) < c[k + 1])
      BY <1>9, <2>1, Zenon
    <2>3. out' = e
      BY DEF e
    <2> QED
      BY <1>4, <1>5, <1>7, <1>8, <2>2, <2>3 DEF OutPieces
  <1> QED
    BY <1>10

\* A cell of an answer is written.
LEMMA OutWrite ==
  ASSUME Control, NEW R, NEW d, NEW G, NEW q, NEW g, OutPieces(R, d, G, q, g), Write
  PROVE  OutPieces(R, d, G, q, g)'
  <1>1. /\ out # << >> /\ s2c' = Append(s2c, Head(out)) /\ out' = Tail(out)
        /\ UNCHANGED <<got, received, answers>>
    BY DEF Write, clientVars
  <1>2. Pieces(R, q, g, s2c, out)
    BY DEF OutPieces
  <1>3. Pieces(R, q, g, s2c', out')
    BY <1>1, <1>2, PiecesWrite
  <1> QED
    BY <1>1, <1>3 DEF OutPieces

\* The client has received another answer, the next one that was given.
Receives == /\ Len(received) < Len(answers)
            /\ answers[Len(received) + 1] \in Reply
            /\ received' = Append(received, answers[Len(received) + 1])

\* The client reads the version.
LEMMA OutVersion ==
  ASSUME Control, NEW R, NEW d, NEW G, NEW q, NEW g, OutPieces(R, d, G, q, g), ClientRead,
         got = << >>
  PROVE  /\ \E r : OutPieces(R, d, G, r, << >>)'
         /\ received' = received
  <1>1. /\ s2c # << >> /\ s2c' = Tail(s2c) /\ UNCHANGED <<out, answers>>
        /\ got' = <<"version">> /\ received' = received
    BY DEF ClientRead, VersionRead, serverVars
  <1>2. /\ Framed(R, d, G) /\ Pieces(R, q, g, s2c, out) /\ Len(G) \in Nat /\ Len(R) \in Nat
        /\ d \in [0 .. Len(G) -> Nat] /\ d[0] = 1
    BY OutTypes
  <1>3. g = << >> /\ q = 0 /\ received = << >>
    <2>1. got # <<"version">> \o g
      BY <1>2, AfterVersion, PiecesTypes
    <2> QED
      BY <2>1 DEF OutPieces
  <1>4. Pieces(R, 1, << >>, s2c', out)
    <2> DEFINE x == Append(g, Head(s2c))
    <2>1. Pieces(R, q, x, s2c', out) /\ Len(x) = Len(g) + 1
      BY <1>1, <1>2, PiecesRead
    <2> HIDE DEF x
    <2>2. Len(x) = 1 /\ q + Len(x) = 1
      BY <1>3, <2>1
    <2> QED
      BY <2>1, <2>2, PiecesTaken
  <1>5. 0 < Len(G) => 1 + Len(<< >>) < d[1]
    <2>1. SUFFICES ASSUME 0 < Len(G) PROVE 1 < d[1]
      OBVIOUS
    <2>2. 0 \in 0 .. Len(G) /\ Len(G) \in 0 .. Len(G) /\ 1 \in 0 .. Len(G) /\ 1 \in 1 .. Len(G)
      BY <1>2, <2>1
    <2>3. d[1] = d[1 - 1] + Len(G[1]) /\ G[1] = writeResponse(answers[1]) /\ answers[1] \in Reply
      BY <2>2, OutTypes DEF Framed
    <2>4. /\ Len(G[1]) = 5 + Len(answers[1].sig) + Len(answers[1].fields)
          /\ Len(answers[1].sig) \in Nat /\ Len(answers[1].fields) \in Nat
      BY <2>3, ResponseCells
    <2>5. \A x, y \in Nat : 1 < 1 + (5 + x + y)
      OBVIOUS
    <2>6. 1 - 1 = 0
      OBVIOUS
    <2> QED
      BY <1>2, <2>3, <2>4, <2>5, <2>6, Zenon
  <1>6. Len(received) = 0 /\ 0 + 1 = 1 /\ <<"version">> \o << >> = <<"version">>
    BY <1>3
  <1>7. OutPieces(R, d, G, 1, << >>)'
    <2>1. /\ Framed(R, d, G)
          /\ Len(G) = Len(answers') /\ \A i \in 1 .. Len(G) : G[i] = writeResponse(answers'[i])
          /\ Len(received') <= Len(G)
      BY <1>1 DEF OutPieces
    <2>2. /\ got' = <<"version">> \o << >> /\ 1 = d[Len(received')]
          /\ Len(received') < Len(G) => 1 + Len(<< >>) < d[Len(received') + 1]
      BY <1>1, <1>2, <1>5, <1>6
    <2> QED
      BY <1>1, <1>4, <2>1, <2>2 DEF OutPieces
  <1> QED
    BY <1>1, <1>7

\* The client reads a cell of an answer.
LEMMA OutClientRead ==
  ASSUME Control, NEW R, NEW d, NEW G, NEW q, NEW g, OutPieces(R, d, G, q, g), ClientRead,
         got # << >>
  PROVE  /\ \E r, x : OutPieces(R, d, G, r, x)'
         /\ received' = received \/ Receives
  <1> DEFINE k == Len(received)
             e == G[k + 1]
  <1>1. /\ Framed(R, d, G) /\ Pieces(R, q, g, s2c, out) /\ Len(G) \in Nat /\ Len(R) \in Nat
        /\ d \in [0 .. Len(G) -> Nat] /\ k \in 0 .. Len(G) /\ g \in Seq(Nat) /\ q \in Nat
        /\ Len(g) \in Nat /\ Len(s2c) \in Nat /\ Len(out) \in Nat
        /\ q + Len(g) + Len(s2c) + Len(out) = Len(R)
    BY OutTypes
  <1>2. s2c # << >> /\ s2c' = Tail(s2c) /\ UNCHANGED <<out, answers>>
    BY DEF ClientRead, serverVars
  <1>3. /\ got = <<"version">> \o g /\ q = d[k]
        /\ k < Len(G) => q + Len(g) < d[k + 1]
    BY DEF OutPieces
  <1>4. PICK h : h = Head(s2c)
    OBVIOUS
  <1>5. PICK m : m = Append(g, h)
    OBVIOUS
  <1>6. /\ Pieces(R, q, m, s2c', out) /\ Len(m) = Len(g) + 1 /\ Len(s2c) > 0 /\ h \in Nat
    BY <1>1, <1>2, <1>4, <1>5, PiecesRead
  <1>7. /\ VersionRead /\ Append(Tail(got), h) = m
        /\ Append(got, h) = <<"version">> \o m
    BY <1>1, <1>3, <1>5, <1>6, AfterVersion DEF VersionRead
  <1>8. d[k] < Len(R)
    BY <1>1, <1>3, <1>6
  <1>9. /\ k + 1 \in 1 .. Len(G) /\ k < Len(answers) /\ answers[k + 1] \in Reply
        /\ e = writeResponse(answers[k + 1]) /\ e \in Seq(Nat)
        /\ d[k] \in Nat /\ d[k + 1] = d[k] + Len(e)
        /\ Len(e) \in Nat /\ Len(e) > 4 /\ Len(e) = 3 + e[3]
        /\ \A i \in 1 .. Len(e) : R[d[k] + i] = e[i]
    <2>1. AnswerAt(R, d, G, k)
      BY <1>1, <1>8, AnswerHere
    <2> QED
      BY <2>1 DEF AnswerAt
  <1> HIDE DEF e
  <1>10. m \in Seq(Nat) /\ Len(m) \in Nat /\ \A i \in 1 .. Len(m) : m[i] = R[q + i]
    <2>1. m \in Seq(Nat) /\ \A i \in 1 .. Len(m) : m[i] = R[q + i]
      BY <1>6 DEF Pieces, At
    <2> QED
      BY <2>1
  <1>11. Len(m) <= Len(e)
    <2>1. k < Len(G)
      BY <1>1, <1>9
    <2>2. q + Len(g) < q + Len(e)
      BY <1>3, <1>9, <2>1
    <2>3. Len(g) \in Nat /\ q \in Nat /\ Len(e) \in Nat /\ Len(m) = Len(g) + 1
      BY <1>1, <1>3, <1>6, <1>9
    <2> QED
      BY <2>2, <2>3
  <1>12. \A i \in 1 .. Len(m) : m[i] = e[i]
    <2>1. \A i \in 1 .. Len(m) : i \in 1 .. Len(e)
      BY <1>9, <1>10, <1>11
    <2> QED
      BY <1>3, <1>9, <1>10, <2>1
  <1>13. CASE Len(m) = Len(e)
    <2>1. m = e
      BY <1>9, <1>10, <1>12, <1>13, SameCells
    <2>2. got' = <<"version">> /\ received' = Append(received, Decoded(m))
      BY <1>4, <1>7, <1>9, <2>1 DEF ClientRead
    <2>3. Decoded(m) = answers[k + 1]
      BY <1>9, <2>1, ResponseCells
    <2>4. Receives
      BY <1>9, <2>2, <2>3 DEF Receives
    <2>5. PICK r : r = q + Len(m)
      OBVIOUS
    <2>6. Pieces(R, r, << >>, s2c', out)
      BY <1>6, <2>5, PiecesTaken
    <2>7. r = d[k + 1]
      BY <1>3, <1>9, <1>13, <2>5
    <2>8. Len(received') = k + 1 /\ k + 1 <= Len(G) /\ k + 1 \in 0 .. Len(G)
      <3>1. received \in Seq(Reply)
        BY DEF Control
      <3> QED
        BY <1>1, <1>9, <2>2, <2>3, <3>1
    <2>9. k + 1 < Len(G) => r + Len(<< >>) < d[k + 1 + 1]
      <3>1. SUFFICES ASSUME k + 1 < Len(G) PROVE d[k + 1] + 0 < d[k + 1 + 1]
        BY <2>7
      <3>2. k + 1 + 1 \in 1 .. Len(G) /\ (k + 1 + 1) - 1 = k + 1
        BY <1>1, <3>1
      <3>3. /\ d[k + 1 + 1] = d[(k + 1 + 1) - 1] + Len(G[k + 1 + 1])
            /\ G[k + 1 + 1] = writeResponse(answers[k + 1 + 1]) /\ answers[k + 1 + 1] \in Reply
        BY <3>2, OutTypes DEF Framed
      <3>4. /\ Len(G[k + 1 + 1]) = 5 + Len(answers[k + 1 + 1].sig) + Len(answers[k + 1 + 1].fields)
            /\ Len(answers[k + 1 + 1].sig) \in Nat /\ Len(answers[k + 1 + 1].fields) \in Nat
        BY <3>3, ResponseCells
      <3>5. \A i, x, y \in Nat : i + 0 < i + (5 + x + y)
        OBVIOUS
      <3>6. d[k + 1] \in Nat
        BY <1>1, <2>8
      <3> QED
        BY <3>2, <3>3, <3>4, <3>5, <3>6, Zenon
    <2>10. <<"version">> \o << >> = <<"version">>
      OBVIOUS
    <2>11. OutPieces(R, d, G, r, << >>)'
      <3>1. /\ Framed(R, d, G)
            /\ Len(G) = Len(answers') /\ \A i \in 1 .. Len(G) : G[i] = writeResponse(answers'[i])
        BY <1>2 DEF OutPieces
      <3>2. Len(received') <= Len(G)
        BY <2>8
      <3>3. Pieces(R, r, << >>, s2c', out')
        BY <1>2, <2>6
      <3>4. /\ got' = <<"version">> \o << >> /\ r = d[Len(received')]
            /\ Len(received') < Len(G) => r + Len(<< >>) < d[Len(received') + 1]
        BY <2>2, <2>7, <2>8, <2>9, <2>10
      <3> QED
        BY <3>1, <3>2, <3>3, <3>4 DEF OutPieces
    <2> QED
      BY <2>4, <2>11
  <1>14. CASE Len(m) # Len(e)
    <2>1. ~(Len(m) > 4 /\ Len(m) = 3 + m[3])
      <3>1. SUFFICES ASSUME Len(m) > 4 PROVE Len(m) # 3 + m[3]
        OBVIOUS
      <3>2. 3 \in 1 .. Len(m)
        BY <1>10, <3>1
      <3>3. m[3] = e[3]
        BY <1>12, <3>2
      <3> QED
        BY <1>9, <1>14, <3>3
    <2>2. got' = <<"version">> \o m /\ received' = received
      BY <1>4, <1>7, <2>1 DEF ClientRead
    <2>3. q + Len(m) < d[k + 1]
      <3>1. Len(m) < Len(e)
        BY <1>9, <1>10, <1>11, <1>14
      <3>2. d[k + 1] = q + Len(e)
        BY <1>3, <1>9
      <3> QED
        BY <1>1, <1>9, <1>10, <3>1, <3>2
    <2>4. OutPieces(R, d, G, q, m)'
      <3>1. /\ Framed(R, d, G) /\ Len(received') <= Len(G)
            /\ Len(G) = Len(answers') /\ \A i \in 1 .. Len(G) : G[i] = writeResponse(answers'[i])
        BY <1>2, <2>2 DEF OutPieces
      <3>2. Pieces(R, q, m, s2c', out')
        BY <1>2, <1>6
      <3>3. /\ got' = <<"version">> \o m /\ q = d[Len(received')]
            /\ Len(received') < Len(G) => q + Len(m) < d[Len(received') + 1]
        BY <1>3, <2>2, <2>3
      <3> QED
        BY <3>1, <3>2, <3>3 DEF OutPieces
    <2> QED
      BY <2>2, <2>4
  <1> QED
    BY <1>13, <1>14

-----------------------------------------------------------------------------
\* What the steps mean to the service.

\* An answer is well typed, and is one to C_Finalize if the request was that.
LEMMA OutcomeTypes ==
  ASSUME NEW m \in Messages,
         NEW a \in Service!Outcomes(m.id, m.call, m.sig, m.fields), a # End
  PROVE  a \in Reply /\ (a.call = callFinalize <=> m.call = callFinalize)
  <1>1. m.id \in Nat /\ m.call \in Nat /\ m.sig \in Seq(Nat) /\ m.fields \in Seq(Nat)
    BY ServeLoopAssumption DEF Message
  <1>2. /\ callFinalize \in Calls /\ callError # callFinalize
        /\ callError \in Nat /\ errFunctionNotSupported \in Nat /\ sigUlong \in Nat
        /\ errRandomNoRNG \in Nat /\ Errors \subseteq Nat
    BY ServeLoopAssumption
  <1>3. ASSUME NEW rv \in Nat PROVE /\ Service!ErrorAnswer(m.id, rv) \in Reply
                                    /\ Service!ErrorAnswer(m.id, rv).call = callError
    BY <1>1, <1>2 DEF Service!ErrorAnswer, Service!Answer, Reply
  <1>4. CASE m.call \notin Calls
    <2>1. a = Service!ErrorAnswer(m.id, errFunctionNotSupported)
      BY <1>4 DEF Service!Outcomes
    <2> QED
      BY <1>2, <1>3, <1>4, <2>1
  <1>5. CASE m.call \in Calls /\ m.call = callFinalize
    <2>1. a = Service!Answer(m.id, m.call, m.sig, m.fields)
      BY <1>5 DEF Service!Outcomes
    <2> QED
      BY <1>1, <1>5, <2>1 DEF Service!Answer, Reply
  <1>6. CASE m.call \in Calls \cap RandomCalls /\ m.call # callFinalize
    <2>1. a = Service!ErrorAnswer(m.id, errRandomNoRNG)
      BY <1>6 DEF Service!Outcomes
    <2> QED
      BY <1>2, <1>3, <1>6, <2>1
  <1>7. CASE m.call \in Calls \ RandomCalls /\ m.call # callFinalize
    <2>1. \/ \E r \in Results[m.call] : a = Service!Answer(m.id, m.call, r.sig, r.fields)
          \/ \E rv \in Errors : a = Service!ErrorAnswer(m.id, rv)
      BY <1>7 DEF Service!Outcomes
    <2>2. CASE \E r \in Results[m.call] : a = Service!Answer(m.id, m.call, r.sig, r.fields)
      <3>1. PICK r \in Results[m.call] : a = Service!Answer(m.id, m.call, r.sig, r.fields)
        BY <2>2
      <3>2. r.sig \in Seq(Nat) /\ r.fields \in Seq(Nat)
        BY <1>7, ServeLoopAssumption
      <3> QED
        BY <1>1, <1>7, <3>1, <3>2 DEF Service!Answer, Reply
    <2>3. CASE \E rv \in Errors : a = Service!ErrorAnswer(m.id, rv)
      BY <1>2, <1>3, <1>7, <2>3
    <2> QED
      BY <2>1, <2>2, <2>3
  <1> QED
    BY <1>4, <1>5, <1>6, <1>7

\* The two ways a request is dealt with.
Answers(a) == /\ a \in Service!Outcome(Service!First) \ {End} /\ a \in Reply
              /\ answers' = Append(answers, a) /\ out' = writeResponse(a)
              /\ done' = (a.call = callFinalize) /\ pc' = "write"
Ends == /\ End \in Service!Outcome(Service!First)
        /\ pc' = "returned" /\ UNCHANGED <<out, done, answers>>

LEMMA DispatchMeans ==
  ASSUME Client, Control, InWire, Dispatch
  PROVE  Service!Waiting /\ (Ends \/ \E a : Answers(a))
  <1> DEFINE m == Service!First
             b == Body
  <1>1. pc = "body" /\ Len(in) = Needed
    BY DEF Dispatch
  <1>2. Service!Waiting /\ m \in Messages /\ hdr[1] = m.id /\ b = BodyOf(m)
    BY <1>1, RequestRead
  <1> HIDE DEF m, b
  <1>3. /\ Malformed(b) <=> m.form = "short"
        /\ m.form # "short" => /\ b[1] = m.call
                              /\ SubSeq(b, 3, 2 + SigLen(b)) = m.sig
                              /\ SubSeq(b, 3 + SigLen(b), Len(b)) = m.fields
    BY <1>2, BodyParsed
  <1>4. CASE Malformed(b)
    <2>1. pc' = "returned" /\ UNCHANGED <<out, done, answers>>
      BY <1>4 DEF Dispatch, b
    <2>2. End \in Service!Outcome(m)
      BY <1>3, <1>4 DEF Service!Outcome
    <2> QED
      BY <1>2, <2>1, <2>2 DEF Ends, m
  <1>5. CASE ~Malformed(b)
    <2>1. PICK a \in Service!Outcomes(hdr[1], b[1], SubSeq(b, 3, 2 + SigLen(b)),
                                      SubSeq(b, 3 + SigLen(b), Len(b))) :
             IF a = End THEN pc' = "returned" /\ UNCHANGED <<out, done, answers>>
             ELSE /\ answers' = Append(answers, a)
                  /\ out' = writeResponse(a)
                  /\ done' = (b[1] = callFinalize)
                  /\ pc' = "write"
      BY <1>5 DEF Dispatch, b
    <2>2. a \in Service!Outcomes(m.id, m.call, m.sig, m.fields)
      BY <1>2, <1>3, <1>5, <2>1
    <2>3. Service!Outcome(m) = Service!Outcomes(m.id, m.call, m.sig, m.fields)
      BY <1>3, <1>5 DEF Service!Outcome
    <2>4. CASE a = End
      BY <1>2, <2>1, <2>2, <2>3, <2>4 DEF Ends, m
    <2>5. CASE a # End
      <3>1. a \in Reply /\ (a.call = callFinalize <=> m.call = callFinalize)
        BY <1>2, <2>2, <2>5, OutcomeTypes
      <3>2. done' = (a.call = callFinalize)
        <4>1. done' = (m.call = callFinalize)
          BY <1>3, <1>5, <2>1, <2>5
        <4> QED
          BY <3>1, <4>1
      <3>3. Answers(a)
        BY <2>1, <2>2, <2>3, <2>5, <3>1, <3>2 DEF Answers, m
      <3> QED
        BY <1>2, <3>3
    <2> QED
      BY <2>4, <2>5
  <1> QED
    BY <1>4, <1>5

\* The end of the requests is not met while a whole one is unanswered.
LEMMA ReadFailsMeans ==
  ASSUME Client, Control, InWire, ReadFails
  PROVE  ~Service!Waiting /\ pc # "returned" /\ ~done
  <1> DEFINE n == Len(answers)
  <1>1. Len(in) < Needed /\ c2s = << >>
    BY DEF ReadFails
  <1>2. Len(in) \in Nat
    BY DEF Control
  <1>3. pc \in {"version", "header", "body"}
    BY <1>1, <1>2 DEF Control, Needed
  <1>4. PICK T, b, F, p : InPieces(T, b, F, p)
    BY <1>3 DEF InWire
  <1>5. /\ Framed(T, b, F) /\ b \in [0 .. Len(F) -> Nat]
        /\ p \in Nat /\ Len(F) \in Nat
        /\ n \in 0 .. Len(F) /\ Len(requests) \in 0 .. Len(F)
        /\ b[0] = 1
        /\ \A i, j \in 0 .. Len(F) : i <= j => b[i] <= b[j]
    BY <1>4, InTypes
  <1>6. SUFFICES ASSUME n < Len(requests) PROVE FALSE
    BY <1>3 DEF Service!Waiting, Control
  <1>7. b[Len(requests)] <= p + Len(in)
    <2>1. Len(requests) > 0 => b[Len(requests)] <= p + Len(in) + Len(c2s)
      BY <1>4 DEF InPieces
    <2>2. Len(c2s) = 0 /\ Len(requests) > 0
      BY <1>1, <1>5, <1>6
    <2> QED
      BY <1>2, <1>5, <2>1, <2>2
  <1>8. /\ n + 1 \in 0 .. Len(F) /\ n + 1 \in 1 .. Len(F) /\ (n + 1) - 1 = n
        /\ n + 1 <= Len(requests) /\ 0 \in 0 .. Len(F) /\ 0 <= Len(requests)
    BY <1>5, <1>6
  <1>9. /\ b[n + 1] <= b[Len(requests)] /\ b[0] <= b[Len(requests)]
        /\ b[n + 1] \in Nat /\ b[n] \in Nat /\ b[Len(requests)] \in Nat
    BY <1>5, <1>8
  <1>10. CASE pc = "version"
    <2>1. p = 0 /\ Needed = 1
      BY <1>4, <1>10 DEF InPieces, Needed
    <2> QED
      BY <1>1, <1>2, <1>5, <1>7, <1>9, <2>1
  <1>11. CASE pc = "header"
    <2> DEFINE m == Begun[n + 1]
    <2>1. p = b[n] /\ Needed = 3
      BY <1>4, <1>11 DEF InPieces, Needed
    <2>2. b[n + 1] = b[(n + 1) - 1] + Len(F[n + 1])
      BY <1>5, <1>8, Zenon DEF Framed
    <2>3. F[n + 1] = Encode(m) /\ n + 1 \in 1 .. Len(Begun)
      BY <1>4, <1>8 DEF InPieces
    <2>4. m \in Messages
      BY <2>3, BegunTypes
    <2> HIDE DEF m
    <2>5. /\ Len(m.options) \in Nat /\ Len(BodyOf(m)) \in Nat
          /\ Len(Encode(m)) = 3 + Len(m.options) + Len(BodyOf(m))
      BY <2>4, MessageTypes, EncodeCells
    <2>6. b[n + 1] = b[n] + (3 + Len(m.options) + Len(BodyOf(m)))
      BY <1>8, <2>2, <2>3, <2>5, Zenon
    <2> QED
      BY <1>1, <1>2, <1>7, <1>9, <2>1, <2>5, <2>6
  <1>12. CASE pc = "body"
    <2>1. Here(T, b, F, p, n, Begun[n + 1])
      BY <1>4, <1>12, RequestHere
    <2>2. b[n + 1] = p + Needed /\ Needed \in Nat
      BY <2>1 DEF Here
    <2> QED
      BY <1>1, <1>2, <1>5, <1>7, <1>9, <2>2
  <1> QED
    BY <1>3, <1>10, <1>11, <1>12

-----------------------------------------------------------------------------
\* The invariant holds.

LEMMA InitInv == Init => IndInv
  <1> SUFFICES ASSUME Init PROVE IndInv
    OBVIOUS
  <1>1. /\ c2s = << >> /\ s2c = << >> /\ current = NoMessage /\ got = << >>
        /\ requests = << >> /\ received = << >> /\ pc = "version" /\ in = << >>
        /\ out = << >> /\ done = FALSE /\ answers = << >>
    BY DEF Init
  <1>2. PICK v \in Nat : toWrite = <<v>>
    BY ServeLoopAssumption DEF Init
  <1>3. ~Started /\ Begun = << >>
    BY <1>1 DEF Started, Begun
  <1>4. Client
    BY <1>1, <1>2, <1>3 DEF Client
  <1>5. Control
    <2>1. << >> \in Seq(Nat) /\ << >> \in Seq(Reply)
      OBVIOUS
    <2> QED
      BY <1>1, <2>1, Zenon DEF Control
  <1>6. OutWire
    BY <1>1 DEF OutWire, Silent
  <1>7. InWire
    <2> DEFINE b == [i \in 0 .. 0 |-> 1]
    <2>1. Framed(<<v>>, b, << >>) /\ Pieces(<<v>>, 0, in, c2s, toWrite)
      BY <1>1, <1>2, FirstCell
    <2>2. /\ Len(<< >>) = 0 /\ Len(answers) = 0 /\ Len(requests) = 0 /\ Len(Begun) = 0
      BY <1>1, <1>3
    <2> HIDE DEF b
    <2>3. InPieces(<<v>>, b, << >>, 0)
      BY <1>1, <2>1, <2>2 DEF InPieces
    <2> QED
      BY <2>3 DEF InWire
  <1> QED
    BY <1>4, <1>5, <1>6, <1>7 DEF IndInv

LEMMA ClientStep == IndInv /\ [Next]_vars => Client'
  <1> SUFFICES ASSUME IndInv, [Next]_vars PROVE Client'
    OBVIOUS
  <1>1. Client /\ requests \in Seq(Messages) /\ Len(requests) \in Nat
    BY BegunTypes DEF IndInv
  <1>2. CASE Begin
    <2>1. PICK m \in Messages : current' = m /\ toWrite' = Encode(m)
      BY <1>2 DEF Begin
    <2>2. toWrite' \in Seq(Nat)
      BY <2>1, MessageTypes
    <2> QED
      BY <1>1, <1>2, <2>1, <2>2 DEF Begin, Client
  <1>3. CASE ClientWrite
    <2>1. /\ current' = current /\ toWrite # << >> /\ toWrite' = Tail(toWrite)
          /\ requests' = IF Len(toWrite) = 1 /\ current # NoMessage
                         THEN Append(requests, current) ELSE requests
      BY <1>3 DEF ClientWrite
    <2>2. requests' \in Seq(Messages)
      BY <1>1, <2>1 DEF Client
    <2>3. ASSUME Started' PROVE Len(requests') < MaxRequests
      <3>1. Started /\ Tail(toWrite) # << >>
        BY <2>1, <2>3 DEF Started
      <3>2. CASE requests' = requests
        BY <1>1, <3>1, <3>2 DEF Client
      <3>3. CASE requests' # requests
        <4>1. Len(toWrite) = 1
          BY <2>1, <3>3
        <4> QED
          BY <1>1, <2>1, <3>1, <4>1 DEF Client
      <3> QED
        BY <3>2, <3>3
    <2> QED
      BY <1>1, <2>1, <2>2, <2>3 DEF Client
  <1>4. CASE UNCHANGED <<toWrite, current, requests>>
    BY <1>1, <1>4 DEF Client, Started
  <1>5. Begin \/ ClientWrite \/ UNCHANGED <<toWrite, current, requests>>
    BY DEF Next, ServerNext, vars, clientVars, ClientRead, StopSending, StopReceiving, Read,
           ReadFails, negotiateProtocolVersion, readHeader, Dispatch, Write, WriteFails, Close
  <1> QED
    BY <1>2, <1>3, <1>4, <1>5

LEMMA ControlStep == IndInv /\ [Next]_vars => Control'
  <1> SUFFICES ASSUME IndInv, [Next]_vars PROVE Control'
    OBVIOUS
  <1>1. Client /\ Control /\ InWire /\ OutWire
    BY DEF IndInv
  <1>2. /\ pc \in {"version", "hello", "header", "body", "write", "returned"}
        /\ done \in BOOLEAN /\ (done => pc \in {"write", "returned"})
        /\ pc \in {"version", "header", "body"} => out = << >>
        /\ pc \in {"hello", "write"} => in = << >>
        /\ in \in Seq(Nat) /\ answers \in Seq(Reply) /\ received \in Seq(Reply)
    BY <1>1 DEF Control
  <1>3. CASE Begin \/ ClientWrite \/ StopSending \/ StopReceiving \/ Close \/ UNCHANGED vars
    <2>1. UNCHANGED <<pc, in, out, done, answers, received>>
      BY <1>3 DEF Begin, ClientWrite, StopSending, StopReceiving, Close, vars, clientVars,
                  serverVars
    <2> QED
      BY <1>1, <2>1 DEF Control
  <1>4. CASE ClientRead
    <2>1. UNCHANGED <<pc, in, out, done, answers>>
      BY <1>4 DEF ClientRead, serverVars
    <2>2. received' \in Seq(Reply)
      <3>1. s2c # << >>
        BY <1>4 DEF ClientRead
      <3>2. PICK R, d, G, q, g : OutPieces(R, d, G, q, g)
        BY <1>1, <3>1 DEF OutWire, Silent
      <3>3. received' = received \/ Receives
        BY <1>1, <1>4, <3>2, OutVersion, OutClientRead
      <3> QED
        BY <1>2, <3>3 DEF Receives
    <2> QED
      BY <1>2, <2>1, <2>2 DEF Control
  <1>5. CASE Read
    <2>1. /\ Len(in) < Needed /\ c2s # << >> /\ in' = Append(in, Head(c2s))
          /\ UNCHANGED <<pc, out, done, answers, received>>
      BY <1>5 DEF Read, clientVars
    <2>2. pc \in {"version", "header", "body"}
      BY <1>2, <2>1 DEF Needed
    <2>3. PICK T, b, F, p : InPieces(T, b, F, p)
      BY <1>1, <2>2 DEF InWire
    <2>4. Head(c2s) \in Nat
      BY <2>1, <2>3, PiecesRead DEF InPieces
    <2>5. in' \in Seq(Nat)
      BY <1>2, <2>1, <2>4
    <2> QED
      BY <1>2, <2>1, <2>2, <2>5 DEF Control
  <1>6. CASE ReadFails \/ WriteFails
    <2>1. pc' = "returned" /\ UNCHANGED <<in, out, done, answers, received>>
      BY <1>6 DEF ReadFails, WriteFails, clientVars
    <2> QED
      BY <1>2, <2>1 DEF Control
  <1>7. CASE negotiateProtocolVersion
    <2>1. /\ pc = "version" /\ pc' = "hello" /\ in' = << >>
          /\ UNCHANGED <<done, answers, received>>
      BY <1>7 DEF negotiateProtocolVersion, clientVars
    <2>2. << >> \in Seq(Nat)
      OBVIOUS
    <2> QED
      BY <1>2, <2>1, <2>2 DEF Control
  <1>8. CASE readHeader
    <2>1. /\ pc = "header" /\ pc' = "body" /\ in' = << >>
          /\ UNCHANGED <<out, done, answers, received>>
      BY <1>8 DEF readHeader, clientVars
    <2>2. << >> \in Seq(Nat)
      OBVIOUS
    <2> QED
      BY <1>2, <2>1, <2>2 DEF Control
  <1>9. CASE Dispatch
    <2>1. pc = "body" /\ in' = << >> /\ UNCHANGED received /\ << >> \in Seq(Nat)
      BY <1>9 DEF Dispatch, clientVars
    <2>2. CASE Ends
      BY <1>2, <2>1, <2>2 DEF Ends, Control
    <2>3. CASE \E a : Answers(a)
      <3>1. PICK a : Answers(a)
        BY <2>3
      <3>2. /\ pc' = "write" /\ a \in Reply /\ answers' = Append(answers, a)
            /\ done' = (a.call = callFinalize)
        BY <3>1 DEF Answers
      <3>3. answers' \in Seq(Reply)
        BY <1>2, <3>2
      <3>4. done' \in BOOLEAN
        BY <3>2
      <3> QED
        BY <1>2, <2>1, <3>2, <3>3, <3>4, Zenon DEF Control
    <2> QED
      BY <1>1, <1>9, <2>2, <2>3, DispatchMeans
  <1>10. CASE Write
    <2>1. /\ pc \in {"hello", "write"} /\ out # << >> /\ out' = Tail(out)
          /\ pc' = IF Len(out) > 1 THEN pc ELSE IF done THEN "returned" ELSE "header"
          /\ UNCHANGED <<in, done, answers, received>>
      BY <1>10 DEF Write, clientVars
    <2>2. out \in Seq(Nat)
      <3>1. PICK R, d, G, q, g : OutPieces(R, d, G, q, g)
        BY <1>1, <2>1 DEF OutWire
      <3> QED
        BY <3>1, PiecesTypes DEF OutPieces
    <2>3. Len(out) > 1 \/ out' = << >>
      BY <2>1, <2>2
    <2> QED
      BY <1>2, <2>1, <2>3 DEF Control
  <1> QED
    BY <1>3, <1>4, <1>5, <1>6, <1>7, <1>8, <1>9, <1>10 DEF Next, ServerNext

LEMMA InStep == IndInv /\ [Next]_vars => InWire'
  <1> SUFFICES ASSUME IndInv, [Next]_vars, pc' # "returned"
               PROVE  \E T, b, F, p : InPieces(T, b, F, p)'
    BY DEF InWire
  <1>1. Client /\ Control /\ InWire /\ OutWire
    BY DEF IndInv
  <1>2. pc # "returned"
    BY <1>1 DEF Next, ServerNext, vars, clientVars, serverVars, Begin, ClientWrite, ClientRead,
      StopSending, StopReceiving, Read, ReadFails, negotiateProtocolVersion, readHeader,
      Dispatch, Write, WriteFails, Close
  <1>3. PICK T, b, F, p : InPieces(T, b, F, p)
    BY <1>1, <1>2 DEF InWire
  <1>4. CASE Begin
    BY <1>1, <1>3, <1>4, InBegin
  <1>5. CASE ClientWrite
    BY <1>1, <1>3, <1>5, InClientWrite
  <1>6. CASE Read
    BY <1>1, <1>3, <1>6, InRead
  <1>7. CASE negotiateProtocolVersion
    <2>1. answers = << >>
      BY <1>1, <1>7 DEF negotiateProtocolVersion, OutWire, Silent
    <2> QED
      BY <1>1, <1>3, <1>7, <2>1, InNegotiate
  <1>8. CASE readHeader
    BY <1>1, <1>3, <1>8, InReadHeader
  <1>9. CASE Dispatch
    <2>1. PICK a : Answers(a)
      BY <1>1, <1>9, DispatchMeans DEF Ends
    <2>2. a \in Reply /\ answers' = Append(answers, a)
      BY <2>1 DEF Answers
    <2> QED
      BY <1>1, <1>3, <1>9, <2>2, InDispatch
  <1>10. CASE Write
    <2>1. /\ pc \in {"hello", "write"} /\ pc' \in {pc, "returned", "header"}
          /\ UNCHANGED <<c2s, toWrite, current, requests, in, hdr, answers>>
      BY <1>10 DEF Write, clientVars
    <2>2. Begun' = Begun
      BY <2>1 DEF Begun, Started
    <2>3. InPieces(T, b, F, p)'
      BY <1>3, <2>1, <2>2 DEF InPieces
    <2> QED
      BY <2>3
  <1>11. CASE ClientRead \/ StopSending \/ StopReceiving \/ Close \/ UNCHANGED vars
    <2>1. UNCHANGED <<c2s, toWrite, current, requests, pc, in, hdr, answers>>
      BY <1>11 DEF ClientRead, StopSending, StopReceiving, Close, vars, clientVars, serverVars
    <2>2. Begun' = Begun
      BY <2>1 DEF Begun, Started
    <2>3. InPieces(T, b, F, p)'
      BY <1>3, <2>1, <2>2 DEF InPieces
    <2> QED
      BY <2>3
  <1>12. ~ReadFails /\ ~WriteFails
    BY DEF ReadFails, WriteFails
  <1> QED
    BY <1>4, <1>5, <1>6, <1>7, <1>8, <1>9, <1>10, <1>11, <1>12 DEF Next, ServerNext

LEMMA OutStep == IndInv /\ [Next]_vars => OutWire'
  <1> SUFFICES ASSUME IndInv, [Next]_vars PROVE OutWire'
    OBVIOUS
  <1>1. Client /\ Control /\ InWire /\ OutWire
    BY DEF IndInv
  <1>2. CASE \/ Begin \/ ClientWrite \/ StopSending \/ StopReceiving \/ Read \/ ReadFails
             \/ readHeader \/ WriteFails \/ Close \/ UNCHANGED vars
    <2>1. UNCHANGED <<answers, s2c, out, got, received>>
      BY <1>2 DEF Begin, ClientWrite, StopSending, StopReceiving, Read, ReadFails, readHeader,
                  WriteFails, Close, vars, clientVars, serverVars
    <2>2. /\ Silent' = Silent
          /\ \A R, d, G, q, g : OutPieces(R, d, G, q, g)' = OutPieces(R, d, G, q, g)
      BY <2>1 DEF Silent, OutPieces
    <2>3. \/ pc' = pc \/ pc' = "returned"
          \/ pc = "header" /\ pc' = "body"
      BY <1>2 DEF Begin, ClientWrite, StopSending, StopReceiving, Read, ReadFails, readHeader,
                  WriteFails, Close, vars, clientVars, serverVars
    <2> QED
      BY <1>1, <2>2, <2>3 DEF OutWire
  <1>3. CASE negotiateProtocolVersion
    <2>1. /\ pc = "version" /\ pc' = "hello" /\ out' = <<0>>
          /\ UNCHANGED <<answers, s2c, got, received>>
      BY <1>3 DEF negotiateProtocolVersion, clientVars
    <2>2. answers = << >> /\ s2c = << >> /\ got = << >> /\ received = << >>
      BY <1>1, <2>1 DEF OutWire, Silent
    <2> DEFINE d == [i \in 0 .. 0 |-> 1]
    <2>3. Framed(<<0>>, d, << >>) /\ Pieces(<<0>>, 0, << >>, s2c', out')
      BY <2>1, <2>2, FirstCell
    <2>4. Len(<< >>) = 0 /\ Len(answers') = 0 /\ Len(received') = 0
      BY <2>1, <2>2
    <2> HIDE DEF d
    <2>5. OutPieces(<<0>>, d, << >>, 0, << >>)'
      BY <2>1, <2>2, <2>3, <2>4 DEF OutPieces
    <2> QED
      BY <2>1, <2>5 DEF OutWire
  <1>4. CASE Dispatch
    <2>1. pc = "body" /\ UNCHANGED <<s2c, got, received>>
      BY <1>4 DEF Dispatch, clientVars
    <2>2. PICK R, d, G, q, g : OutPieces(R, d, G, q, g)
      BY <1>1, <2>1 DEF OutWire
    <2>3. CASE Ends
      <3>1. pc' = "returned" /\ OutPieces(R, d, G, q, g)'
        BY <2>1, <2>2, <2>3 DEF Ends, OutPieces
      <3> QED
        BY <3>1 DEF OutWire
    <2>4. CASE \E a : Answers(a)
      <3>1. PICK a : Answers(a)
        BY <2>4
      <3>2. /\ a \in Reply /\ answers' = Append(answers, a) /\ out' = writeResponse(a)
            /\ pc' = "write" /\ out = << >>
        BY <1>1, <2>1, <3>1 DEF Answers, Control
      <3>3. \E S, c, H : OutPieces(S, c, H, q, g)'
        BY <1>1, <2>1, <2>2, <3>2, OutDispatch
      <3> QED
        BY <3>2, <3>3 DEF OutWire
    <2> QED
      BY <1>1, <1>4, <2>3, <2>4, DispatchMeans
  <1>5. CASE Write
    <2>1. pc \in {"hello", "write"} /\ pc' # "version"
      BY <1>5 DEF Write
    <2>2. PICK R, d, G, q, g : OutPieces(R, d, G, q, g)
      BY <1>1, <2>1 DEF OutWire
    <2>3. OutPieces(R, d, G, q, g)'
      BY <1>1, <1>5, <2>2, OutWrite
    <2> QED
      BY <2>1, <2>3 DEF OutWire
  <1>6. CASE ClientRead
    <2>1. s2c # << >> /\ UNCHANGED pc
      BY <1>6 DEF ClientRead, serverVars
    <2>2. PICK R, d, G, q, g : OutPieces(R, d, G, q, g)
      BY <1>1, <2>1 DEF OutWire, Silent
    <2>3. pc # "version"
      BY <1>1, <2>1 DEF OutWire, Silent
    <2>4. \E r, x : OutPieces(R, d, G, r, x)'
      BY <1>1, <1>6, <2>2, OutVersion, OutClientRead
    <2> QED
      BY <2>1, <2>3, <2>4 DEF OutWire
  <1> QED
    BY <1>2, <1>3, <1>4, <1>5, <1>6 DEF Next, ServerNext

\* Every cell under way is where it belongs: the cells the server has read, those in
\* the pipe and those the client has yet to write are the requests not answered yet,
\* and likewise the other way (Handle, readRequest, writeResponse).
THEOREM CellsInOrder == Spec => []IndInv
  <1>1. IndInv /\ [Next]_vars => IndInv'
    BY ClientStep, ControlStep, InStep, OutStep DEF IndInv
  <1> QED
    BY <1>1, InitInv, PTL DEF Spec

-----------------------------------------------------------------------------
\* The loop implements the service.

LEMMA ServiceStep == IndInv /\ [Next]_vars => [Service!Next]_(Service!vars)
  <1> SUFFICES ASSUME IndInv, [Next]_vars PROVE Service!Next \/ UNCHANGED Service!vars
    OBVIOUS
  <1> DEFINE open == pc # "returned" /\ ~done
  <1>1. Client /\ Control /\ InWire /\ OutWire
    BY DEF IndInv
  <1>2. CASE \/ Begin \/ Read \/ negotiateProtocolVersion \/ readHeader \/ Close
             \/ UNCHANGED vars
    <2>1. /\ UNCHANGED <<requests, answers, received, sending, receiving, done>>
          /\ pc' = "returned" <=> pc = "returned"
      BY <1>2 DEF Begin, Read, negotiateProtocolVersion, readHeader, Close, vars, clientVars,
                  serverVars
    <2> QED
      BY <2>1, Zenon DEF Service!vars
  <1>3. CASE ClientWrite
    <2>1. /\ sending /\ toWrite # << >>
          /\ UNCHANGED <<answers, received, sending, receiving, pc, done>>
          /\ requests' = IF Len(toWrite) = 1 /\ current # NoMessage
                         THEN Append(requests, current) ELSE requests
      BY <1>3 DEF ClientWrite, serverVars
    <2>2. CASE Len(toWrite) = 1 /\ current # NoMessage
      <3>1. Len(requests) < MaxRequests /\ current \in Messages
        BY <1>1, <2>1, <2>2 DEF Client, Started
      <3>2. Service!Send
        BY <2>1, <2>2, <3>1, Zenon DEF Service!Send
      <3> QED
        BY <3>2 DEF Service!Next
    <2>3. CASE ~(Len(toWrite) = 1 /\ current # NoMessage)
      BY <2>1, <2>3, Zenon DEF Service!vars
    <2> QED
      BY <2>2, <2>3
  <1>4. CASE ClientRead
    <2>1. /\ receiving /\ s2c # << >>
          /\ UNCHANGED <<requests, answers, sending, receiving, pc, done>>
      BY <1>4 DEF ClientRead, serverVars
    <2>2. PICK R, d, G, q, g : OutPieces(R, d, G, q, g)
      BY <1>1, <2>1 DEF OutWire, Silent
    <2>3. received' = received \/ Receives
      BY <1>1, <1>4, <2>2, OutVersion, OutClientRead
    <2>4. CASE received' = received
      BY <2>1, <2>4, Zenon DEF Service!vars
    <2>5. CASE Receives
      <3>1. Service!Receive
        BY <2>1, <2>5, Zenon DEF Receives, Service!Receive
      <3> QED
        BY <3>1 DEF Service!Next
    <2> QED
      BY <2>3, <2>4, <2>5
  <1>5. CASE StopSending
    <2>1. Service!StopSending
      BY <1>5, Zenon DEF StopSending, serverVars, Service!StopSending
    <2> QED
      BY <2>1 DEF Service!Next
  <1>6. CASE StopReceiving
    <2>1. Service!StopReceiving
      BY <1>6, Zenon DEF StopReceiving, serverVars, Service!StopReceiving
    <2> QED
      BY <2>1 DEF Service!Next
  <1>7. CASE ReadFails
    <2>1. ~Service!Waiting /\ open
      BY <1>1, <1>7, ReadFailsMeans
    <2>2. /\ ~sending /\ pc' = "returned"
          /\ UNCHANGED <<requests, answers, received, sending, receiving>>
      BY <1>7 DEF ReadFails, clientVars
    <2>3. Service!GiveUp
      BY <2>1, <2>2, Zenon DEF Service!GiveUp
    <2> QED
      BY <2>3 DEF Service!Next
  <1>8. CASE Dispatch
    <2>1. open
      BY <1>1, <1>8 DEF Dispatch, Control
    <2>2. UNCHANGED <<requests, received, sending, receiving>>
      BY <1>8 DEF Dispatch, clientVars
    <2>3. Service!Waiting /\ (Ends \/ \E a : Answers(a))
      BY <1>1, <1>8, DispatchMeans
    <2>4. CASE Ends
      <3>1. Service!GiveUp
        BY <2>1, <2>2, <2>3, <2>4, Zenon DEF Service!GiveUp, Ends
      <3> QED
        BY <3>1 DEF Service!Next
    <2>5. CASE \E a : Answers(a)
      <3>1. PICK a : Answers(a)
        BY <2>5
      <3>2. /\ a \in Service!Outcome(Service!First) \ {End}
            /\ answers' = Append(answers, a)
            /\ (pc' # "returned" /\ ~done') = (a.call # callFinalize)
        BY <3>1, Zenon DEF Answers
      <3>3. Service!Serve
        BY <2>1, <2>2, <2>3, <3>2, Zenon DEF Service!Serve
      <3> QED
        BY <3>3 DEF Service!Next
    <2> QED
      BY <2>3, <2>4, <2>5
  <1>9. CASE Write
    <2>1. /\ UNCHANGED <<requests, answers, received, sending, receiving, done>>
          /\ pc # "returned"
          /\ pc' = "returned" => done
      BY <1>9 DEF Write, clientVars
    <2>2. (pc' # "returned" /\ ~done') = (pc # "returned" /\ ~done)
      BY <2>1, Zenon
    <2> QED
      BY <2>1, <2>2, Zenon DEF Service!vars
  <1>10. CASE WriteFails
    <2>1. /\ UNCHANGED <<requests, answers, received, sending, receiving, done>>
          /\ pc # "returned" /\ pc' = "returned" /\ ~receiving
      BY <1>10 DEF WriteFails, clientVars
    <2>2. CASE done
      <3>1. (pc' # "returned" /\ ~done') = (pc # "returned" /\ ~done)
        BY <2>1, <2>2, Zenon
      <3> QED
        BY <2>1, <3>1, Zenon DEF Service!vars
    <2>3. CASE ~done
      <3>1. Service!GiveUp
        BY <2>1, <2>3, Zenon DEF Service!GiveUp
      <3> QED
        BY <3>1 DEF Service!Next
    <2> QED
      BY <2>2, <2>3
  <1> QED
    BY <1>2, <1>3, <1>4, <1>5, <1>6, <1>7, <1>8, <1>9, <1>10 DEF Next, ServerNext

\* The loop implements the service of RPCService for any messages and pipes of any
\* capacity: over the wire no request is lost, repeated or taken for another,
\* answers keep their order and IDs, and Handle returns only when it may
\* (Handle, negotiateProtocolVersion, readRequest, writeResponse).
THEOREM Refinement == Spec => Implements
  <1>1. Init => Service!Init
    BY Zenon DEF Init, Service!Init
  <1> QED
    BY <1>1, ServiceStep, CellsInOrder, PTL DEF Spec, Implements, Service!Spec

=============================================================================
