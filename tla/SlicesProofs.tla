---------------------------- MODULE SlicesProofs ----------------------------
(***************************************************************************)
(* Proofs about Slices for any number of sessions, arrays, capacities and  *)
(* objects.  The argument is that an append writes only where nobody else  *)
(* looks: two lists on one array are both full (Separate), so appending to *)
(* either moves it to an array of its own.                                 *)
(***************************************************************************)
EXTENDS Slices, SequenceTheorems, TLAPS

\* What the theorems ask of the program: the list a GetObjects function returns
\* every time has no spare capacity.
NoSpareShared == "shared" \in Sources => Spare["shared"] = {0}

Slice == [arr: Arrays \cup {Nil}, len: Nat]
Heaps == [Arrays \cup {Nil} -> Seq(Nat)]

Types ==
  /\ heap \in Heaps
  /\ heap[Nil] = << >>
  /\ source \in Sources
  /\ kept \in Slice /\ stored \in Slice
  /\ lists \in [Sessions -> Slice \cup {Closed}]
  /\ left \in [Sessions -> Seq(Nat)]
  /\ made \in Nat
  /\ expected \in [Sessions -> Seq(Nat)]
  /\ expectedStored \in Seq(Nat)

\* Slice s lies inside its array in heap h and reads as q.
Holds(h, s, q) ==
  /\ s.len = Len(q)
  /\ s.len <= Len(h[s.arr])
  /\ \A k \in 1 .. s.len : h[s.arr][k] = q[k]

Full(s) == s.len = Len(heap[s.arr])

Own == \A i \in Sessions : lists[i] # Closed => Holds(heap, lists[i], expected[i])
Token == Holds(heap, stored, expectedStored)
Kept == /\ Holds(heap, kept, IF source = "shared" THEN Given ELSE << >>)
        /\ Full(kept)

\* Lists that share an array have no room in it.
Separate ==
  /\ stored.arr = kept.arr => Full(stored)
  /\ \A i \in Sessions : lists[i] # Closed =>
       /\ lists[i].arr = stored.arr => Full(lists[i]) /\ Full(stored)
       /\ lists[i].arr = kept.arr => Full(lists[i])
       /\ \A j \in Sessions \ {i} :
            (lists[j] # Closed /\ lists[j].arr = lists[i].arr) => Full(lists[i])

IndInv == Types /\ Own /\ Token /\ Kept /\ Separate

-----------------------------------------------------------------------------
\* A function on 1 .. n is a sequence of length n.
LEMMA FunctionIsSeq ==
  ASSUME NEW S, NEW n \in Nat, NEW f \in [1 .. n -> S]
  PROVE  f \in Seq(S) /\ Len(f) = n
  OBVIOUS

\* A fresh array starts with the sequence it was allocated for.
LEMMA PadLemma ==
  ASSUME NEW q \in Seq(Nat), NEW e \in Nat
  PROVE  LET p == q \o [k \in 1 .. e |-> Empty] IN
         /\ p \in Seq(Nat)
         /\ Len(p) = Len(q) + e
         /\ \A k \in 1 .. Len(q) : p[k] = q[k]
  <1> DEFINE z == [k \in 1 .. e |-> Empty]
  <1>1. z \in Seq(Nat) /\ Len(z) = e
    BY DEF Empty
  <1> HIDE DEF z
  <1>2. QED
    BY <1>1, ConcatProperties, LenProperties DEF z

\* An allocation is outside every array in use and leaves those alone.
LEMMA AllocatedLemma ==
  ASSUME Types, NEW q \in Seq(Nat), NEW r \in Allocated(q)
  PROVE  /\ r.slice \in Slice /\ r.heap \in Heaps /\ r.heap[Nil] = << >>
         /\ r.slice.arr \notin Used
         /\ Holds(r.heap, r.slice, q)
         /\ \A x \in (Arrays \cup {Nil}) \cap Used : r.heap[x] = heap[x]
  <1>1. PICK a \in Arrays \ Used, e \in Extra : r = AllocatedAt(a, q, e)
    BY DEF Allocated
  <1> DEFINE p == q \o [k \in 1 .. e |-> Empty]
  <1>2. p \in Seq(Nat) /\ Len(p) = Len(q) + e /\ \A k \in 1 .. Len(q) : p[k] = q[k]
    BY PadLemma, SlicesAssumption
  <1>3. r.slice = [arr |-> a, len |-> Len(q)]
    BY <1>1 DEF AllocatedAt
  <1> HIDE DEF p
  <1>4. r.heap = [x \in DOMAIN heap |-> IF x = a THEN p ELSE IF x \in Used THEN heap[x] ELSE << >>]
    BY <1>1 DEF AllocatedAt, p
  <1>5. Len(q) \in Nat /\ e \in Nat
    BY SlicesAssumption
  <1>6. DOMAIN heap = Arrays \cup {Nil} /\ \A x \in DOMAIN heap : heap[x] \in Seq(Nat)
    BY DEF Types, Heaps
  <1>7. r.heap \in Heaps /\ r.heap[Nil] = << >>
    BY <1>2, <1>4, <1>6, SlicesAssumption DEF Types, Heaps
  <1>8. r.heap[a] = p
    BY <1>4, <1>6
  <1>9. Holds(r.heap, r.slice, q)
    BY <1>2, <1>3, <1>5, <1>8 DEF Holds
  <1>10. QED
    BY <1>3, <1>4, <1>5, <1>6, <1>7, <1>9 DEF Slice

\* append returns a list that reads as the old one followed by what is new.  It
\* returns the old list, writes into its spare capacity, or moves.
LEMMA AppendedLemma ==
  ASSUME Types, NEW s \in Slice, NEW q \in Seq(Nat), Holds(heap, s, q),
         NEW new \in Seq(Nat), NEW r \in Appended(s, new)
  PROVE  /\ r.slice \in Slice /\ r.heap \in Heaps /\ r.heap[Nil] = << >>
         /\ Holds(r.heap, r.slice, q \o new)
         /\ \/ r.slice = s /\ r.heap = heap
            \/ /\ s.len < Len(heap[s.arr])
               /\ r.slice.arr = s.arr
               /\ Len(r.heap[s.arr]) = Len(heap[s.arr])
               /\ \A x \in Arrays \cup {Nil} : x # s.arr => r.heap[x] = heap[x]
            \/ /\ r.slice.arr \notin Used
               /\ \A x \in (Arrays \cup {Nil}) \cap Used : r.heap[x] = heap[x]
  <1> DEFINE n == s.len + Len(new)
  <1>1. /\ s.len \in Nat /\ s.arr \in Arrays \cup {Nil} /\ Len(new) \in Nat
        /\ heap[s.arr] \in Seq(Nat) /\ Len(heap[s.arr]) \in Nat
        /\ Len(q) = s.len /\ s.len <= Len(heap[s.arr])
    BY DEF Slice, Types, Heaps, Holds
  <1>2. /\ q \o new \in Seq(Nat) /\ Len(q \o new) = n
        /\ \A k \in 1 .. n : (q \o new)[k] = IF k <= s.len THEN q[k] ELSE new[k - s.len]
    <2>1. /\ q \o new \in Seq(Nat) /\ Len(q \o new) = Len(q) + Len(new)
          /\ \A k \in 1 .. Len(q) + Len(new) :
               (q \o new)[k] = IF k <= Len(q) THEN q[k] ELSE new[k - Len(q)]
      BY ConcatProperties
    <2>2. QED
      BY <1>1, <2>1
  <1>3. CASE n <= Cap(s)
    <2> DEFINE cells == [k \in DOMAIN heap[s.arr] |->
                           IF k \in s.len + 1 .. n THEN new[k - s.len] ELSE heap[s.arr][k]]
    <2>1. r = [slice |-> [s EXCEPT !.len = n], heap |-> [heap EXCEPT ![s.arr] = cells]]
      BY <1>3 DEF Appended
    <2>2. n <= Len(heap[s.arr])
      BY <1>3 DEF Cap
    <2>3. cells \in Seq(Nat) /\ Len(cells) = Len(heap[s.arr])
      <3>1. DOMAIN heap[s.arr] = 1 .. Len(heap[s.arr])
        BY <1>1
      <3>2. \A k \in 1 .. Len(heap[s.arr]) : heap[s.arr][k] \in Nat
        BY <1>1, ElementOfSeq
      <3>3. \A k \in s.len + 1 .. n : new[k - s.len] \in Nat
        <4> TAKE k \in s.len + 1 .. n
        <4>1. k - s.len \in 1 .. Len(new)
          BY <1>1
        <4>2. QED
          BY <4>1, ElementOfSeq
      <3>4. cells \in [1 .. Len(heap[s.arr]) -> Nat]
        BY <3>1, <3>2, <3>3
      <3> HIDE DEF cells
      <3>5. QED
        BY <1>1, <3>4, FunctionIsSeq
    <2>4. \A k \in 1 .. n : cells[k] = (q \o new)[k]
      <3> TAKE k \in 1 .. n
      <3>1. k \in DOMAIN heap[s.arr]
        BY <1>1, <2>2
      <3>2. CASE k <= s.len
        BY <1>1, <1>2, <3>1, <3>2 DEF Holds
      <3>3. CASE k > s.len
        <4>1. k \in s.len + 1 .. n /\ ~(k <= s.len)
          BY <1>1, <3>3
        <4>2. cells[k] = new[k - s.len]
          BY <3>1, <4>1
        <4>3. QED
          BY <1>2, <4>1, <4>2
      <3>4. QED
        BY <1>1, <3>2, <3>3
    <2> HIDE DEF cells
    <2>5. r.slice = [arr |-> s.arr, len |-> n] /\ r.heap = [heap EXCEPT ![s.arr] = cells]
      BY <2>1 DEF Slice
    <2>6. r.slice \in Slice /\ r.heap \in Heaps
      BY <1>1, <2>3, <2>5 DEF Slice, Types, Heaps
    <2>7. r.heap[s.arr] = cells /\ \A x \in Arrays \cup {Nil} : x # s.arr => r.heap[x] = heap[x]
      BY <1>1, <2>5 DEF Types, Heaps
    <2>8. Holds(r.heap, r.slice, q \o new)
      <3>1. r.slice.arr = s.arr /\ r.slice.len = n
        BY <2>5
      <3>2. QED
        BY <1>2, <2>2, <2>3, <2>4, <2>7, <3>1 DEF Holds
    <2>9. r.heap[Nil] = << >>
      <3>1. CASE s.arr = Nil
        BY <1>1, <2>3, <2>7, <3>1, EmptySeq DEF Types
      <3>2. CASE s.arr # Nil
        BY <2>7, <3>2 DEF Types
      <3>3. QED
        BY <3>1, <3>2
    <2>10. CASE Len(new) = 0
      <3>1. r.slice = s
        BY <1>1, <2>5, <2>10 DEF Slice
      <3>2. cells = heap[s.arr]
        <4>1. \A k \in 1 .. Len(heap[s.arr]) : cells[k] = heap[s.arr][k]
          BY <1>1, <2>10 DEF cells
        <4>2. QED
          BY <1>1, <2>3, <4>1, SeqEqual
      <3>3. r.heap = heap
        BY <2>5, <3>2 DEF Types, Heaps
      <3>4. QED
        BY <2>6, <2>8, <2>9, <3>1, <3>3
    <2>11. CASE Len(new) # 0
      <3>1. s.len < Len(heap[s.arr])
        BY <1>1, <2>2, <2>11
      <3>2. QED
        BY <2>3, <2>5, <2>6, <2>7, <2>8, <2>9, <3>1
    <2>12. QED
      BY <2>10, <2>11
  <1>4. CASE ~(n <= Cap(s))
    <2>1. r \in Allocated(Contents(s) \o new)
      BY <1>4 DEF Appended
    <2>2. Contents(s) = q
      <3>1. \A k \in 1 .. s.len : heap[s.arr][k] = q[k] /\ q[k] \in Nat
        BY <1>1, ElementOfSeq DEF Holds
      <3>2. Contents(s) \in Seq(Nat) /\ Len(Contents(s)) = s.len
        <4>1. Contents(s) \in [1 .. s.len -> Nat]
          BY <3>1 DEF Contents
        <4>2. QED
          BY <1>1, <4>1, FunctionIsSeq
      <3>3. \A k \in 1 .. s.len : Contents(s)[k] = q[k]
        BY <3>1 DEF Contents
      <3>4. QED
        BY <1>1, <3>2, <3>3, SeqEqual
    <2>3. QED
      BY <1>2, <2>1, <2>2, AllocatedLemma
  <1>5. QED
    BY <1>3, <1>4

\* The arrays in use.
LEMMA UsedLemma ==
  ASSUME Types
  PROVE  /\ kept.arr \in (Arrays \cup {Nil}) \cap Used
         /\ stored.arr \in (Arrays \cup {Nil}) \cap Used
         /\ \A i \in Sessions : lists[i] # Closed =>
              lists[i] \in Slice /\ lists[i].arr \in (Arrays \cup {Nil}) \cap Used
  BY DEF Types, Slice, Used

\* A list reads the same as long as its array stays as it is.
LEMMA HoldsKept ==
  ASSUME NEW h, NEW g, NEW s, NEW q, Holds(h, s, q), g[s.arr] = h[s.arr]
  PROVE  Holds(g, s, q)
  BY DEF Holds

\* Session i gets list t in heap h, reading q: the invariant survives when no
\* other list's array changes and those on t's array are full, as t is.
LEMMA SetListLemma ==
  ASSUME IndInv, NEW i \in Sessions, NEW t \in Slice, NEW q \in Seq(Nat),
         heap' \in Heaps, heap'[Nil] = << >>, Holds(heap', t, q),
         lists' = [lists EXCEPT ![i] = t],
         expected' = [expected EXCEPT ![i] = q],
         UNCHANGED <<source, kept, stored, expectedStored>>,
         left' \in [Sessions -> Seq(Nat)], made' \in Nat,
         heap'[stored.arr] = heap[stored.arr],
         heap'[kept.arr] = heap[kept.arr],
         t.arr = stored.arr => t.len = Len(heap'[t.arr]) /\ Full(stored),
         t.arr = kept.arr => t.len = Len(heap'[t.arr]),
         \A j \in Sessions \ {i} : lists[j] # Closed =>
           /\ heap'[lists[j].arr] = heap[lists[j].arr]
           /\ lists[j].arr = t.arr => t.len = Len(heap'[t.arr]) /\ Full(lists[j])
  PROVE  IndInv'
  <1> USE DEF IndInv
  <1>1. lists'[i] = t /\ expected'[i] = q
        /\ \A j \in Sessions \ {i} : lists'[j] = lists[j] /\ expected'[j] = expected[j]
    BY DEF Types
  <1>2. Types'
    BY DEF Types
  <1>3. Own'
    <2> SUFFICES ASSUME NEW k \in Sessions, lists'[k] # Closed
                 PROVE  Holds(heap', lists'[k], expected'[k])
      BY DEF Own
    <2>1. CASE k = i
      BY <1>1, <2>1
    <2>2. CASE k # i
      <3>1. lists'[k] = lists[k] /\ expected'[k] = expected[k] /\ lists[k] # Closed
        BY <1>1, <2>2
      <3>2. Holds(heap, lists[k], expected[k])
        BY <3>1 DEF Own
      <3>3. heap'[lists[k].arr] = heap[lists[k].arr]
        BY <2>2, <3>1
      <3>4. QED
        BY <3>1, <3>2, <3>3, HoldsKept
    <2>3. QED
      BY <2>1, <2>2
  <1>4. Token'
    BY DEF Token, Holds
  <1>5. Kept'
    BY DEF Kept, Holds, Full
  <1>6. Separate'
    <2>1. (stored.arr = kept.arr => Full(stored))'
      BY DEF Separate, Full
    <2>2. ASSUME NEW k \in Sessions, lists'[k] # Closed, lists'[k].arr = stored'.arr
          PROVE  Full(lists[k])' /\ Full(stored)'
      <3>1. CASE k = i
        BY <1>1, <2>2, <3>1 DEF Full
      <3>2. CASE k # i
        <4>1. /\ lists'[k] = lists[k] /\ heap'[lists[k].arr] = heap[lists[k].arr]
              /\ Full(lists[k]) /\ Full(stored)
          BY <1>1, <2>2, <3>2 DEF Separate
        <4>2. QED
          BY <4>1 DEF Full
      <3>3. QED
        BY <3>1, <3>2
    <2>3. ASSUME NEW k \in Sessions, lists'[k] # Closed, lists'[k].arr = kept'.arr
          PROVE  Full(lists[k])'
      BY <1>1, <2>3 DEF Separate, Full
    <2>4. ASSUME NEW k \in Sessions, lists'[k] # Closed, NEW j \in Sessions \ {k},
                 lists'[j] # Closed, lists'[j].arr = lists'[k].arr
          PROVE  Full(lists[k])'
      <3>1. CASE k = i
        BY <1>1, <2>4, <3>1 DEF Full
      <3>2. CASE j = i
        <4>1. /\ lists'[k] = lists[k] /\ heap'[lists[k].arr] = heap[lists[k].arr]
              /\ Full(lists[k])
          BY <1>1, <2>4, <3>2
        <4>2. QED
          BY <4>1 DEF Full
      <3>3. CASE k # i /\ j # i
        <4>1. lists'[k] = lists[k] /\ lists'[j] = lists[j]
          BY <1>1, <3>3
        <4>2. Full(lists[k])
          BY <2>4, <4>1 DEF Separate
        <4>3. heap'[lists[k].arr] = heap[lists[k].arr]
          BY <2>4, <3>3, <4>1
        <4>4. QED
          BY <4>1, <4>2, <4>3 DEF Full
      <3>4. QED
        BY <3>1, <3>2, <3>3
    <2>5. QED
      BY <2>1, <2>2, <2>3, <2>4 DEF Separate
  <1>7. QED
    BY <1>2, <1>3, <1>4, <1>5, <1>6

\* newSession: the copy or the new list is on an array of its own, and a list
\* that GetObjects returns every time is full.
LEMMA NewSessionStep ==
  ASSUME IndInv, NEW i \in Sessions, newSession(i)
  PROVE  IndInv'
  <1> USE DEF IndInv
  <1> DEFINE q == IF source = "static" THEN expectedStored ELSE Given
  <1>1. Types /\ Given \in Seq(Nat)
    BY SlicesAssumption, SeqMonotonic
  <1>2. PICK r \in Snapshots : lists' = [lists EXCEPT ![i] = r.slice] /\ heap' = r.heap
    BY DEF newSession
  <1>3. expected' = [expected EXCEPT ![i] = q] /\ q \in Seq(Nat)
    BY <1>1 DEF newSession, Types
  <1> HIDE DEF q
  <1>4. /\ r.slice \in Slice /\ r.heap \in Heaps /\ r.heap[Nil] = << >>
        /\ Holds(r.heap, r.slice, q)
        /\ \/ r.slice = NilSlice /\ r.heap = heap
           \/ r.slice = kept /\ r.heap = heap
           \/ /\ r.slice.arr \notin Used
              /\ \A x \in (Arrays \cup {Nil}) \cap Used : r.heap[x] = heap[x]
    <2>1. CASE source = "static"
      <3> DEFINE none == << >>
      <3>1. NilSlice \in Slice /\ Holds(heap, NilSlice, none) /\ NilSlice.len = Len(heap[NilSlice.arr])
        BY <1>1, EmptySeq DEF NilSlice, Slice, Holds, Types
      <3>2. Contents(stored) = q
        <4>1. stored.len = Len(q) /\ \A k \in 1 .. stored.len : heap[stored.arr][k] = q[k]
          BY <2>1 DEF Token, Holds, q
        <4>2. q = [k \in 1 .. Len(q) |-> q[k]]
          BY <1>3
        <4>3. QED
          BY <4>1, <4>2 DEF Contents
      <3>3. r \in Appended(NilSlice, q)
        BY <1>2, <2>1, <3>2 DEF Snapshots
      <3>4. none \o q = q /\ none \in Seq(Nat)
        BY <1>3, ConcatEmptySeq
      <3> HIDE DEF none, NilSlice
      <3>5. /\ r.slice \in Slice /\ r.heap \in Heaps /\ r.heap[Nil] = << >>
            /\ Holds(r.heap, r.slice, none \o q)
            /\ \/ r.slice = NilSlice /\ r.heap = heap
               \/ /\ NilSlice.len < Len(heap[NilSlice.arr])
                  /\ r.slice.arr = NilSlice.arr
                  /\ Len(r.heap[NilSlice.arr]) = Len(heap[NilSlice.arr])
                  /\ \A x \in Arrays \cup {Nil} : x # NilSlice.arr => r.heap[x] = heap[x]
               \/ /\ r.slice.arr \notin Used
                  /\ \A x \in (Arrays \cup {Nil}) \cap Used : r.heap[x] = heap[x]
        BY <1>1, <1>3, <3>1, <3>3, <3>4, AppendedLemma, ZenonT(30)
      <3>6. ~(NilSlice.len < Len(heap[NilSlice.arr]))
        BY <3>1 DEF Slice
      <3>7. QED
        BY <3>4, <3>5, <3>6
    <2>2. CASE source = "fresh"
      BY <1>1, <1>2, <2>2, AllocatedLemma DEF Snapshots, q
    <2>3. CASE source = "shared"
      BY <1>2, <2>3 DEF Snapshots, q, Kept, Types
    <2>4. QED
      BY <2>1, <2>2, <2>3, SlicesAssumption DEF Types
  <1>5. /\ heap'[stored.arr] = heap[stored.arr]
        /\ heap'[kept.arr] = heap[kept.arr]
        /\ \A j \in Sessions \ {i} : lists[j] # Closed => heap'[lists[j].arr] = heap[lists[j].arr]
    BY <1>1, <1>2, <1>4, UsedLemma
  <1>6. /\ r.slice.arr = stored.arr => r.slice.len = Len(heap'[r.slice.arr]) /\ Full(stored)
        /\ r.slice.arr = kept.arr => r.slice.len = Len(heap'[r.slice.arr])
        /\ \A j \in Sessions \ {i} : (lists[j] # Closed /\ lists[j].arr = r.slice.arr) =>
             r.slice.len = Len(heap'[r.slice.arr]) /\ Full(lists[j])
    <2>1. CASE r.slice = NilSlice /\ r.heap = heap
      <3>1. NilSlice.arr = Nil /\ NilSlice.len = 0 /\ Len(heap[Nil]) = 0
        BY DEF NilSlice, Types
      <3>2. \A u \in Slice : \A p : (u.arr = Nil /\ Holds(heap, u, p)) => Full(u)
        BY <3>1 DEF Slice, Holds, Full
      <3>3. stored.arr = Nil => Full(stored)
        BY <3>2 DEF Types, Token
      <3>4. \A j \in Sessions : (lists[j] # Closed /\ lists[j].arr = Nil) => Full(lists[j])
        BY <3>2, UsedLemma DEF Own
      <3>5. QED
        BY <1>2, <2>1, <3>1, <3>3, <3>4
    <2>2. CASE r.slice = kept /\ r.heap = heap
      BY <1>2, <2>2 DEF Separate, Kept, Full
    <2>3. CASE r.slice.arr \notin Used
      BY <1>1, <2>3, UsedLemma
    <2>4. QED
      BY <1>4, <2>1, <2>2, <2>3
  <1>7. /\ UNCHANGED <<source, kept, stored, expectedStored>>
        /\ left' \in [Sessions -> Seq(Nat)] /\ made' \in Nat
    BY DEF newSession, Types
  <1> HIDE DEF IndInv
  <1>8. QED
    BY <1>2, <1>3, <1>4, <1>5, <1>6, <1>7, SetListLemma

\* An append to a session's list: in place only when nobody shares the array.
LEMMA AddToSessionStep ==
  ASSUME IndInv, NEW i \in Sessions, NEW new \in Seq(Nat), AddToSession(i, new),
         UNCHANGED <<source, kept, stored, expectedStored>>,
         left' \in [Sessions -> Seq(Nat)]
  PROVE  IndInv'
  <1> USE DEF IndInv
  <1> DEFINE s == lists[i]
             q == expected[i] \o new
  <1>1. /\ s # Closed /\ s \in Slice /\ expected[i] \in Seq(Nat)
        /\ Holds(heap, s, expected[i])
    BY DEF AddToSession, Types, Own
  <1>2. PICK r \in Appended(s, new) : lists' = [lists EXCEPT ![i] = r.slice] /\ heap' = r.heap
    BY DEF AddToSession
  <1>3. expected' = [expected EXCEPT ![i] = q] /\ q \in Seq(Nat) /\ made' \in Nat
    BY <1>1, ConcatProperties, LenProperties DEF AddToSession, Types
  <1>4. /\ r.slice \in Slice /\ r.heap \in Heaps /\ r.heap[Nil] = << >>
        /\ Holds(r.heap, r.slice, q)
        /\ \/ r.slice = s /\ r.heap = heap
           \/ /\ s.len < Len(heap[s.arr])
              /\ r.slice.arr = s.arr
              /\ Len(r.heap[s.arr]) = Len(heap[s.arr])
              /\ \A x \in Arrays \cup {Nil} : x # s.arr => r.heap[x] = heap[x]
           \/ /\ r.slice.arr \notin Used
              /\ \A x \in (Arrays \cup {Nil}) \cap Used : r.heap[x] = heap[x]
    BY <1>1, AppendedLemma
  <1> HIDE DEF q
  <1>5. /\ heap'[stored.arr] = heap[stored.arr]
        /\ heap'[kept.arr] = heap[kept.arr]
        /\ r.slice.arr = stored.arr => r.slice.len = Len(heap'[r.slice.arr]) /\ Full(stored)
        /\ r.slice.arr = kept.arr => r.slice.len = Len(heap'[r.slice.arr])
        /\ \A j \in Sessions \ {i} : lists[j] # Closed =>
             /\ heap'[lists[j].arr] = heap[lists[j].arr]
             /\ lists[j].arr = r.slice.arr =>
                  r.slice.len = Len(heap'[r.slice.arr]) /\ Full(lists[j])
    <2>1. CASE r.slice = s /\ r.heap = heap
      BY <1>1, <1>2, <2>1 DEF Separate, Full
    <2>2. CASE /\ s.len < Len(heap[s.arr])
               /\ r.slice.arr = s.arr
               /\ \A x \in Arrays \cup {Nil} : x # s.arr => r.heap[x] = heap[x]
      <3>1. ~Full(s)
        BY <1>1, <2>2 DEF Full, Slice, Types, Heaps
      <3>2. /\ stored.arr # s.arr /\ kept.arr # s.arr
            /\ \A j \in Sessions \ {i} : lists[j] # Closed => lists[j].arr # s.arr
        BY <1>1, <3>1 DEF Separate
      <3>3. QED
        BY <1>2, <2>2, <3>2, UsedLemma
    <2>3. CASE /\ r.slice.arr \notin Used
               /\ \A x \in (Arrays \cup {Nil}) \cap Used : r.heap[x] = heap[x]
      BY <1>2, <2>3, UsedLemma
    <2>4. QED
      BY <1>4, <2>1, <2>2, <2>3
  <1> HIDE DEF IndInv
  <1>6. QED
    BY <1>2, <1>3, <1>4, <1>5, SetListLemma

\* persistObject appends to Slot.Objects, in place only when no session and no
\* GetObjects function has a list on that array.
LEMMA PersistStep ==
  ASSUME IndInv, NEW i \in Sessions, PersistNew(i)
  PROVE  IndInv'
  <1> USE DEF IndInv
  <1> DEFINE new == <<Head(left[i])>>
             q == expectedStored \o new
  <1>1. /\ stored \in Slice /\ expectedStored \in Seq(Nat) /\ Holds(heap, stored, expectedStored)
        /\ new \in Seq(Nat) /\ Tail(left[i]) \in Seq(Nat)
    BY HeadTailProperties DEF PersistNew, Types, Token
  <1>2. PICK r \in Appended(stored, new) : stored' = r.slice /\ heap' = r.heap
    BY DEF PersistNew
  <1>3. expectedStored' = q /\ q \in Seq(Nat)
    BY <1>1, AppendIsConcat, ConcatProperties, HeadTailProperties DEF PersistNew, Types
  <1> HIDE DEF new
  <1>4. /\ r.slice \in Slice /\ r.heap \in Heaps /\ r.heap[Nil] = << >>
        /\ Holds(r.heap, r.slice, q)
        /\ \/ r.slice = stored /\ r.heap = heap
           \/ /\ stored.len < Len(heap[stored.arr])
              /\ r.slice.arr = stored.arr
              /\ Len(r.heap[stored.arr]) = Len(heap[stored.arr])
              /\ \A x \in Arrays \cup {Nil} : x # stored.arr => r.heap[x] = heap[x]
           \/ /\ r.slice.arr \notin Used
              /\ \A x \in (Arrays \cup {Nil}) \cap Used : r.heap[x] = heap[x]
    BY <1>1, AppendedLemma
  <1> HIDE DEF q
  <1>5. /\ heap'[kept.arr] = heap[kept.arr]
        /\ kept.arr = stored'.arr => Full(stored)'
        /\ \A j \in Sessions : lists[j] # Closed =>
             /\ heap'[lists[j].arr] = heap[lists[j].arr]
             /\ lists[j].arr = stored'.arr => Full(stored)' /\ Full(lists[j])
    <2>1. CASE r.slice = stored /\ r.heap = heap
      BY <1>2, <2>1 DEF Separate, Full
    <2>2. CASE /\ stored.len < Len(heap[stored.arr])
               /\ r.slice.arr = stored.arr
               /\ \A x \in Arrays \cup {Nil} : x # stored.arr => r.heap[x] = heap[x]
      <3>1. ~Full(stored)
        BY <1>1, <2>2 DEF Full, Slice, Types, Heaps
      <3>2. kept.arr # stored.arr /\ \A j \in Sessions : lists[j] # Closed => lists[j].arr # stored.arr
        BY <3>1 DEF Separate
      <3>3. QED
        BY <1>2, <2>2, <3>2, UsedLemma
    <2>3. CASE /\ r.slice.arr \notin Used
               /\ \A x \in (Arrays \cup {Nil}) \cap Used : r.heap[x] = heap[x]
      BY <1>2, <2>3, UsedLemma
    <2>4. QED
      BY <1>4, <2>1, <2>2, <2>3
  <1>6. UNCHANGED <<source, kept, lists, made, expected>>
    BY DEF PersistNew
  <1>7. Types'
    BY <1>1, <1>2, <1>3, <1>4, <1>6 DEF Types, PersistNew
  <1>8. Own'
    BY <1>5, <1>6 DEF Own, Holds
  <1>9. Token'
    BY <1>2, <1>3, <1>4 DEF Token
  <1>10. Kept'
    BY <1>5, <1>6 DEF Kept, Holds, Full
  <1>11. Separate'
    BY <1>5, <1>6 DEF Separate, Full
  <1>12. QED
    BY <1>7, <1>8, <1>9, <1>10, <1>11

\* The program's list is alone on its array when the server starts.
LEMMA InitLemma ==
  ASSUME NoSpareShared, Init
  PROVE  IndInv
  <1> DEFINE F(src, a, e) ==
        LET built == [arr |-> a, len |-> Len(Given)] IN
        /\ source = src
        /\ heap = [x \in Arrays \cup {Nil} |->
                     IF x = a THEN Given \o [k \in 1 .. e |-> Empty] ELSE << >>]
        /\ kept = IF src = "shared" THEN built ELSE NilSlice
        /\ stored = IF src = "static" THEN built ELSE NilSlice
        /\ expectedStored = IF src = "static" THEN Given ELSE << >>
  <1>0. PICK src \in Sources, a \in Arrays : \E e \in Spare[src] : F(src, a, e)
    BY DEF Init
  <1>1. PICK e \in Spare[src] : F(src, a, e)
    BY <1>0
  <1> DEFINE p == Given \o [k \in 1 .. e |-> Empty]
  <1>2. /\ Given \in Seq(Nat) /\ e \in Nat /\ a # Nil
        /\ << >> \in Seq(Nat) /\ Len(<< >>) = 0 /\ Len(Given) \in Nat
        /\ src = "shared" => e = 0
    BY SlicesAssumption, SeqMonotonic DEF NoSpareShared
  <1>3. p \in Seq(Nat) /\ Len(p) = Len(Given) + e /\ \A k \in 1 .. Len(Given) : p[k] = Given[k]
    BY <1>2, PadLemma
  <1> HIDE DEF p
  <1>4. /\ heap = [x \in Arrays \cup {Nil} |-> IF x = a THEN p ELSE << >>]
        /\ heap \in Heaps /\ heap[Nil] = << >> /\ heap[a] = p
    BY <1>1, <1>2, <1>3 DEF p, Heaps
  <1>5. lists = [i \in Sessions |-> Closed]
    BY DEF Init
  <1>6. Types
    BY <1>1, <1>2, <1>4, <1>5 DEF Types, Init, Slice, NilSlice
  <1>7. Own
    BY <1>5 DEF Own
  <1>8. Token
    BY <1>1, <1>2, <1>3, <1>4 DEF Token, Holds, NilSlice
  <1>9. Kept
    BY <1>1, <1>2, <1>3, <1>4 DEF Kept, Holds, Full, NilSlice
  <1>10. Separate
    BY <1>1, <1>2, <1>4, <1>5 DEF Separate, Full, NilSlice
  <1>11. QED
    BY <1>6, <1>7, <1>8, <1>9, <1>10 DEF IndInv

\* Every step keeps lists on one array full.
LEMMA NextLemma ==
  ASSUME IndInv, [Next]_vars
  PROVE  IndInv'
  <1>1. ASSUME NEW i \in Sessions, newSession(i) PROVE IndInv'
    BY <1>1, NewSessionStep
  <1>2. ASSUME NEW i \in Sessions, closeSession(i) PROVE IndInv'
    <2>1. /\ lists' = [lists EXCEPT ![i] = Closed]
          /\ expected' = [expected EXCEPT ![i] = << >>]
          /\ UNCHANGED <<heap, source, kept, stored, left, made, expectedStored>>
      BY <1>2 DEF closeSession
    <2>2. /\ lists'[i] = Closed
          /\ \A j \in Sessions : lists'[j] # Closed =>
               j # i /\ lists'[j] = lists[j] /\ expected'[j] = expected[j]
      BY <2>1 DEF IndInv, Types
    <2>3. Types'
      BY <2>1 DEF IndInv, Types
    <2>4. Own' /\ Token' /\ Kept'
      BY <2>1, <2>2 DEF IndInv, Own, Token, Kept, Holds, Full
    <2>5. Separate'
      BY <2>1, <2>2 DEF IndInv, Separate, Full
    <2>6. QED
      BY <2>3, <2>4, <2>5 DEF IndInv
  <1>3. ASSUME NEW i \in Sessions, GenerateKeyPair(i) PROVE IndInv'
    <2> DEFINE new == <<made + 1, made + 2>>
    <2>1. made \in Nat /\ new \in Seq(Nat)
      BY DEF IndInv, Types
    <2>2. left' \in [Sessions -> Seq(Nat)]
      <3>1. PICK tok \in {<< >>, <<made + 1>>, <<made + 2>>, <<made + 1, made + 2>>} :
              left' = [left EXCEPT ![i] = tok]
        BY <1>3 DEF GenerateKeyPair
      <3>2. /\ << >> \in Seq(Nat) /\ <<made + 1>> \in Seq(Nat) /\ <<made + 2>> \in Seq(Nat)
            /\ <<made + 1, made + 2>> \in Seq(Nat)
        BY <2>1
      <3>3. QED
        BY <3>1, <3>2 DEF IndInv, Types
    <2>3. AddToSession(i, new) /\ UNCHANGED <<source, kept, stored, expectedStored>>
      BY <1>3 DEF GenerateKeyPair
    <2> HIDE DEF new
    <2>4. QED
      BY <2>1, <2>2, <2>3, AddToSessionStep
  <1>4. ASSUME NEW i \in Sessions, PersistNew(i) PROVE IndInv'
    BY <1>4, PersistStep
  <1>5. ASSUME NEW i \in Sessions, DeriveKey(i) PROVE IndInv'
    <2> DEFINE new == <<made + 1>>
    <2>1. made \in Nat /\ new \in Seq(Nat)
      BY DEF IndInv, Types
    <2>2. /\ AddToSession(i, new) /\ UNCHANGED <<source, kept, stored, left, expectedStored>>
          /\ left' \in [Sessions -> Seq(Nat)]
      BY <1>5 DEF DeriveKey, IndInv, Types
    <2> HIDE DEF new
    <2>3. QED
      BY <2>1, <2>2, AddToSessionStep
  <1>6. CASE UNCHANGED vars
    BY <1>6 DEF vars, IndInv, Types, Own, Token, Kept, Separate, Holds, Full
  <1>7. QED
    BY <1>1, <1>2, <1>3, <1>4, <1>5, <1>6 DEF Next

\* The invariant gives what the properties say of Contents.
LEMMA HoldsContents ==
  ASSUME NEW s, NEW q \in Seq(Nat), Holds(heap, s, q)
  PROVE  Contents(s) = q
  <1>1. q = [k \in 1 .. Len(q) |-> q[k]]
    OBVIOUS
  <1>2. QED
    BY <1>1 DEF Holds, Contents

\* Lists that share an array are full, always: the reason why appends to the
\* copies newSession makes disturb nobody.
THEOREM SlicesSeparate ==
  ASSUME NoSpareShared
  PROVE  Spec => []IndInv
  <1>1. Init => IndInv
    BY InitLemma
  <1>2. IndInv /\ [Next]_vars => IndInv'
    BY NextLemma
  <1>3. QED
    BY <1>1, <1>2, PTL DEF Spec

\* Every session has exactly the objects it was opened with and those created
\* in it, however many sessions append to their lists, provided that a list
\* GetObjects returns every time has no spare capacity.
THEOREM SessionsOwnObjects ==
  ASSUME NoSpareShared
  PROVE  Spec => []OwnObjects
  <1>1. IndInv => OwnObjects
    BY HoldsContents DEF IndInv, Own, OwnObjects, Types
  <1>2. QED
    BY <1>1, SlicesSeparate, PTL

\* Slot.Objects has exactly the objects configured and persisted, under the same
\* assumption.
THEOREM TokenKeepsObjects ==
  ASSUME NoSpareShared
  PROVE  Spec => []TokenKept
  <1>1. IndInv => TokenKept
    BY HoldsContents DEF IndInv, Token, TokenKept, Types
  <1>2. QED
    BY <1>1, SlicesSeparate, PTL

=============================================================================
