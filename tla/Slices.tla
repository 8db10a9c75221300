------------------------------- MODULE Slices -------------------------------
(***************************************************************************)
(* The object lists of sessions and of a token as Go slices                *)
(* (p11kit/p11kit.go).  Server gives every session a sequence of its own;  *)
(* in the code a list is a slice, a length on a backing array, and append  *)
(* writes into the array when its capacity allows.  Whether two lists can  *)
(* disturb each other depends on which slices share an array: the copy     *)
(* newSession makes of Slot.Objects, or the slice GetObjects returns.      *)
(*                                                                         *)
(* The sessions here are those of all connections; an append is one step.  *)
(***************************************************************************)
EXTENDS Naturals, Sequences

CONSTANTS
  Sessions,   \* sessions that can be open at once
  Arrays,     \* backing arrays; one that no slice refers to is free
  Nil,        \* the array of a nil slice
  Given,      \* the objects the program provides, a sequence
  Sources,    \* where sessions get objects: "static", "fresh" or "shared"
  Extra,      \* capacities an allocation may have beyond its length
  Spare,      \* Spare[src]: the same for the list the program builds
  MaxMade,    \* bound: objects ever generated or derived
  Closed      \* no session

ASSUME SlicesAssumption ==
  /\ Nil \notin Arrays
  /\ Given \in Seq(Nat \ (1 .. MaxMade))
  /\ Sources \subseteq {"static", "fresh", "shared"}
  /\ Extra \subseteq Nat
  /\ \A src \in Sources : Spare[src] \subseteq Nat
  /\ MaxMade \in Nat
  /\ Closed \notin [arr: Arrays \cup {Nil}, len: Nat]

VARIABLES
  heap,       \* heap[a]: the cells of array a; their number is its capacity
  source,     \* whether the slot has GetObjects, and what that returns
  kept,       \* the slice the program's GetObjects returns every time
  stored,     \* Slot.Objects
  lists,      \* lists[i]: session.objects
  left,       \* left[i]: objects C_GenerateKeyPair has yet to persist
  made,       \* objects are numbered in the order they are created
  \* The lists as clients expect them, for the properties.
  expected,   \* expected[i]: what session i was opened with and created since
  expectedStored

vars == <<heap, source, kept, stored, lists, left, made, expected, expectedStored>>

NilSlice == [arr |-> Nil, len |-> 0]
Empty == 0   \* the zero Object in an unused cell

Contents(s) == [k \in 1 .. s.len |-> heap[s.arr][k]]
Cap(s) == Len(heap[s.arr])

Used == {kept.arr, stored.arr} \cup {lists[i].arr : i \in {j \in Sessions : lists[j] # Closed}}

\* A new array a holding seq, with e cells to spare.  The garbage collector
\* empties arrays no slice refers to.
AllocatedAt(a, seq, e) ==
  [slice |-> [arr |-> a, len |-> Len(seq)],
   heap  |-> [x \in DOMAIN heap |->
                CASE x = a -> seq \o [k \in 1 .. e |-> Empty]
                  [] x \in Used -> heap[x]
                  [] OTHER -> << >>]]
Allocated(seq) == {AllocatedAt(a, seq, e) : a \in Arrays \ Used, e \in Extra}

\* append(s, new...): the slices it may return, with the heap it leaves.
Appended(s, new) ==
  LET n == s.len + Len(new) IN
  IF n <= Cap(s)
  THEN {[slice |-> [s EXCEPT !.len = n],
         heap  |-> [heap EXCEPT ![s.arr] =
                      [k \in DOMAIN @ |-> IF k \in s.len + 1 .. n THEN new[k - s.len]
                                          ELSE @[k]]]]}
  ELSE Allocated(Contents(s) \o new)

-----------------------------------------------------------------------------
\* The program builds its list; GetObjects keeps it, or the slot gets it.
Init ==
  \E src \in Sources, a \in Arrays : \E e \in Spare[src] :
    LET built == [arr |-> a, len |-> Len(Given)] IN
    /\ source = src
    /\ heap = [x \in Arrays \cup {Nil} |->
                 IF x = a THEN Given \o [k \in 1 .. e |-> Empty] ELSE << >>]
    /\ kept = IF src = "shared" THEN built ELSE NilSlice
    /\ stored = IF src = "static" THEN built ELSE NilSlice
    /\ lists = [i \in Sessions |-> Closed]
    /\ left = [i \in Sessions |-> << >>]
    /\ made = 0
    /\ expected = [i \in Sessions |-> << >>]
    /\ expectedStored = IF src = "static" THEN Given ELSE << >>

\* What newSession takes: a copy of Slot.Objects, which GetObjects replaces by
\* a list it builds for this call or by the one it keeps.
SnapshotsUncopied ==   \* mutant: objects := slot.Objects
  CASE source = "static" -> {[slice |-> stored, heap |-> heap]}
    [] source = "fresh"  -> Allocated(Given)
    [] source = "shared" -> {[slice |-> kept, heap |-> heap]}
Snapshots ==
  CASE source = "static" -> Appended(NilSlice, Contents(stored))
    [] source = "fresh"  -> Allocated(Given)
    [] source = "shared" -> {[slice |-> kept, heap |-> heap]}

newSession(i) ==
  /\ lists[i] = Closed
  /\ \E r \in Snapshots :
       /\ lists' = [lists EXCEPT ![i] = r.slice]
       /\ heap' = r.heap
  /\ expected' = [expected EXCEPT ![i] = IF source = "static" THEN expectedStored ELSE Given]
  /\ UNCHANGED <<source, kept, stored, left, made, expectedStored>>

\* closeSession, or the end of the connection.
closeSession(i) ==
  /\ lists[i] # Closed
  /\ left[i] = << >>
  /\ lists' = [lists EXCEPT ![i] = Closed]
  /\ expected' = [expected EXCEPT ![i] = << >>]
  /\ UNCHANGED <<heap, source, kept, stored, left, made, expectedStored>>

\* session.objects = append(session.objects, ...).
AddToSession(i, new) ==
  /\ lists[i] # Closed
  /\ left[i] = << >>
  /\ \E r \in Appended(lists[i], new) :
       /\ lists' = [lists EXCEPT ![i] = r.slice]
       /\ heap' = r.heap
  /\ made' = made + Len(new)
  /\ expected' = [expected EXCEPT ![i] = @ \o new]

\* handleGenerateKeyPair: both halves go to the session, then the ones that are
\* token objects to the token.
GenerateKeyPair(i) ==
  LET pub == made + 1
      priv == made + 2
  IN
  /\ priv <= MaxMade
  /\ AddToSession(i, <<pub, priv>>)
  /\ \E tok \in {<< >>, <<pub>>, <<priv>>, <<pub, priv>>} :
       left' = [left EXCEPT ![i] = tok]
  /\ UNCHANGED <<source, kept, stored, expectedStored>>

\* persistObject, with mu held.
PersistNew(i) ==
  /\ left[i] # << >>
  /\ \E r \in Appended(stored, <<Head(left[i])>>) :
       /\ stored' = r.slice
       /\ heap' = r.heap
  /\ left' = [left EXCEPT ![i] = Tail(@)]
  /\ expectedStored' = Append(expectedStored, Head(left[i]))
  /\ UNCHANGED <<source, kept, lists, made, expected>>

\* handleDeriveKey.
DeriveKey(i) ==
  /\ made < MaxMade
  /\ AddToSession(i, <<made + 1>>)
  /\ UNCHANGED <<source, kept, stored, left, expectedStored>>

Next == \E i \in Sessions :
  newSession(i) \/ closeSession(i) \/ GenerateKeyPair(i) \/ PersistNew(i) \/ DeriveKey(i)

Spec == Init /\ [][Next]_vars

-----------------------------------------------------------------------------
\* Every session has exactly the objects it was opened with and those created
\* in it, in order, whatever other sessions append to lists that share an array
\* with its own (newSession, handleGenerateKeyPair, handleDeriveKey).
OwnObjects ==
  \A i \in Sessions : lists[i] # Closed => Contents(lists[i]) = expected[i]

\* The token has exactly the objects that were configured and persisted, in
\* order, whatever sessions append to their copies (persistObject).
TokenKept == Contents(stored) = expectedStored

=============================================================================
