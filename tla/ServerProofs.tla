---------------------------- MODULE ServerProofs ----------------------------
(***************************************************************************)
(* Proofs about Server for any connections, slots, objects and bounds, in  *)
(* three parts.                                                            *)
(*                                                                         *)
(* Lists: the types, the phases of a connection and the object lists.  The *)
(* handles in a list are distinct and below nextID (Assigned), so that a   *)
(* handle denotes one object of its session and a new one denotes none.    *)
(*                                                                         *)
(* Sessions: what a client is told of a session stays true of it.  Handles *)
(* a client has, or is about to get, resolve; search results are           *)
(* conserved; the signing operation uses a key of the session.  All of it  *)
(* rests on a session that ended leaving nothing behind, since its handle  *)
(* is going to be used again.                                              *)
(*                                                                         *)
(* Tokens: the objects that sessions share.  What is on a token, or about  *)
(* to be, is a token object (TokenOnly), so a session object stays in its  *)
(* session (Private); what a response promises is on the token or about to *)
(* be when the response is fixed, and on it when the client learns of it   *)
(* (Promised).                                                             *)
(***************************************************************************)
EXTENDS Server, SequenceTheorems, FiniteSetTheorems, TLAPS

SearchState == [active: BOOLEAN, legal: BOOLEAN, clean: BOOLEAN,
                found: Seq(Nat), sent: Seq(Nat)]

Response(r) == r.sid \in SessionIDs /\ r.handles \in Seq(Nat) /\ r.promised \in Seq(Object)

Types ==
  /\ TypeOK
  /\ FirstID <= nextID
  /\ DOMAIN resp = Conns
  /\ \A c \in Conns : Response(resp[c])
  /\ acked \in [Slots -> SUBSET Nat]
  /\ given \in [Conns -> [SessionIDs -> SUBSET Nat]]
  /\ search \in [Conns -> [SessionIDs -> SearchState]]

\* What a connection may have pending in each phase.
Phases ==
  \A c \in Conns :
    /\ phase[c] = "closed" => \A i \in SessionIDs : sessions[c][i] = NoSession
    /\ phase[c] \in {"closed", "ready"} => resp[c].handles = << >> /\ resp[c].promised = << >>
    /\ phase[c] = "persist" => sessions[c][resp[c].sid] # NoSession
    /\ phase[c] # "persist" => left[c] = << >>

Distinct(objs) == \A k, j \in DOMAIN objs : objs[k].id = objs[j].id => k = j

\* Handles in a list are distinct and have been assigned.
Assigned(objs, n) == Distinct(objs) /\ \A o \in Range(objs) : o.id \in 1 .. n - 1

Lists ==
  /\ \A s \in Slots : Assigned(token[s], nextID)
  /\ \A c \in Conns : Assigned(left[c], nextID)
  /\ \A c \in Conns, i \in SessionIDs :
       sessions[c][i] # NoSession => Assigned(sessions[c][i].objects, nextID)

\* An object that is yet to be persisted is not on a token, and only one
\* connection is going to persist it.
Unpersisted ==
  \A c \in Conns : \A o \in Range(left[c]) :
    /\ o.id >= FirstID
    /\ \A s \in Slots : o.id \notin Handles(token[s])
    /\ \A d \in Conns \ {c} : o.id \notin Handles(left[d])

BaseInv == Types /\ Phases /\ Lists /\ Unpersisted

-----------------------------------------------------------------------------
\* Sequences of objects.

\* A function on 1 .. n is a sequence of length n.
LEMMA FunctionIsSeq ==
  ASSUME NEW S, NEW n \in Nat, NEW f \in [1 .. n -> S]
  PROVE  f \in Seq(S) /\ Len(f) = n
  OBVIOUS

\* The objects and handles of a list that another one is appended to.
LEMMA ConcatObjects ==
  ASSUME NEW a \in Seq(Object), NEW b \in Seq(Object)
  PROVE  /\ a \o b \in Seq(Object)
         /\ Range(a \o b) = Range(a) \cup Range(b)
         /\ Handles(a \o b) = Handles(a) \cup Handles(b)
         /\ Len(a) <= Len(a \o b)
         /\ \A k \in DOMAIN a : (a \o b)[k] = a[k]
  <1>1. \A q : Handles(q) = {o.id : o \in Range(q)}
    BY DEF Handles, Range
  <1>2. Range(a \o b) = Range(a) \cup Range(b)
    BY RangeConcatenation
  <1>3. a \o b \in Seq(Object) /\ Len(a \o b) = Len(a) + Len(b)
    BY ConcatProperties
  <1>4. Len(a) \in Nat /\ Len(b) \in Nat
    OBVIOUS
  <1>5. \A k \in DOMAIN a : (a \o b)[k] = a[k]
    BY ConcatProperties, LenProperties
  <1>6. Handles(a \o b) = Handles(a) \cup Handles(b)
    BY <1>1, <1>2
  <1>7. QED
    BY <1>2, <1>3, <1>4, <1>5, <1>6

\* Lists of one and of two objects.
LEMMA ShortLists ==
  ASSUME NEW o \in Object, NEW p \in Object
  PROVE  /\ << >> \in Seq(Object) /\ Range(<< >>) = {} /\ Handles(<< >>) = {} /\ Distinct(<< >>)
         /\ <<o>> \in Seq(Object) /\ Range(<<o>>) = {o} /\ Handles(<<o>>) = {o.id} /\ Distinct(<<o>>)
         /\ <<o, p>> \in Seq(Object) /\ Range(<<o, p>>) = {o, p} /\ Handles(<<o, p>>) = {o.id, p.id}
         /\ o.id # p.id => Distinct(<<o, p>>)
  BY DEF Range, Handles, Distinct

\* Appending objects with handles that are new to a list keeps them distinct.
LEMMA ConcatDistinct ==
  ASSUME NEW a \in Seq(Object), NEW b \in Seq(Object), Distinct(a), Distinct(b),
         \A o \in Range(b) : o.id \notin Handles(a)
  PROVE  Distinct(a \o b)
  <1>1. /\ DOMAIN a = 1 .. Len(a) /\ DOMAIN b = 1 .. Len(b) /\ Len(a) \in Nat /\ Len(b) \in Nat
        /\ DOMAIN (a \o b) = 1 .. Len(a) + Len(b)
        /\ \A k \in 1 .. Len(a) + Len(b) : (a \o b)[k] = IF k <= Len(a) THEN a[k] ELSE b[k - Len(a)]
    BY ConcatProperties, LenProperties
  <1>2. SUFFICES ASSUME NEW k \in 1 .. Len(a) + Len(b), NEW j \in 1 .. Len(a) + Len(b),
                        (a \o b)[k].id = (a \o b)[j].id
                 PROVE  k = j
    BY <1>1 DEF Distinct
  <1>3. \A l \in 1 .. Len(b), m \in 1 .. Len(a) : b[l].id # a[m].id
    BY <1>1 DEF Range, Handles
  <1>4. \A l, m \in 1 .. Len(b) : b[l].id = b[m].id => l = m
    BY <1>1 DEF Distinct
  <1>5. \A l, m \in 1 .. Len(a) : a[l].id = a[m].id => l = m
    BY <1>1 DEF Distinct
  <1>6. /\ k <= Len(a) => k \in 1 .. Len(a) /\ (a \o b)[k] = a[k]
        /\ ~(k <= Len(a)) => k - Len(a) \in 1 .. Len(b) /\ (a \o b)[k] = b[k - Len(a)]
        /\ j <= Len(a) => j \in 1 .. Len(a) /\ (a \o b)[j] = a[j]
        /\ ~(j <= Len(a)) => j - Len(a) \in 1 .. Len(b) /\ (a \o b)[j] = b[j - Len(a)]
    BY <1>1
  <1>7. CASE k <= Len(a) /\ j <= Len(a)
    BY <1>2, <1>5, <1>6, <1>7
  <1>8. CASE k <= Len(a) /\ ~(j <= Len(a))
    BY <1>2, <1>3, <1>6, <1>8
  <1>9. CASE ~(k <= Len(a)) /\ j <= Len(a)
    BY <1>2, <1>3, <1>6, <1>9
  <1>10. CASE ~(k <= Len(a)) /\ ~(j <= Len(a))
    <2>1. k - Len(a) = j - Len(a)
      BY <1>2, <1>4, <1>6, <1>10
    <2>2. QED
      BY <1>1, <2>1
  <1>11. QED
    BY <1>7, <1>8, <1>9, <1>10

\* Where handles are distinct, session.object finds the object with the handle.
LEMMA ObjectLemma ==
  ASSUME NEW objs \in Seq(Object), Distinct(objs), NEW id \in Handles(objs)
  PROVE  /\ object(objs, id) \in Range(objs)
         /\ object(objs, id) \in Object
         /\ object(objs, id).id = id
         /\ \A o \in Range(objs) : o.id = id => object(objs, id) = o
  <1> DEFINE P(i) == objs[i].id = id /\ \A j \in 1 .. i - 1 : objs[j].id # id
             n == CHOOSE i \in DOMAIN objs : P(i)
  <1>1. DOMAIN objs = 1 .. Len(objs) /\ Len(objs) \in Nat
    BY LenProperties
  <1>2. PICK k \in DOMAIN objs : objs[k].id = id
    BY DEF Handles
  <1>3. P(k)
    <2> SUFFICES ASSUME NEW j \in 1 .. k - 1, objs[j].id = id PROVE FALSE
      BY <1>2
    <2>1. j \in DOMAIN objs /\ j # k
      BY <1>1
    <2>2. QED
      BY <1>2, <2>1 DEF Distinct
  <1>4. n \in DOMAIN objs /\ P(n)
    BY <1>3
  <1> HIDE DEF n
  <1>5. object(objs, id) = objs[n]
    BY DEF object, n
  <1>6. objs[n] \in Range(objs) /\ objs[n].id = id
    BY <1>4 DEF Range
  <1>7. objs[n] \in Object
    BY <1>1, <1>4, ElementOfSeq
  <1>8. \A o \in Range(objs) : o.id = id => o = objs[n]
    BY <1>4 DEF Range, Distinct
  <1>9. QED
    BY <1>5, <1>6, <1>7, <1>8

-----------------------------------------------------------------------------
\* The kinds of steps.

\* A handler that answers, without handles and promises, and changes nothing.
Quiet(c) == \E r : /\ r.sid \in SessionIDs /\ r.handles = << >> /\ r.promised = << >>
                   /\ Reply(c, r)

\* Handle returns.
Ends(c) == phase[c] \in {"ready", "reply"} /\ Close(c)

\* The kinds of steps of a connection.
Step(c) ==
  \/ Quiet(c) \/ Ends(c) \/ Connect(c)
  \/ OpenSession(c) \/ CloseSession(c)
  \/ FindObjectsInit(c) \/ FindObjects(c) \/ FindObjectsFinal(c)
  \/ SignInit(c) \/ SignUpdate(c)
  \/ GenerateKeyPair(c) \/ DeriveKey(c)
  \/ Persist(c) \/ Persisted(c) \/ Deliver(c)

\* A response with nothing but a return value has no handles and no promises.
LEMMA RVLemma ==
  ASSUME NEW rv
  PROVE  RV(rv).sid \in SessionIDs /\ RV(rv).handles = << >> /\ RV(rv).promised = << >>
  BY ServerAssumption DEF RV, SessionIDs

\* Every step is of one of these kinds.
LEMMA StepKinds ==
  ASSUME Next
  PROVE  \E d \in Conns : Step(d)
  <1>1. PICK d \in Conns :
          \/ Connect(d) \/ ReadFails(d) \/ Handler(d)
          \/ Persist(d) \/ Persisted(d) \/ Deliver(d) \/ WriteFails(d)
    BY DEF Next
  <1>2. \A rv : Reply(d, RV(rv)) => Quiet(d)
    BY RVLemma DEF Quiet
  <1>3. Initialize(d) \/ GetSlotInfo(d) \/ RandomNoRNG(d) \/ FunctionNotSupported(d)
          \/ SessionHandleInvalid(d) \/ ObjectHandleInvalid(d) => Quiet(d)
    BY <1>2 DEF Initialize, GetSlotInfo, RandomNoRNG, FunctionNotSupported,
                SessionHandleInvalid, ObjectHandleInvalid
  <1>4. OpenSessionRefused(d) \/ CloseSessionInvalid(d) \/ Login(d) \/ Logout(d)
          \/ GetSessionInfo(d) => Quiet(d)
    BY <1>2 DEF OpenSessionRefused, CloseSessionInvalid, Login, Logout, GetSessionInfo
  <1>5. GetAttributeValue(d) \/ SignInitRefused(d) \/ GenerateRefused(d) \/ DeriveRefused(d)
          => Quiet(d)
    BY <1>2 DEF GetAttributeValue, SignInitRefused, GenerateRefused, DeriveRefused
  <1>6. ASSUME NEW i \in Live(d), NEW data, NEW call, NEW rv, Signs(d, i, data, call, rv)
        PROVE  Quiet(d)
    <2> DEFINE r == [RV(rv) EXCEPT !.sid = i, !.call = call,
                       !.sig = IF rv = "CKR_OK"
                               THEN [key |-> sessions[d][i].signObject.key,
                                     typ |-> sessions[d][i].signMechanism.typ, data |-> data]
                               ELSE NoSig]
    <2>1. Reply(d, r)
      BY <1>6 DEF Signs
    <2>2. r.sid = i /\ r.handles = << >> /\ r.promised = << >>
      BY DEF RV
    <2>3. i \in SessionIDs
      BY DEF Live
    <2> HIDE DEF r
    <2>4. QED
      BY <2>1, <2>2, <2>3 DEF Quiet
  <1>7. Sign(d) \/ SignFinal(d) => Quiet(d)
    BY <1>6 DEF Sign, SignFinal
  <1>8. ReadFails(d) \/ WriteFails(d) \/ GetObjectsFails(d) \/ SignFatal(d)
          \/ NewObjectIDFails(d) \/ Finalize(d) => Ends(d)
    BY DEF ReadFails, WriteFails, GetObjectsFails, SignFatal, NewObjectIDFails, Finalize, Ends
  <1>9. QED
    BY <1>1, <1>3, <1>4, <1>5, <1>7, <1>8 DEF Handler, Step

-----------------------------------------------------------------------------
\* What each step does to the sessions and to what clients know.

\* Session i of connection c becomes y; no other session changes.
Sets(c, i, y) ==
  /\ y \in Session \cup {NoSession}
  /\ sessions' \in [Conns -> [SessionIDs -> Session \cup {NoSession}]]
  /\ sessions'[c][i] = y
  /\ \A d \in Conns, j \in SessionIDs : (d # c \/ j # i) => sessions'[d][j] = sessions[d][j]

\* y is x with other search results or another signing operation.
SameObjects(x, y) == y \in Session /\ y.slot = x.slot /\ y.objects = x.objects

\* The client's view of the searches of session i becomes z.
Searches(c, i, z) ==
  /\ z \in SearchState
  /\ search' \in [Conns -> [SessionIDs -> SearchState]]
  /\ search'[c][i] = z
  /\ \A d \in Conns, j \in SessionIDs : (d # c \/ j # i) => search'[d][j] = search[d][j]

\* An assignment to one session.
LEMMA SetsLemma ==
  ASSUME Types, NEW c \in Conns, NEW i \in SessionIDs, NEW y \in Session \cup {NoSession},
         sessions' = [sessions EXCEPT ![c][i] = y]
  PROVE  Sets(c, i, y)
  BY DEF Types, TypeOK, Sets

\* An assignment to what the client knows of one session's searches.
LEMMA SearchesLemma ==
  ASSUME Types, NEW c \in Conns, NEW i \in SessionIDs, NEW z \in SearchState,
         search' = [search EXCEPT ![c][i] = z]
  PROVE  Searches(c, i, z)
  BY DEF Types, Searches

\* A live session is a record.
LEMMA LiveLemma ==
  ASSUME Types, NEW c \in Conns, NEW i \in Live(c)
  PROVE  i \in SessionIDs /\ sessions[c][i] # NoSession /\ sessions[c][i] \in Session
  BY DEF Types, TypeOK, Live

\* Connection c opens session i on slot s, with a handle that is not in use.
SessionOpened(c, s, i, objs) ==
  /\ sessions[c][i] = NoSession
  /\ objs \in Seq(Object)
  /\ NewSession(s, objs) \in Session
  /\ Sets(c, i, NewSession(s, objs))
  /\ lastSessionID' = [lastSessionID EXCEPT ![c] = i]
  /\ Answer(c, [RV("CKR_OK") EXCEPT !.sid = i])
  /\ UNCHANGED <<token, left, nextID, ghosts>>

\* A successful C_OpenSession does this.
LEMMA OpenSessionEffect ==
  ASSUME BaseInv, NEW c \in Conns, OpenSession(c)
  PROVE  \E s \in Slots, i \in SessionIDs : \E objs \in Snapshots(s) : SessionOpened(c, s, i, objs)
  <1>1. PICK s \in Slots, i \in Probe(c) : \E objs \in Snapshots(s) :
          /\ sessions' = [sessions EXCEPT ![c][i] = NewSession(s, objs)]
          /\ lastSessionID' = [lastSessionID EXCEPT ![c] = i]
          /\ Answer(c, [RV("CKR_OK") EXCEPT !.sid = i])
    BY DEF OpenSession
  <1>2. PICK objs \in Snapshots(s) :
          /\ sessions' = [sessions EXCEPT ![c][i] = NewSession(s, objs)]
          /\ lastSessionID' = [lastSessionID EXCEPT ![c] = i]
          /\ Answer(c, [RV("CKR_OK") EXCEPT !.sid = i])
    BY <1>1
  <1>3. i \in SessionIDs /\ sessions[c][i] = NoSession
    BY DEF Probe, Live
  <1>4. objs \in Seq(Object)
    BY ServerAssumption DEF Snapshots, BaseInv, Types, TypeOK
  <1>5. NewSession(s, objs) \in Session
    <2>1. NoMech \in Mechanism
      BY DEF NoMech, Mechanism
    <2>2. NoObject \in Object
      BY DEF NoObject, Object, AttrValues
    <2>3. QED
      BY <1>4, <2>1, <2>2 DEF NewSession, Session
  <1>6. Sets(c, i, NewSession(s, objs))
    BY <1>2, <1>3, <1>5, SetsLemma DEF BaseInv
  <1>7. UNCHANGED <<token, left, nextID, ghosts>>
    BY DEF OpenSession
  <1>8. QED
    BY <1>2, <1>3, <1>4, <1>5, <1>6, <1>7 DEF SessionOpened

\* Session i becomes y: the handles ids of objects of its own join the results.
SearchStarted(c, i, y, z, ids) ==
  /\ sessions[c][i] # NoSession
  /\ \A k \in DOMAIN ids : ids[k] \in Handles(sessions[c][i].objects)
  /\ Sets(c, i, y) /\ SameObjects(sessions[c][i], y)
  /\ y.findMatches = sessions[c][i].findMatches \o ids
  /\ y.signObject = sessions[c][i].signObject
  /\ y.signMechanism = sessions[c][i].signMechanism
  /\ Searches(c, i, z)
  /\ z.found = ids /\ z.sent = << >> /\ z.clean = (sessions[c][i].findMatches = << >>)
  /\ Answer(c, RV("CKR_OK"))
  /\ UNCHANGED <<token, lastSessionID, left, nextID, acked, given>>

\* A successful C_FindObjectsInit does this.
LEMMA FindObjectsInitEffect ==
  ASSUME BaseInv, NEW c \in Conns, FindObjectsInit(c)
  PROVE  \E i \in SessionIDs, y \in Session, z \in SearchState, ids \in Seq(Nat) :
           SearchStarted(c, i, y, z, ids)
  <1> DEFINE M(x, tmpl) == {k \in DOMAIN x.objects : matches(x.objects[k], tmpl)}
             IDs(x, q) == [k \in DOMAIN q |-> x.objects[q[k]].id]
             Y(x, ids) == [x EXCEPT !.findMatches = @ \o ids]
  <1>0. PICK i \in Live(c), tmpl \in FindTmpls :
          \E q \in Enumerations(M(sessions[c][i], tmpl)) :
            LET ids == IDs(sessions[c][i], q) IN
            /\ sessions' = [sessions EXCEPT ![c][i].findMatches = @ \o ids]
            /\ search' = [search EXCEPT ![c][i] = Started(@, ids, sessions[c][i].findMatches = << >>)]
    BY Zenon DEF FindObjectsInit
  <1>1. PICK q \in Enumerations(M(sessions[c][i], tmpl)) :
            LET ids == IDs(sessions[c][i], q) IN
            /\ sessions' = [sessions EXCEPT ![c][i].findMatches = @ \o ids]
            /\ search' = [search EXCEPT ![c][i] = Started(@, ids, sessions[c][i].findMatches = << >>)]
    BY <1>0, Zenon
  <1>2. /\ sessions' = [sessions EXCEPT ![c][i] = Y(sessions[c][i], IDs(sessions[c][i], q))]
        /\ search' = [search EXCEPT ![c][i] = Started(search[c][i], IDs(sessions[c][i], q), sessions[c][i].findMatches = << >>)]
    <2> HIDE DEF IDs, M
    <2>1. QED
      BY <1>1
  <1> DEFINE x == sessions[c][i]
             ids == IDs(x, q)
             m == M(x, tmpl)
  <1>3. i \in SessionIDs /\ x # NoSession /\ x \in Session
    BY LiveLemma DEF BaseInv
  <1>4. x.objects \in Seq(Object) /\ x.findMatches \in Seq(Nat)
    BY <1>3 DEF Session
  <1>5. DOMAIN x.objects = 1 .. Len(x.objects) /\ Len(x.objects) \in Nat
    BY <1>4
  <1>6. m \subseteq DOMAIN x.objects
    OBVIOUS
  <1>7. Cardinality(m) \in Nat
    <2>1. IsFiniteSet(1 .. Len(x.objects))
      <3>1. 1 \in Int /\ Len(x.objects) \in Int
        BY <1>5
      <3>2. QED
        BY <3>1, FS_Interval
    <2>2. IsFiniteSet(m)
      BY <1>5, <1>6, <2>1, FS_Subset
    <2>3. QED
      BY <2>2, FS_CardinalityType
  <1>8. q \in [1 .. Cardinality(m) -> m]
    BY DEF Enumerations
  <1>9. \A k \in 1 .. Cardinality(m) : /\ ids[k] \in Handles(x.objects)
                                       /\ ids[k] \in Nat
    <2> TAKE k \in 1 .. Cardinality(m)
    <2>1. q[k] \in DOMAIN x.objects /\ ids[k] = x.objects[q[k]].id
      BY <1>6, <1>8
    <2>2. x.objects[q[k]] \in Object
      BY <1>4, <1>5, <2>1, ElementOfSeq
    <2>3. QED
      BY <2>1, <2>2 DEF Handles, Object
  <1>10. ids \in [1 .. Cardinality(m) -> Nat]
    BY <1>8, <1>9
  <1>11. ids \in Seq(Nat) /\ DOMAIN ids = 1 .. Cardinality(m)
    <2> HIDE DEF ids, m
    <2>1. QED
      BY <1>7, <1>10, FunctionIsSeq
  <1> DEFINE y == Y(x, ids)
             w == search[c][i]
             z == Started(w, ids, x.findMatches = << >>)
  <1> HIDE DEF ids, IDs, m, M
  <1>12. /\ y \in Session /\ SameObjects(x, y)
         /\ y.findMatches = x.findMatches \o ids
         /\ y.signObject = x.signObject /\ y.signMechanism = x.signMechanism
    <2>1. x.findMatches \o ids \in Seq(Nat)
      BY <1>4, <1>11, ConcatProperties
    <2>2. QED
      BY <1>3, <2>1 DEF Session, SameObjects
  <1>13. w \in SearchState
    BY <1>3 DEF BaseInv, Types
  <1>14. /\ z \in SearchState /\ z.found = ids /\ z.sent = << >>
         /\ z.clean = (x.findMatches = << >>)
    <2>1. (w.legal /\ ~w.active) \in BOOLEAN /\ (x.findMatches = << >>) \in BOOLEAN
      OBVIOUS
    <2>2. << >> \in Seq(Nat)
      BY ShortLists
    <2>3. QED
      BY <1>11, <2>1, <2>2 DEF SearchState, Started
  <1>15. Sets(c, i, y)
    BY <1>2, <1>3, <1>12, SetsLemma DEF BaseInv, ids
  <1>16. Searches(c, i, z)
    BY <1>2, <1>3, <1>14, SearchesLemma DEF BaseInv, ids
  <1>17. Answer(c, RV("CKR_OK")) /\ UNCHANGED <<token, lastSessionID, left, nextID, acked, given>>
    BY DEF FindObjectsInit
  <1> HIDE DEF y, z, w
  <1>18. QED
    BY <1>3, <1>9, <1>11, <1>12, <1>14, <1>15, <1>16, <1>17 DEF w, SearchStarted

\* session.findNext splits the results: nothing is lost, doubled or reordered.
LEMMA FindNextLemma ==
  ASSUME NEW m \in Seq(Nat), NEW max \in Nat
  PROVE  /\ findNext(m, max).batch \in Seq(Nat) /\ findNext(m, max).rest \in Seq(Nat)
         /\ m = findNext(m, max).batch \o findNext(m, max).rest
         /\ \A k \in DOMAIN findNext(m, max).batch : \E j \in DOMAIN m : findNext(m, max).batch[k] = m[j]
         /\ \A k \in DOMAIN findNext(m, max).rest : \E j \in DOMAIN m : findNext(m, max).rest[k] = m[j]
  <1>1. Len(m) \in Nat /\ DOMAIN m = 1 .. Len(m) /\ \A k \in 1 .. Len(m) : m[k] \in Nat
    BY ElementOfSeq
  <1>2. CASE max >= Len(m)
    <2>1. findNext(m, max).batch = m /\ findNext(m, max).rest = << >>
      BY <1>2 DEF findNext
    <2>2. m \o << >> = m /\ << >> \in Seq(Nat) /\ DOMAIN << >> = {}
      BY ConcatEmptySeq
    <2>3. QED
      BY <2>1, <2>2
  <1>3. CASE ~(max >= Len(m))
    <2>1. /\ findNext(m, max).batch = SubSeq(m, 1, max)
          /\ findNext(m, max).rest = SubSeq(m, max + 1, Len(m))
      BY <1>3 DEF findNext
    <2>2. max < Len(m)
      BY <1>1, <1>3
    <2>3. /\ SubSeq(m, 1, max) \in Seq(Nat) /\ Len(SubSeq(m, 1, max)) = max
          /\ \A k \in 1 .. max : SubSeq(m, 1, max)[k] = m[k]
      BY <1>1, <2>2, SubSeqProperties
    <2>4. /\ SubSeq(m, max + 1, Len(m)) \in Seq(Nat) /\ Len(SubSeq(m, max + 1, Len(m))) = Len(m) - max
          /\ \A k \in 1 .. Len(m) - max : SubSeq(m, max + 1, Len(m))[k] = m[max + k]
      <3>1. max + 1 \in Int /\ Len(m) \in Int /\ \A k \in max + 1 .. Len(m) : m[k] \in Nat
        BY <1>1
      <3>2. /\ SubSeq(m, max + 1, Len(m)) \in Seq(Nat)
            /\ Len(SubSeq(m, max + 1, Len(m))) =
                 IF max + 1 <= Len(m) THEN Len(m) - (max + 1) + 1 ELSE 0
            /\ \A k \in 1 .. Len(m) - (max + 1) + 1 :
                 SubSeq(m, max + 1, Len(m))[k] = m[(max + 1) + k - 1]
        BY <3>1, SubSeqProperties
      <3>3. Len(m) - (max + 1) + 1 = Len(m) - max /\ max + 1 <= Len(m)
        BY <1>1, <2>2
      <3>4. \A k \in 1 .. Len(m) - max : (max + 1) + k - 1 = max + k
        BY <1>1, <2>2
      <3>5. QED
        BY <3>2, <3>3, <3>4
    <2>5. SubSeq(m, 1, max) \o SubSeq(m, max + 1, Len(m)) = m
      <3>1. /\ 1 \in 1 .. Len(m) + 1 /\ max \in 1 - 1 .. Len(m) /\ Len(m) \in max .. Len(m)
        BY <1>1, <2>2
      <3>2. SubSeq(m, 1, max) \o SubSeq(m, max + 1, Len(m)) = SubSeq(m, 1, Len(m))
        BY <3>1, ConcatAdjacentSubSeq
      <3>3. QED
        BY <3>2, SubSeqFull
    <2>6. DOMAIN SubSeq(m, 1, max) = 1 .. max /\ DOMAIN SubSeq(m, max + 1, Len(m)) = 1 .. Len(m) - max
      BY <2>3, <2>4, LenProperties
    <2>7. \A k \in 1 .. max : k \in DOMAIN m
      BY <1>1, <2>2
    <2>8. \A k \in 1 .. Len(m) - max : max + k \in DOMAIN m
      BY <1>1, <2>2
    <2>9. QED
      BY <2>1, <2>3, <2>4, <2>5, <2>6, <2>7, <2>8
  <1>4. QED
    BY <1>2, <1>3

\* Session i becomes y: the first results, batch, are returned.
SearchServed(c, i, y, z, batch) ==
  /\ sessions[c][i] # NoSession
  /\ Sets(c, i, y) /\ SameObjects(sessions[c][i], y)
  /\ sessions[c][i].findMatches = batch \o y.findMatches
  /\ \A k \in DOMAIN batch :
       \E j \in DOMAIN sessions[c][i].findMatches : batch[k] = sessions[c][i].findMatches[j]
  /\ \A k \in DOMAIN y.findMatches :
       \E j \in DOMAIN sessions[c][i].findMatches :
         y.findMatches[k] = sessions[c][i].findMatches[j]
  /\ y.signObject = sessions[c][i].signObject
  /\ y.signMechanism = sessions[c][i].signMechanism
  /\ Searches(c, i, z)
  /\ z.found = search[c][i].found /\ z.active = search[c][i].active
  /\ z.clean = search[c][i].clean
  /\ z.clean => z.sent = search[c][i].sent \o batch
  /\ Answer(c, [RV("CKR_OK") EXCEPT !.sid = i, !.handles = batch, !.call = "FindObjects"])
  /\ UNCHANGED <<token, lastSessionID, left, nextID, acked, given>>

\* A successful C_FindObjects does this.
LEMMA FindObjectsEffect ==
  ASSUME BaseInv, NEW c \in Conns, FindObjects(c)
  PROVE  \E i \in SessionIDs, y \in Session, z \in SearchState, batch \in Seq(Nat) :
           SearchServed(c, i, y, z, batch)
  <1>1. PICK i \in Live(c), count \in Counts :
          LET r == findNext(sessions[c][i].findMatches, count) IN
          /\ sessions' = [sessions EXCEPT ![c][i].findMatches = r.rest]
          /\ search' = [search EXCEPT ![c][i] = Served(@, r.batch)]
          /\ Answer(c, [RV("CKR_OK") EXCEPT !.sid = i, !.handles = r.batch, !.call = "FindObjects"])
    BY DEF FindObjects
  <1> DEFINE x == sessions[c][i]
             w == search[c][i]
             r == findNext(x.findMatches, count)
             y == [x EXCEPT !.findMatches = r.rest]
             z == Served(w, r.batch)
  <1>2. i \in SessionIDs /\ x # NoSession /\ x \in Session /\ count \in Nat
    BY LiveLemma, ServerAssumption DEF BaseInv
  <1>3. x.findMatches \in Seq(Nat) /\ w \in SearchState
    BY <1>2 DEF Session, BaseInv, Types
  <1>4. /\ r.batch \in Seq(Nat) /\ r.rest \in Seq(Nat)
        /\ x.findMatches = r.batch \o r.rest
        /\ \A k \in DOMAIN r.batch : \E j \in DOMAIN x.findMatches : r.batch[k] = x.findMatches[j]
        /\ \A k \in DOMAIN r.rest : \E j \in DOMAIN x.findMatches : r.rest[k] = x.findMatches[j]
    BY <1>2, <1>3, FindNextLemma
  <1>5. sessions' = [sessions EXCEPT ![c][i] = y] /\ search' = [search EXCEPT ![c][i] = z]
    BY <1>1
  <1> HIDE DEF r
  <1>6. /\ y \in Session /\ SameObjects(x, y) /\ y.findMatches = r.rest
        /\ y.signObject = x.signObject /\ y.signMechanism = x.signMechanism
    BY <1>2, <1>4 DEF Session, SameObjects
  <1>7. /\ z \in SearchState /\ z.found = w.found /\ z.active = w.active
        /\ z.clean = w.clean /\ (z.clean => z.sent = w.sent \o r.batch)
    <2>1. w.sent \o r.batch \in Seq(Nat)
      BY <1>3, <1>4, ConcatProperties DEF SearchState
    <2>2. (w.legal /\ w.active) \in BOOLEAN
      OBVIOUS
    <2>3. QED
      BY <1>3, <2>1, <2>2 DEF SearchState, Served
  <1>8. Sets(c, i, y) /\ Searches(c, i, z)
    BY <1>2, <1>5, <1>6, <1>7, SetsLemma, SearchesLemma DEF BaseInv
  <1>9. /\ Answer(c, [RV("CKR_OK") EXCEPT !.sid = i, !.handles = r.batch, !.call = "FindObjects"])
        /\ UNCHANGED <<token, lastSessionID, left, nextID, acked, given>>
    BY <1>1 DEF FindObjects, r
  <1> DEFINE batch == r.batch
  <1>10. /\ batch \in Seq(Nat) /\ x.findMatches = batch \o y.findMatches
         /\ \A k \in DOMAIN batch : \E j \in DOMAIN x.findMatches : batch[k] = x.findMatches[j]
         /\ \A k \in DOMAIN y.findMatches : \E j \in DOMAIN x.findMatches :
              y.findMatches[k] = x.findMatches[j]
    <2>1. y.findMatches = r.rest
      BY <1>6
    <2>2. QED
      BY <1>4, <2>1, Zenon
  <1>11. /\ z.clean => z.sent = w.sent \o batch
         /\ Answer(c, [RV("CKR_OK") EXCEPT !.sid = i, !.handles = batch, !.call = "FindObjects"])
    BY <1>7, <1>9
  <1> HIDE DEF y, z, w, batch
  <1>12. QED
    BY <1>2, <1>6, <1>7, <1>8, <1>9, <1>10, <1>11, Zenon DEF w, SearchServed

\* C_FindObjectsFinal only changes what the client thinks is going on.
LEMMA FindObjectsFinalEffect ==
  ASSUME BaseInv, NEW c \in Conns, FindObjectsFinal(c)
  PROVE  \E i \in SessionIDs, z \in SearchState :
           /\ Searches(c, i, z) /\ ~z.active
           /\ Answer(c, RV("CKR_OK"))
           /\ UNCHANGED <<token, lastSessionID, sessions, left, nextID, acked, given>>
  <1>1. PICK i \in SessionIDs : search' = [search EXCEPT ![c][i] = Ended(@)]
    BY DEF FindObjectsFinal
  <1> DEFINE w == search[c][i]
             z == Ended(w)
  <1>2. w \in SearchState
    BY DEF BaseInv, Types
  <1>3. z \in SearchState /\ ~z.active
    <2>1. w.legal \in BOOLEAN
      BY <1>2 DEF SearchState
    <2>2. NoSearch \in SearchState /\ ~NoSearch.active
      BY DEF NoSearch, SearchState
    <2>3. QED
      BY <2>1, <2>2 DEF SearchState, Ended
  <1>4. search' = [search EXCEPT ![c][i] = z]
    BY <1>1
  <1>5. Searches(c, i, z)
    BY <1>3, <1>4, SearchesLemma DEF BaseInv
  <1>6. /\ Answer(c, RV("CKR_OK"))
        /\ UNCHANGED <<token, lastSessionID, sessions, left, nextID, acked, given>>
    BY DEF FindObjectsFinal
  <1> HIDE DEF z, w
  <1>7. QED
    BY <1>3, <1>5, <1>6 DEF w

\* Session i becomes y, which signs with an object of its own.
SignerSet(c, i, y) ==
  /\ sessions[c][i] # NoSession
  /\ Sets(c, i, y) /\ SameObjects(sessions[c][i], y)
  /\ y.findMatches = sessions[c][i].findMatches
  /\ y.signObject \in Range(y.objects)
  /\ supports(y.signObject, y.signMechanism)
  /\ Answer(c, RV("CKR_OK"))
  /\ UNCHANGED <<token, lastSessionID, left, nextID, acked, given, search>>

\* A successful C_SignInit does this.
LEMMA SignInitEffect ==
  ASSUME BaseInv, NEW c \in Conns, SignInit(c)
  PROVE  \E i \in SessionIDs, y \in Session : SignerSet(c, i, y)
  <1>1. PICK i \in Live(c), m \in SignMechs : \E id \in Handles(sessions[c][i].objects) :
          /\ supports(object(sessions[c][i].objects, id), m)
          /\ sessions' = [sessions EXCEPT ![c][i] =
                            WithSigner(@, m, object(sessions[c][i].objects, id))]
    BY DEF SignInit
  <1>2. PICK id \in Handles(sessions[c][i].objects) :
          /\ supports(object(sessions[c][i].objects, id), m)
          /\ sessions' = [sessions EXCEPT ![c][i] =
                            WithSigner(@, m, object(sessions[c][i].objects, id))]
    BY <1>1
  <1> DEFINE x == sessions[c][i]
             o == object(x.objects, id)
             y == WithSigner(x, m, o)
  <1>3. i \in SessionIDs /\ x # NoSession /\ x \in Session /\ m \in Mechanism
    BY LiveLemma, ServerAssumption DEF BaseInv
  <1>4. x.objects \in Seq(Object) /\ Distinct(x.objects)
    BY <1>3 DEF Session, BaseInv, Lists, Assigned
  <1>5. o \in Object /\ o \in Range(x.objects)
    BY <1>4, ObjectLemma
  <1>6. supports(o, m)
    BY <1>2
  <1>7. sessions' = [sessions EXCEPT ![c][i] = y]
    BY <1>2
  <1> HIDE DEF o
  <1>8. /\ y \in Session /\ SameObjects(x, y) /\ y.findMatches = x.findMatches
        /\ y.signObject = o /\ y.signMechanism = m /\ y.objects = x.objects
    BY <1>3, <1>5 DEF Session, SameObjects, WithSigner
  <1> HIDE DEF y
  <1>9. Sets(c, i, y)
    BY <1>3, <1>7, <1>8, SetsLemma DEF BaseInv
  <1>10. /\ Answer(c, RV("CKR_OK"))
         /\ UNCHANGED <<token, lastSessionID, left, nextID, acked, given, search>>
    BY DEF SignInit
  <1>11. QED
    BY <1>3, <1>5, <1>6, <1>8, <1>9, <1>10 DEF SignerSet

\* Session i becomes y, with more data to sign.
DataFed(c, i, y) ==
  /\ sessions[c][i] # NoSession
  /\ Sets(c, i, y) /\ SameObjects(sessions[c][i], y)
  /\ y.findMatches = sessions[c][i].findMatches
  /\ y.signObject = sessions[c][i].signObject
  /\ y.signMechanism = sessions[c][i].signMechanism
  /\ Answer(c, RV("CKR_OK"))
  /\ UNCHANGED <<token, lastSessionID, left, nextID, acked, given, search>>

\* A successful C_SignUpdate does this.
LEMMA SignUpdateEffect ==
  ASSUME BaseInv, NEW c \in Conns, SignUpdate(c)
  PROVE  \E i \in SessionIDs, y \in Session : DataFed(c, i, y)
  <1>1. PICK i \in Live(c), d \in Chunks :
          sessions' = [sessions EXCEPT ![c][i].signData = Append(@, d)]
    BY DEF SignUpdate
  <1> DEFINE x == sessions[c][i]
             y == [x EXCEPT !.signData = Append(@, d)]
  <1>2. i \in SessionIDs /\ x # NoSession /\ x \in Session
    BY LiveLemma DEF BaseInv
  <1>3. sessions' = [sessions EXCEPT ![c][i] = y]
    BY <1>1
  <1>4. /\ y \in Session /\ SameObjects(x, y) /\ y.findMatches = x.findMatches
        /\ y.signObject = x.signObject /\ y.signMechanism = x.signMechanism
    <2>1. Append(x.signData, d) \in Seq(Chunks)
      BY <1>2, AppendProperties DEF Session
    <2>2. QED
      BY <1>2, <2>1 DEF Session, SameObjects
  <1> HIDE DEF y
  <1>5. Sets(c, i, y)
    BY <1>2, <1>3, <1>4, SetsLemma DEF BaseInv
  <1>6. /\ Answer(c, RV("CKR_OK"))
        /\ UNCHANGED <<token, lastSessionID, left, nextID, acked, given, search>>
    BY DEF SignUpdate
  <1>7. QED
    BY <1>2, <1>4, <1>5, <1>6 DEF DataFed

\* A generated key has the handle, the key and the half it was made with.
LEMMA KeyObjectLemma ==
  ASSUME NEW id \in Nat, NEW key \in Nat, NEW typ, NEW half \in {"pub", "priv"},
         NEW tmpl \in PubTmpls \cup PrivTmpls
  PROVE  LET o == setAttributes(newKeyObject(id, key, Alg(typ), half), tmpl) IN
         /\ o \in Object /\ o.id = id /\ o.key = key
         /\ o.half = half
  <1> DEFINE n == newKeyObject(id, key, Alg(typ), half)
             a == [t \in AttrTypes |-> IF t \in DOMAIN tmpl THEN tmpl[t] ELSE n.attrs[t]]
  <1>1. \A t \in AttrTypes : n.attrs[t] \in AttrValues
    BY DEF newKeyObject, AttrTypes, AttrValues
  <1>2. a \in [AttrTypes -> AttrValues]
    BY <1>1, ServerAssumption
  <1>3. /\ n.id = id /\ n.key = key /\ n.half = half
        /\ n.alg = Alg(typ)
        /\ n = [id |-> n.id, key |-> n.key, half |-> n.half, alg |-> n.alg, attrs |-> n.attrs]
    BY DEF newKeyObject
  <1>4. Alg(typ) \in {"RSA", "EC"}
    BY DEF Alg
  <1> HIDE DEF n, a
  <1>5. setAttributes(n, tmpl) = [n EXCEPT !.attrs = a]
    BY DEF setAttributes, a
  <1>6. [n EXCEPT !.attrs = a] =
          [id |-> n.id, key |-> n.key, half |-> n.half, alg |-> n.alg, attrs |-> a]
    BY <1>3
  <1>7. QED
    BY <1>2, <1>3, <1>4, <1>5, <1>6 DEF Object, n

\* A derived object is a secret that is no token object.
LEMMA DerivedLemma ==
  ASSUME NEW id \in Nat, NEW key \in Nat, NEW tmpl \in DeriveTmpls
  PROVE  LET o == Derived(id, key, tmpl) IN
         o \in Object /\ o.id = id /\ o.half = "secret" /\ ~IsToken(o)
  <1> DEFINE a == [t \in AttrTypes |->
                     IF t # "CLASS" THEN "absent"
                     ELSE IF "CLASS" \in DOMAIN tmpl /\ tmpl["CLASS"] # "nil"
                          THEN tmpl["CLASS"] ELSE "secret"]
  <1>1. a \in [AttrTypes -> AttrValues]
    BY ServerAssumption DEF AttrValues
  <1>2. a["TOKEN"] = "absent"
    BY DEF AttrTypes
  <1> HIDE DEF a
  <1>3. Derived(id, key, tmpl) =
          [id |-> id, key |-> key, half |-> "secret", alg |-> "none", attrs |-> a]
    BY DEF Derived, a
  <1>4. QED
    BY <1>1, <1>2, <1>3 DEF Object, IsToken

\* The objects C_GenerateKeyPair persists, in order.
LEMMA TokenOnesLemma ==
  ASSUME NEW pub \in Object, NEW priv \in Object
  PROVE  LET t == TokenOnes(pub, priv) IN
         \/ t = << >> /\ ~IsToken(pub) /\ ~IsToken(priv)
         \/ t = <<pub>> /\ IsToken(pub) /\ ~IsToken(priv)
         \/ t = <<priv>> /\ ~IsToken(pub) /\ IsToken(priv)
         \/ t = <<pub, priv>> /\ IsToken(pub) /\ IsToken(priv)
  <1>1. /\ << >> \o << >> = << >> /\ <<pub>> \o << >> = <<pub>> /\ << >> \o <<priv>> = <<priv>>
        /\ <<pub>> \o <<priv>> = <<pub, priv>>
    <2>1. << >> \o << >> = << >>
      BY ConcatEmptySeq, ShortLists
    <2>2. <<pub>> \o << >> = <<pub>>
      BY ConcatEmptySeq, ShortLists
    <2>3. << >> \o <<priv>> = <<priv>>
      BY ConcatEmptySeq, ShortLists
    <2>4. <<pub>> \o <<priv>> = <<pub, priv>>
      <3> DEFINE a == <<pub>>  b == <<priv>>  ab == <<pub, priv>>
      <3>1. /\ a \in Seq(Object) /\ b \in Seq(Object) /\ ab \in Seq(Object)
            /\ Len(a) = 1 /\ Len(b) = 1 /\ Len(ab) = 2
            /\ a[1] = pub /\ b[1] = priv /\ ab[1] = pub /\ ab[2] = priv
        OBVIOUS
      <3> HIDE DEF a, b, ab
      <3>2. a \o b \in Seq(Object) /\ Len(a \o b) = 2 /\ (a \o b)[1] = pub /\ (a \o b)[2] = priv
        <4>1. 1 \in 1 .. Len(a) + Len(b) /\ 2 \in 1 .. Len(a) + Len(b) /\ ~(2 <= 1) /\ 2 - 1 = 1
          BY <3>1
        <4>2. Len(a \o b) = Len(a) + Len(b)
          BY <3>1, ConcatProperties
        <4>3. (a \o b)[1] = IF 1 <= Len(a) THEN a[1] ELSE b[1 - Len(a)]
          BY <3>1, <4>1, ConcatProperties
        <4>4. (a \o b)[2] = IF 2 <= Len(a) THEN a[2] ELSE b[2 - Len(a)]
          BY <3>1, <4>1, ConcatProperties
        <4>5. QED
          BY <3>1, <4>1, <4>2, <4>3, <4>4, ConcatProperties
      <3>3. \A k \in 1 .. 2 : (a \o b)[k] = ab[k]
        BY <3>1, <3>2
      <3>4. a \o b = ab
        BY <3>1, <3>2, <3>3, SeqEqual
      <3>5. QED
        BY <3>4 DEF a, b, ab
    <2>5. QED
      BY <2>1, <2>2, <2>3, <2>4
  <1>2. QED
    BY <1>1 DEF TokenOnes

\* Session i becomes y, with a new key pair.
PairMade(c, i, y, pub, priv) ==
  /\ phase[c] = "ready" /\ nextID + 1 <= MaxID
  /\ sessions[c][i] # NoSession
  /\ pub.id = nextID /\ pub.key = nextID /\ pub.half = "pub"
  /\ priv.id = nextID + 1 /\ priv.key = nextID /\ priv.half = "priv"
  /\ Sets(c, i, y)
  /\ y.slot = sessions[c][i].slot
  /\ y.objects = sessions[c][i].objects \o <<pub, priv>>
  /\ y.findMatches = sessions[c][i].findMatches
  /\ y.signObject = sessions[c][i].signObject
  /\ y.signMechanism = sessions[c][i].signMechanism
  /\ left' = [left EXCEPT ![c] = TokenOnes(pub, priv)]
  /\ resp' = [resp EXCEPT ![c] = KeyPairResponse(i, pub, priv)]
  /\ nextID' = nextID + 2
  /\ phase' = [phase EXCEPT ![c] = "persist"]
  /\ UNCHANGED <<token, lastSessionID, ghosts>>

\* A successful C_GenerateKeyPair does this before it persists.
LEMMA GenerateEffect ==
  ASSUME BaseInv, NEW c \in Conns, GenerateKeyPair(c)
  PROVE  \E i \in SessionIDs, y \in Session, pub \in Object, priv \in Object :
           PairMade(c, i, y, pub, priv)
  <1> DEFINE Pub(typ, tp) == setAttributes(newKeyObject(nextID, nextID, Alg(typ), "pub"), tp)
             Priv(typ, tv) == setAttributes(newKeyObject(nextID + 1, nextID, Alg(typ), "priv"), tv)
  <1>1. PICK i \in Live(c), typ \in GenMechs, d \in Domains, tp \in PubTmpls, tv \in PrivTmpls :
          AddKeyPair(c, i, Pub(typ, tp), Priv(typ, tv))
    BY DEF GenerateKeyPair
  <1> HIDE DEF AddKeyPair
  <1> DEFINE pub == Pub(typ, tp)
             priv == Priv(typ, tv)
             x == sessions[c][i]
             y == [x EXCEPT !.objects = @ \o <<pub, priv>>]
  <1>2. nextID \in Nat /\ nextID + 1 \in Nat /\ {tp, tv} \subseteq PubTmpls \cup PrivTmpls
    BY DEF BaseInv, Types, TypeOK
  <1>3. pub \in Object /\ pub.id = nextID /\ pub.key = nextID /\ pub.half = "pub"
    BY <1>2, KeyObjectLemma
  <1>4. priv \in Object /\ priv.id = nextID + 1 /\ priv.key = nextID /\ priv.half = "priv"
    BY <1>2, KeyObjectLemma
  <1>5. i \in SessionIDs /\ x # NoSession /\ x \in Session
    BY LiveLemma DEF BaseInv
  <1>6. AddKeyPair(c, i, pub, priv)
    BY <1>1
  <1> HIDE DEF pub, priv, Pub, Priv
  <1>7. sessions' = [sessions EXCEPT ![c][i] = y]
    BY <1>6 DEF AddKeyPair
  <1>8. /\ y \in Session /\ y.slot = x.slot /\ y.objects = x.objects \o <<pub, priv>>
        /\ y.findMatches = x.findMatches
        /\ y.signObject = x.signObject /\ y.signMechanism = x.signMechanism
    <2>1. x.objects \o <<pub, priv>> \in Seq(Object)
      BY <1>3, <1>4, <1>5, ShortLists, ConcatObjects DEF Session
    <2>2. QED
      BY <1>5, <2>1 DEF Session
  <1> HIDE DEF y
  <1>9. Sets(c, i, y)
    BY <1>5, <1>7, <1>8, SetsLemma DEF BaseInv
  <1>10. /\ phase[c] = "ready" /\ nextID + 1 <= MaxID
         /\ nextID' = nextID + 2
         /\ phase' = [phase EXCEPT ![c] = "persist"]
         /\ UNCHANGED <<token, lastSessionID, ghosts>>
    BY Zenon DEF GenerateKeyPair
  <1>11. /\ left' = [left EXCEPT ![c] = TokenOnes(pub, priv)]
         /\ resp' = [resp EXCEPT ![c] = KeyPairResponse(i, pub, priv)]
    BY <1>6, Zenon DEF AddKeyPair
  <1>12. QED
    BY <1>3, <1>4, <1>5, <1>8, <1>9, <1>10, <1>11, Zenon DEF PairMade

\* Session i becomes y, with a new secret.
SecretMade(c, i, y, o) ==
  /\ sessions[c][i] # NoSession
  /\ o.id = nextID /\ o.half = "secret" /\ ~IsToken(o)
  /\ Sets(c, i, y)
  /\ y.slot = sessions[c][i].slot
  /\ y.objects = sessions[c][i].objects \o <<o>>
  /\ y.findMatches = sessions[c][i].findMatches
  /\ y.signObject = sessions[c][i].signObject
  /\ y.signMechanism = sessions[c][i].signMechanism
  /\ Answer(c, [RV("CKR_OK") EXCEPT !.sid = i, !.handles = <<nextID>>])
  /\ nextID' = nextID + 1
  /\ UNCHANGED <<token, lastSessionID, left, ghosts>>

\* A successful C_DeriveKey does this.
LEMMA DeriveEffect ==
  ASSUME BaseInv, NEW c \in Conns, DeriveKey(c)
  PROVE  \E i \in SessionIDs, y \in Session, o \in Object : SecretMade(c, i, y, o)
  <1> DEFINE F(i, base, tmpl) ==
               /\ sessions' = [sessions EXCEPT ![c][i].objects =
                                 Append(@, Derived(nextID, base.key, tmpl))]
               /\ Answer(c, [RV("CKR_OK") EXCEPT !.sid = i, !.handles = <<nextID>>])
  <1>1. PICK i \in Live(c), m \in DeriveMechs, tmpl \in DeriveTmpls, len \in Lengths :
          \E id \in Handles(sessions[c][i].objects) : F(i, object(sessions[c][i].objects, id), tmpl)
    BY Zenon DEF DeriveKey
  <1>2. PICK id \in Handles(sessions[c][i].objects) : F(i, object(sessions[c][i].objects, id), tmpl)
    BY <1>1, Zenon
  <1> DEFINE x == sessions[c][i]
             base == object(x.objects, id)
             o == Derived(nextID, base.key, tmpl)
             y == [x EXCEPT !.objects = Append(@, o)]
  <1>3. i \in SessionIDs /\ x # NoSession /\ x \in Session
    BY LiveLemma DEF BaseInv
  <1>4. x.objects \in Seq(Object) /\ Distinct(x.objects)
    BY <1>3 DEF Session, BaseInv, Lists, Assigned
  <1>5. base \in Object /\ base.key \in Nat
    BY <1>4, ObjectLemma DEF Object
  <1>6. nextID \in Nat
    BY DEF BaseInv, Types, TypeOK
  <1> HIDE DEF F
  <1>7. F(i, base, tmpl)
    BY <1>2
  <1> HIDE DEF base
  <1>8. o \in Object /\ o.id = nextID /\ o.half = "secret" /\ ~IsToken(o)
    BY <1>5, <1>6, DerivedLemma
  <1>9. sessions' = [sessions EXCEPT ![c][i] = y]
    BY <1>7 DEF F
  <1> HIDE DEF o
  <1>10. Append(x.objects, o) = x.objects \o <<o>> /\ Append(x.objects, o) \in Seq(Object)
    BY <1>4, <1>8, AppendIsConcat, AppendProperties
  <1>11. /\ y \in Session /\ y.slot = x.slot /\ y.objects = x.objects \o <<o>>
         /\ y.findMatches = x.findMatches
         /\ y.signObject = x.signObject /\ y.signMechanism = x.signMechanism
    BY <1>3, <1>10 DEF Session
  <1> HIDE DEF y
  <1>12. Sets(c, i, y)
    BY <1>3, <1>9, <1>11, SetsLemma DEF BaseInv
  <1>13. Answer(c, [RV("CKR_OK") EXCEPT !.sid = i, !.handles = <<nextID>>])
    BY <1>7 DEF F
  <1>14. nextID' = nextID + 1 /\ UNCHANGED <<token, lastSessionID, left, ghosts>>
    BY Zenon DEF DeriveKey
  <1>15. QED
    BY <1>3, <1>8, <1>11, <1>12, <1>13, <1>14, Zenon DEF SecretMade

\* Connection c moves on to phase p with response r.
Turn(c, p, r) ==
  /\ phase' \in [Conns -> {"closed", "ready", "persist", "reply"}]
  /\ DOMAIN resp' = Conns
  /\ phase'[c] = p /\ resp'[c] = r
  /\ \A d \in Conns \ {c} : phase'[d] = phase[d] /\ resp'[d] = resp[d]

\* A connection moves on by one assignment to its phase and one to its response.
LEMMA TurnLemma ==
  ASSUME Types, NEW c \in Conns, NEW p \in {"closed", "ready", "persist", "reply"}, NEW r,
         phase' = [phase EXCEPT ![c] = p], resp' = [resp EXCEPT ![c] = r]
  PROVE  Turn(c, p, r)
  BY DEF Types, TypeOK, Turn

\* A handler that returns a response.
LEMMA AnswerLemma ==
  ASSUME Types, NEW c \in Conns, NEW r, Answer(c, r)
  PROVE  phase[c] = "ready" /\ Turn(c, "reply", r)
  BY TurnLemma DEF Answer

\* What the client knows of the sessions ids of a connection is reset.
LEMMA ForgetLemma ==
  ASSUME Types, NEW c \in Conns, NEW ids \in SUBSET SessionIDs, Forget(c, ids)
  PROVE  /\ given' \in [Conns -> [SessionIDs -> SUBSET Nat]]
         /\ search' \in [Conns -> [SessionIDs -> SearchState]]
         /\ \A i \in ids : given'[c][i] = {} /\ search'[c][i] = NoSearch
         /\ \A d \in Conns, i \in SessionIDs : (d # c \/ i \notin ids) =>
              given'[d][i] = given[d][i] /\ search'[d][i] = search[d][i]
  <1>1. NoSearch \in SearchState
    BY DEF NoSearch, SearchState
  <1>2. /\ given' = [given EXCEPT ![c] = [i \in SessionIDs |-> IF i \in ids THEN {} ELSE given[c][i]]]
        /\ search' = [search EXCEPT ![c] =
              [i \in SessionIDs |-> IF i \in ids THEN NoSearch ELSE search[c][i]]]
    BY DEF Forget
  <1>3. /\ given \in [Conns -> [SessionIDs -> SUBSET Nat]]
        /\ search \in [Conns -> [SessionIDs -> SearchState]]
    BY DEF Types
  <1>4. /\ given' \in [Conns -> [SessionIDs -> SUBSET Nat]]
        /\ \A i \in ids : given'[c][i] = {}
        /\ \A d \in Conns, i \in SessionIDs : (d # c \/ i \notin ids) => given'[d][i] = given[d][i]
    BY <1>2, <1>3
  <1>5. /\ search' \in [Conns -> [SessionIDs -> SearchState]]
        /\ \A i \in ids : search'[c][i] = NoSearch
        /\ \A d \in Conns, i \in SessionIDs : (d # c \/ i \notin ids) => search'[d][i] = search[d][i]
    BY <1>1, <1>2, <1>3
  <1>6. QED
    BY <1>4, <1>5

\* Handle returns: the sessions of the connection and all the client knew of
\* them are gone, and nothing is left to persist.
LEMMA EndsEffect ==
  ASSUME BaseInv, NEW c \in Conns, Ends(c)
  PROVE  /\ left[c] = << >>
         /\ Turn(c, "closed", RV("none"))
         /\ lastSessionID' \in [Conns -> SessionIDs]
         /\ sessions' \in [Conns -> [SessionIDs -> Session \cup {NoSession}]]
         /\ \A i \in SessionIDs : sessions'[c][i] = NoSession
         /\ \A d \in Conns \ {c}, i \in SessionIDs : sessions'[d][i] = sessions[d][i]
         /\ given' \in [Conns -> [SessionIDs -> SUBSET Nat]]
         /\ search' \in [Conns -> [SessionIDs -> SearchState]]
         /\ \A i \in SessionIDs : given'[c][i] = {} /\ search'[c][i] = NoSearch
         /\ \A d \in Conns \ {c}, i \in SessionIDs :
              given'[d][i] = given[d][i] /\ search'[d][i] = search[d][i]
         /\ UNCHANGED <<token, left, nextID, acked>>
  <1>1. Types /\ Phases
    BY DEF BaseInv
  <1>2. /\ lastSessionID' = [lastSessionID EXCEPT ![c] = 0]
        /\ sessions' = [sessions EXCEPT ![c] = NoSessions]
        /\ UNCHANGED <<token, left, nextID, acked>>
        /\ Forget(c, SessionIDs)
    BY DEF Ends, Close
  <1>3. left[c] = << >>
    BY <1>1 DEF Ends, Phases
  <1>4. Turn(c, "closed", RV("none"))
    BY <1>1, TurnLemma DEF Ends, Close
  <1>5. /\ lastSessionID' \in [Conns -> SessionIDs]
        /\ sessions' \in [Conns -> [SessionIDs -> Session \cup {NoSession}]]
        /\ \A i \in SessionIDs : sessions'[c][i] = NoSession
        /\ \A d \in Conns \ {c}, i \in SessionIDs : sessions'[d][i] = sessions[d][i]
    BY <1>1, <1>2, ServerAssumption DEF Types, TypeOK, NoSessions, SessionIDs
  <1>6. /\ given' \in [Conns -> [SessionIDs -> SUBSET Nat]]
        /\ search' \in [Conns -> [SessionIDs -> SearchState]]
        /\ \A i \in SessionIDs : given'[c][i] = {} /\ search'[c][i] = NoSearch
        /\ \A d \in Conns \ {c}, i \in SessionIDs :
             given'[d][i] = given[d][i] /\ search'[d][i] = search[d][i]
    BY <1>1, <1>2, ForgetLemma
  <1>7. QED
    BY <1>2, <1>3, <1>4, <1>5, <1>6

\* A connection starts without sessions, and had none before.
LEMMA ConnectEffect ==
  ASSUME BaseInv, NEW c \in Conns, Connect(c)
  PROVE  /\ phase[c] = "closed"
         /\ Turn(c, "ready", resp[c])
         /\ lastSessionID' \in [Conns -> SessionIDs]
         /\ sessions' \in [Conns -> [SessionIDs -> Session \cup {NoSession}]]
         /\ \A d \in Conns, i \in SessionIDs : sessions'[d][i] = sessions[d][i]
         /\ UNCHANGED <<token, left, resp, nextID, acked, given, search>>
  <1>1. Types /\ Phases
    BY DEF BaseInv
  <1>2. /\ phase[c] = "closed"
        /\ lastSessionID' = [lastSessionID EXCEPT ![c] = 0]
        /\ sessions' = [sessions EXCEPT ![c] = NoSessions]
        /\ UNCHANGED <<token, left, resp, nextID, acked, given, search>>
    BY DEF Connect, ghosts
  <1>3. Turn(c, "ready", resp[c])
    BY <1>1 DEF Connect, Turn, Types, TypeOK
  <1>4. /\ lastSessionID' \in [Conns -> SessionIDs]
        /\ sessions' \in [Conns -> [SessionIDs -> Session \cup {NoSession}]]
    BY <1>1, <1>2, ServerAssumption DEF Types, TypeOK, NoSessions, SessionIDs
  <1>5. \A d \in Conns, i \in SessionIDs : sessions'[d][i] = sessions[d][i]
    BY <1>1, <1>2 DEF Types, TypeOK, Phases, NoSessions
  <1>6. QED
    BY <1>2, <1>3, <1>4, <1>5

\* Session i ends, and what the client knew of it is void.
SessionClosed(c, i) ==
  /\ sessions[c][i] # NoSession
  /\ Sets(c, i, NoSession)
  /\ given' \in [Conns -> [SessionIDs -> SUBSET Nat]]
  /\ search' \in [Conns -> [SessionIDs -> SearchState]]
  /\ given'[c][i] = {} /\ search'[c][i] = NoSearch
  /\ \A d \in Conns, j \in SessionIDs : (d # c \/ j # i) =>
       given'[d][j] = given[d][j] /\ search'[d][j] = search[d][j]
  /\ Answer(c, RV("CKR_OK"))
  /\ UNCHANGED <<token, lastSessionID, left, nextID, acked>>

\* A successful C_CloseSession does this.
LEMMA CloseSessionEffect ==
  ASSUME BaseInv, NEW c \in Conns, CloseSession(c)
  PROVE  \E i \in SessionIDs : SessionClosed(c, i)
  <1>1. PICK i \in Live(c) : /\ sessions' = [sessions EXCEPT ![c][i] = NoSession]
                             /\ Forget(c, {i})
    BY DEF CloseSession
  <1>2. Types /\ i \in SessionIDs /\ sessions[c][i] # NoSession
    BY LiveLemma DEF BaseInv
  <1>3. Sets(c, i, NoSession)
    BY <1>1, <1>2, SetsLemma
  <1>4. /\ given' \in [Conns -> [SessionIDs -> SUBSET Nat]]
        /\ search' \in [Conns -> [SessionIDs -> SearchState]]
        /\ given'[c][i] = {} /\ search'[c][i] = NoSearch
        /\ \A d \in Conns, j \in SessionIDs : (d # c \/ j # i) =>
             given'[d][j] = given[d][j] /\ search'[d][j] = search[d][j]
    BY <1>1, <1>2, ForgetLemma
  <1>5. Answer(c, RV("CKR_OK")) /\ UNCHANGED <<token, lastSessionID, left, nextID, acked>>
    BY DEF CloseSession
  <1>6. QED
    BY <1>2, <1>3, <1>4, <1>5 DEF SessionClosed

\* The client learns the handles of a response and that its promises are kept.
LEMMA DeliverEffect ==
  ASSUME BaseInv, NEW c \in Conns, Deliver(c)
  PROVE  /\ phase[c] = "reply" /\ Turn(c, "ready", RV("none"))
         /\ given' \in [Conns -> [SessionIDs -> SUBSET Nat]]
         /\ given'[c][resp[c].sid] =
              given[c][resp[c].sid] \cup {resp[c].handles[k] : k \in DOMAIN resp[c].handles}
         /\ \A d \in Conns, i \in SessionIDs : (d # c \/ i # resp[c].sid) =>
              given'[d][i] = given[d][i]
         /\ acked' \in [Slots -> SUBSET Nat]
         /\ \A s \in Slots : \A id \in acked'[s] :
              \/ id \in acked[s]
              \/ /\ s = sessions[c][resp[c].sid].slot
                 /\ \E k \in DOMAIN resp[c].promised : id = resp[c].promised[k].id
         /\ UNCHANGED <<token, lastSessionID, sessions, left, nextID, search>>
  <1> DEFINE r == resp[c]
             got == {r.handles[k] : k \in DOMAIN r.handles}
             new == {r.promised[k].id : k \in DOMAIN r.promised}
             s0 == sessions[c][r.sid].slot
  <1>1. Types
    BY DEF BaseInv
  <1>2. /\ phase[c] = "reply"
        /\ phase' = [phase EXCEPT ![c] = "ready"]
        /\ resp' = [resp EXCEPT ![c] = RV("none")]
        /\ given' = [given EXCEPT ![c][r.sid] = given[c][r.sid] \cup got]
        /\ UNCHANGED <<token, lastSessionID, sessions, left, nextID, search>>
    BY DEF Deliver
  <1>3. acked' = acked \/ acked' = [acked EXCEPT ![s0] = acked[s0] \cup new]
    BY DEF Deliver
  <1>4. Turn(c, "ready", RV("none"))
    BY <1>1, <1>2, TurnLemma
  <1>5. r.sid \in SessionIDs /\ r.handles \in Seq(Nat) /\ r.promised \in Seq(Object)
    BY <1>1 DEF Types, Response
  <1>6. got \subseteq Nat
    BY <1>5
  <1>7. new \subseteq Nat
    <2>1. \A k \in DOMAIN r.promised : r.promised[k] \in Object
      BY <1>5
    <2>2. QED
      BY <2>1 DEF Object
  <1> HIDE DEF got
  <1>8. /\ given' \in [Conns -> [SessionIDs -> SUBSET Nat]]
        /\ given'[c][r.sid] = given[c][r.sid] \cup got
        /\ \A d \in Conns, i \in SessionIDs : (d # c \/ i # r.sid) => given'[d][i] = given[d][i]
    <2> HIDE DEF r
    <2>1. QED
      BY <1>1, <1>2, <1>5, <1>6 DEF Types
  <1>9. /\ acked' \in [Slots -> SUBSET Nat]
        /\ \A s \in Slots : \A id \in acked'[s] : id \in acked[s] \/ (s = s0 /\ id \in new)
    <2> HIDE DEF new, s0
    <2>1. acked \in [Slots -> SUBSET Nat]
      BY <1>1 DEF Types
    <2>2. QED
      BY <1>3, <1>7, <2>1
  <1>10. QED
    BY <1>2, <1>4, <1>8, <1>9 DEF got

\* persistObject: the first of the objects that are left goes to the end of the
\* token, and there is one less to go.
ObjectPersisted(c, s, o) ==
  /\ phase[c] = "persist" /\ sessions[c][resp[c].sid] # NoSession
  /\ s = sessions[c][resp[c].sid].slot
  /\ Tail(left[c]) \in Seq(Object) /\ left[c] = <<o>> \o Tail(left[c])
  /\ token' \in [Slots -> Seq(Object)]
  /\ token'[s] = token[s] \o <<o>>
  /\ \A u \in Slots \ {s} : token'[u] = token[u]
  /\ left' \in [Conns -> Seq(Object)]
  /\ left'[c] = Tail(left[c])
  /\ \A d \in Conns \ {c} : left'[d] = left[d]
  /\ UNCHANGED <<phase, lastSessionID, sessions, resp, nextID, acked, given, search>>

\* A step of the loop that persists does this.
LEMMA PersistEffect ==
  ASSUME BaseInv, NEW c \in Conns, Persist(c)
  PROVE  \E s \in Slots, o \in Object : ObjectPersisted(c, s, o)
  <1> DEFINE x == sessions[c][resp[c].sid]
             s == x.slot
             o == Head(left[c])
  <1>1. Types /\ Phases
    BY DEF BaseInv
  <1>2. phase[c] = "persist" /\ x # NoSession /\ x \in Session
    BY <1>1 DEF Persist, Phases, Types, TypeOK, Response
  <1>3. s \in Slots
    BY <1>2 DEF Session
  <1>4. /\ left[c] # << >>
        /\ token' = [token EXCEPT ![s] = Append(token[s], o)]
        /\ left' = [left EXCEPT ![c] = Tail(left[c])]
        /\ UNCHANGED <<phase, lastSessionID, sessions, resp, nextID, acked, given, search>>
    BY DEF Persist, ghosts
  <1>5. left[c] \in Seq(Object) /\ token[s] \in Seq(Object)
    BY <1>1, <1>3 DEF Types, TypeOK
  <1>6. o \in Object /\ Tail(left[c]) \in Seq(Object) /\ left[c] = <<o>> \o Tail(left[c])
    BY <1>4, <1>5, HeadTailProperties
  <1> HIDE DEF o, s, x
  <1>7. Append(token[s], o) = token[s] \o <<o>> /\ Append(token[s], o) \in Seq(Object)
    BY <1>5, <1>6, AppendIsConcat, AppendProperties
  <1>8. /\ token' \in [Slots -> Seq(Object)] /\ token'[s] = token[s] \o <<o>>
        /\ \A u \in Slots \ {s} : token'[u] = token[u]
    BY <1>1, <1>3, <1>4, <1>7 DEF Types, TypeOK
  <1>9. /\ left' \in [Conns -> Seq(Object)] /\ left'[c] = Tail(left[c])
        /\ \A d \in Conns \ {c} : left'[d] = left[d]
    BY <1>1, <1>4, <1>6 DEF Types, TypeOK
  <1>10. QED
    BY <1>2, <1>3, <1>4, <1>6, <1>8, <1>9 DEF x, s, ObjectPersisted

-----------------------------------------------------------------------------
\* The types and phases are invariant.

\* No connection but c is affected.
Frame(c) ==
  \A d \in Conns \ {c} :
    /\ phase'[d] = phase[d] /\ resp'[d] = resp[d] /\ left'[d] = left[d]
    /\ \A i \in SessionIDs : /\ sessions'[d][i] = sessions[d][i]
                            /\ given'[d][i] = given[d][i] /\ search'[d][i] = search[d][i]

\* What Phases says of one connection.
PhaseOK(c) ==
  /\ phase[c] = "closed" => \A i \in SessionIDs : sessions[c][i] = NoSession
  /\ phase[c] \in {"closed", "ready"} => resp[c].handles = << >> /\ resp[c].promised = << >>
  /\ phase[c] = "persist" => sessions[c][resp[c].sid] # NoSession
  /\ phase[c] # "persist" => left[c] = << >>

\* It suffices to look at the connection that takes the step.
LEMMA PhasesFrame ==
  ASSUME Types, Phases, NEW c \in Conns, Frame(c), PhaseOK(c)'
  PROVE  Phases'
  <1>1. ASSUME NEW d \in Conns \ {c} PROVE PhaseOK(d)'
    <2>1. /\ phase'[d] = phase[d] /\ resp'[d] = resp[d] /\ left'[d] = left[d]
          /\ \A i \in SessionIDs : sessions'[d][i] = sessions[d][i]
      BY DEF Frame
    <2>2. PhaseOK(d) /\ resp[d].sid \in SessionIDs
      BY DEF Phases, PhaseOK, Types, Response
    <2>3. QED
      BY <2>1, <2>2 DEF PhaseOK
  <1>2. QED
    BY <1>1 DEF Phases, PhaseOK

\* A step of a handler that leaves the tokens, the handles and what is left to
\* persist alone, and answers.
Answers(c, r) ==
  /\ Response(r) /\ Answer(c, r)
  /\ UNCHANGED <<token, left, nextID, acked>>

\* Such a step preserves the types and the phases.
LEMMA AnswersTypes ==
  ASSUME BaseInv, NEW c \in Conns, NEW r, Answers(c, r),
         sessions' \in [Conns -> [SessionIDs -> Session \cup {NoSession}]],
         \A d \in Conns \ {c}, i \in SessionIDs :
           /\ sessions'[d][i] = sessions[d][i]
           /\ given'[d][i] = given[d][i] /\ search'[d][i] = search[d][i],
         lastSessionID' \in [Conns -> SessionIDs],
         given' \in [Conns -> [SessionIDs -> SUBSET Nat]],
         search' \in [Conns -> [SessionIDs -> SearchState]]
  PROVE  Types' /\ Phases' /\ Frame(c)
  <1>1. Types /\ Phases
    BY DEF BaseInv
  <1>2. phase[c] = "ready" /\ Turn(c, "reply", r)
    BY <1>1, AnswerLemma DEF Answers
  <1>3. Types'
    BY <1>1, <1>2 DEF Types, TypeOK, Turn, Answers
  <1>4. Frame(c)
    BY <1>2 DEF Turn, Frame, Answers
  <1>5. PhaseOK(c)'
    BY <1>1, <1>2 DEF Turn, PhaseOK, Phases, Answers
  <1>6. QED
    BY <1>1, <1>3, <1>4, <1>5, PhasesFrame

\* Every step preserves the types and the phases, and concerns one connection.
LEMMA TypesStep ==
  ASSUME BaseInv, NEW c \in Conns, Step(c)
  PROVE  Types' /\ Phases' /\ Frame(c)
  <1>2. Types /\ Phases
    BY DEF BaseInv
  <1>3. Response(RV("CKR_OK")) /\ Response(RV("none"))
    <2>1. << >> \in Seq(Nat) /\ << >> \in Seq(Object)
      OBVIOUS
    <2>2. QED
      BY <2>1, RVLemma, Zenon DEF Response
  <1>4. CASE Quiet(c)
    <2>1. PICK r : r.sid \in SessionIDs /\ r.handles = << >> /\ r.promised = << >> /\ Reply(c, r)
      BY <1>4 DEF Quiet
    <2>2. Answers(c, r) /\ UNCHANGED <<lastSessionID, sessions, given, search>>
      BY <2>1 DEF Reply, Answers, Response, ghosts
    <2>3. QED
      BY <1>2, <2>2, AnswersTypes DEF Types, TypeOK
  <1>5. CASE Ends(c)
    <2>1. /\ left[c] = << >> /\ Turn(c, "closed", RV("none"))
          /\ \A i \in SessionIDs : sessions'[c][i] = NoSession
          /\ \A d \in Conns \ {c}, i \in SessionIDs :
               /\ sessions'[d][i] = sessions[d][i]
               /\ given'[d][i] = given[d][i] /\ search'[d][i] = search[d][i]
          /\ UNCHANGED <<token, left, nextID, acked>>
      BY <1>5, EndsEffect
    <2>2. Types'
      BY <1>2, <1>3, <1>5, <2>1, EndsEffect DEF Types, TypeOK, Turn
    <2>3. Frame(c) /\ PhaseOK(c)'
      BY <1>2, <2>1, RVLemma DEF Frame, PhaseOK, Turn
    <2>4. QED
      BY <1>2, <2>2, <2>3, PhasesFrame
  <1>6. CASE Connect(c)
    <2>1. /\ phase[c] = "closed" /\ Turn(c, "ready", resp[c])
          /\ \A d \in Conns, i \in SessionIDs : sessions'[d][i] = sessions[d][i]
          /\ UNCHANGED <<token, left, resp, nextID, acked, given, search>>
      BY <1>6, ConnectEffect
    <2>2. Types'
      BY <1>2, <1>6, <2>1, ConnectEffect DEF Types, TypeOK, Turn
    <2>3. Frame(c) /\ PhaseOK(c)'
      BY <1>2, <2>1 DEF Frame, PhaseOK, Turn, Phases
    <2>4. QED
      BY <1>2, <2>2, <2>3, PhasesFrame
  <1>7. CASE OpenSession(c)
    <2>0. PICK s \in Slots, i \in SessionIDs : \E objs \in Snapshots(s) :
            SessionOpened(c, s, i, objs)
      BY <1>7, OpenSessionEffect
    <2>1. /\ \E objs \in Snapshots(s) : Sets(c, i, NewSession(s, objs))
          /\ lastSessionID' = [lastSessionID EXCEPT ![c] = i]
          /\ Answer(c, [RV("CKR_OK") EXCEPT !.sid = i])
          /\ UNCHANGED <<token, left, nextID, ghosts>>
      BY <2>0 DEF SessionOpened
    <2> DEFINE r == [RV("CKR_OK") EXCEPT !.sid = i]
    <2>2. Response(r)
      BY DEF RV, Response
    <2>3. Answers(c, r) /\ UNCHANGED <<given, search>>
      BY <2>1, <2>2 DEF Answers, ghosts
    <2>4. lastSessionID' \in [Conns -> SessionIDs]
      BY <1>2, <2>1 DEF Types, TypeOK
    <2> HIDE DEF r
    <2>5. QED
      BY <1>2, <2>1, <2>3, <2>4, AnswersTypes DEF Types, Sets
  <1>8. CASE CloseSession(c)
    <2>0. PICK i \in SessionIDs : SessionClosed(c, i)
      BY <1>8, CloseSessionEffect
    <2>1. /\ Sets(c, i, NoSession)
          /\ given' \in [Conns -> [SessionIDs -> SUBSET Nat]]
          /\ search' \in [Conns -> [SessionIDs -> SearchState]]
          /\ \A d \in Conns \ {c}, j \in SessionIDs :
               given'[d][j] = given[d][j] /\ search'[d][j] = search[d][j]
          /\ Answer(c, RV("CKR_OK"))
          /\ UNCHANGED <<token, lastSessionID, left, nextID, acked>>
      BY <2>0 DEF SessionClosed
    <2>2. Answers(c, RV("CKR_OK"))
      BY <1>3, <2>1 DEF Answers
    <2>3. QED
      BY <1>2, <2>1, <2>2, AnswersTypes DEF Types, TypeOK, Sets
  <1>9. CASE FindObjectsInit(c)
    <2>0. PICK i \in SessionIDs, y \in Session, z \in SearchState, ids \in Seq(Nat) :
            SearchStarted(c, i, y, z, ids)
      BY <1>9, FindObjectsInitEffect
    <2>1. /\ Sets(c, i, y) /\ Searches(c, i, z)
          /\ Answer(c, RV("CKR_OK"))
          /\ UNCHANGED <<token, lastSessionID, left, nextID, acked, given>>
      BY <2>0 DEF SearchStarted
    <2>2. Answers(c, RV("CKR_OK"))
      BY <1>3, <2>1 DEF Answers
    <2>3. QED
      BY <1>2, <2>1, <2>2, AnswersTypes DEF Types, TypeOK, Sets, Searches
  <1>10. CASE FindObjects(c)
    <2>0. PICK i \in SessionIDs, y \in Session, z \in SearchState, batch \in Seq(Nat) :
            SearchServed(c, i, y, z, batch)
      BY <1>10, FindObjectsEffect
    <2>1. /\ Sets(c, i, y) /\ Searches(c, i, z)
          /\ Answer(c, [RV("CKR_OK") EXCEPT !.sid = i, !.handles = batch, !.call = "FindObjects"])
          /\ UNCHANGED <<token, lastSessionID, left, nextID, acked, given>>
      BY <2>0 DEF SearchServed
    <2> DEFINE r == [RV("CKR_OK") EXCEPT !.sid = i, !.handles = batch, !.call = "FindObjects"]
    <2>2. Response(r)
      BY DEF RV, Response
    <2>3. Answers(c, r)
      BY <2>1, <2>2 DEF Answers
    <2> HIDE DEF r
    <2>4. QED
      BY <1>2, <2>1, <2>3, AnswersTypes DEF Types, TypeOK, Sets, Searches
  <1>11. CASE FindObjectsFinal(c)
    <2>1. PICK i \in SessionIDs, z \in SearchState :
            /\ Searches(c, i, z)
            /\ Answer(c, RV("CKR_OK"))
            /\ UNCHANGED <<token, lastSessionID, sessions, left, nextID, acked, given>>
      BY <1>11, FindObjectsFinalEffect
    <2>2. Answers(c, RV("CKR_OK"))
      BY <1>3, <2>1 DEF Answers
    <2>3. QED
      BY <1>2, <2>1, <2>2, AnswersTypes DEF Types, TypeOK, Searches
  <1>12. CASE SignInit(c) \/ SignUpdate(c)
    <2>1. PICK i \in SessionIDs, y \in Session :
            /\ Sets(c, i, y)
            /\ Answer(c, RV("CKR_OK"))
            /\ UNCHANGED <<token, lastSessionID, left, nextID, acked, given, search>>
      BY <1>12, SignInitEffect, SignUpdateEffect DEF SignerSet, DataFed
    <2>2. Answers(c, RV("CKR_OK"))
      BY <1>3, <2>1 DEF Answers
    <2>3. QED
      BY <1>2, <2>1, <2>2, AnswersTypes DEF Types, TypeOK, Sets
  <1>13. CASE GenerateKeyPair(c)
    <2>0. PICK i \in SessionIDs, y \in Session, pub \in Object, priv \in Object :
            PairMade(c, i, y, pub, priv)
      BY <1>13, GenerateEffect
    <2>1. /\ pub.id = nextID /\ priv.id = nextID + 1
          /\ Sets(c, i, y)
          /\ left' = [left EXCEPT ![c] = TokenOnes(pub, priv)]
          /\ resp' = [resp EXCEPT ![c] = KeyPairResponse(i, pub, priv)]
          /\ nextID' = nextID + 2
          /\ phase' = [phase EXCEPT ![c] = "persist"]
          /\ UNCHANGED <<token, lastSessionID, ghosts>>
      BY <2>0 DEF PairMade
    <2> DEFINE r == KeyPairResponse(i, pub, priv)
               t == TokenOnes(pub, priv)
    <2>2. t \in Seq(Object)
      BY TokenOnesLemma, ShortLists
    <2>3. nextID \in Nat /\ FirstID \in Nat /\ FirstID <= nextID
      BY <1>2, ServerAssumption DEF Types, TypeOK
    <2>4. <<pub.id, priv.id>> \in Seq(Nat)
      BY <2>1, <2>3
    <2> HIDE DEF t
    <2>5. Response(r) /\ r.sid = i
      BY <2>2, <2>4 DEF KeyPairResponse, RV, Response, t
    <2> HIDE DEF r
    <2>6. Turn(c, "persist", r)
      BY <1>2, <2>1, TurnLemma DEF r
    <2>7. left' \in [Conns -> Seq(Object)] /\ \A d \in Conns \ {c} : left'[d] = left[d]
      BY <1>2, <2>1, <2>2 DEF Types, TypeOK, t
    <2>8. nextID' \in Nat /\ FirstID <= nextID'
      BY <2>1, <2>3
    <2>9. Types'
      BY <1>2, <2>1, <2>5, <2>6, <2>7, <2>8 DEF Types, TypeOK, Sets, Turn, ghosts
    <2>10. Frame(c) /\ PhaseOK(c)'
      <3>1. y # NoSession
        BY ServerAssumption
      <3>2. QED
        BY <2>1, <2>5, <2>6, <2>7, <3>1 DEF Frame, PhaseOK, Turn, Sets, ghosts
    <2>11. QED
      BY <1>2, <2>9, <2>10, PhasesFrame
  <1>14. CASE DeriveKey(c)
    <2>0. PICK i \in SessionIDs, y \in Session, o \in Object : SecretMade(c, i, y, o)
      BY <1>14, DeriveEffect
    <2>1. /\ Sets(c, i, y)
          /\ Answer(c, [RV("CKR_OK") EXCEPT !.sid = i, !.handles = <<nextID>>])
          /\ nextID' = nextID + 1
          /\ UNCHANGED <<token, lastSessionID, left, ghosts>>
      BY <2>0 DEF SecretMade
    <2> DEFINE r == [RV("CKR_OK") EXCEPT !.sid = i, !.handles = <<nextID>>]
    <2>2. nextID \in Nat /\ FirstID \in Nat /\ FirstID <= nextID
      BY <1>2, ServerAssumption DEF Types, TypeOK
    <2>3. Response(r)
      BY <2>2 DEF RV, Response
    <2> HIDE DEF r
    <2>4. phase[c] = "ready" /\ Turn(c, "reply", r)
      BY <1>2, <2>1, AnswerLemma DEF r
    <2>5. nextID' \in Nat /\ FirstID <= nextID'
      BY <2>1, <2>2
    <2>6. Types'
      BY <1>2, <2>1, <2>3, <2>4, <2>5 DEF Types, TypeOK, Sets, Turn, ghosts
    <2>7. Frame(c) /\ PhaseOK(c)'
      BY <1>2, <2>1, <2>4 DEF Frame, PhaseOK, Turn, Sets, Phases, ghosts
    <2>8. QED
      BY <1>2, <2>6, <2>7, PhasesFrame
  <1>15. CASE Persist(c)
    <2>1. /\ phase[c] = "persist" /\ sessions[c][resp[c].sid] # NoSession
          /\ token' \in [Slots -> Seq(Object)]
          /\ left' \in [Conns -> Seq(Object)]
          /\ \A d \in Conns \ {c} : left'[d] = left[d]
          /\ UNCHANGED <<phase, lastSessionID, sessions, resp, nextID, acked, given, search>>
      BY <1>15, PersistEffect DEF ObjectPersisted
    <2>2. Types'
      BY <1>2, <2>1 DEF Types, TypeOK
    <2>3. Frame(c) /\ PhaseOK(c)'
      BY <1>2, <2>1 DEF Frame, PhaseOK
    <2>4. QED
      BY <1>2, <2>2, <2>3, PhasesFrame
  <1>16. CASE Persisted(c)
    <2>1. /\ left[c] = << >> /\ phase' = [phase EXCEPT ![c] = "reply"]
          /\ UNCHANGED <<token, lastSessionID, sessions, left, resp, nextID, acked, given, search>>
      BY <1>16 DEF Persisted, ghosts
    <2>2. phase' \in [Conns -> {"closed", "ready", "persist", "reply"}] /\ phase'[c] = "reply"
          /\ \A d \in Conns \ {c} : phase'[d] = phase[d]
      BY <1>2, <2>1 DEF Types, TypeOK
    <2>3. Types'
      BY <1>2, <2>1, <2>2 DEF Types, TypeOK
    <2>4. Frame(c) /\ PhaseOK(c)'
      BY <2>1, <2>2 DEF Frame, PhaseOK
    <2>5. QED
      BY <1>2, <2>3, <2>4, PhasesFrame
  <1>17. CASE Deliver(c)
    <2>1. /\ phase[c] = "reply" /\ Turn(c, "ready", RV("none"))
          /\ given' \in [Conns -> [SessionIDs -> SUBSET Nat]]
          /\ \A d \in Conns \ {c}, i \in SessionIDs : given'[d][i] = given[d][i]
          /\ acked' \in [Slots -> SUBSET Nat]
          /\ UNCHANGED <<token, lastSessionID, sessions, left, nextID, search>>
      BY <1>17, DeliverEffect
    <2>2. Types'
      BY <1>2, <1>3, <2>1 DEF Types, TypeOK, Turn
    <2>3. Frame(c) /\ PhaseOK(c)'
      BY <1>2, <2>1, RVLemma DEF Frame, PhaseOK, Turn, Phases
    <2>4. QED
      BY <1>2, <2>2, <2>3, PhasesFrame
  <1>18. QED
    BY <1>4, <1>5, <1>6, <1>7, <1>8, <1>9, <1>10, <1>11, <1>12, <1>13, <1>14, <1>15,
       <1>16, <1>17 DEF Step

-----------------------------------------------------------------------------
\* What a step does to the lists of objects.

\* Session i of connection c stays as it is, as far as its objects go, or ends.
KeepsOrEnds(c, i) ==
  sessions'[c][i] # NoSession =>
    /\ sessions[c][i] # NoSession
    /\ sessions'[c][i].slot = sessions[c][i].slot
    /\ sessions'[c][i].objects = sessions[c][i].objects

\* No list changes; sessions may end.
Keeps == /\ \A c \in Conns, i \in SessionIDs : KeepsOrEnds(c, i)
         /\ UNCHANGED <<token, left, nextID>>

\* Handles and keys of an object: a generated public key has the handle that
\* its key is numbered by, the private key has the next one, and the keys of
\* configured objects are none of these.
Shape(o) ==
  IF o.id < FirstID THEN o.key \notin FirstID .. MaxID
  ELSE /\ o.half = "pub" => o.key = o.id
       /\ o.half = "priv" => o.key \in FirstID .. MaxID /\ o.id = o.key + 1

\* Session i gets new objects, of which those with CKA_TOKEN are going to be
\* persisted, a public key first.
Grows(c, i, new) ==
  /\ sessions[c][i] # NoSession /\ sessions'[c][i] # NoSession
  /\ sessions'[c][i].slot = sessions[c][i].slot
  /\ sessions'[c][i].objects = sessions[c][i].objects \o new
  /\ \A d \in Conns, j \in SessionIDs : (d # c \/ j # i) => sessions'[d][j] = sessions[d][j]
  /\ nextID <= nextID'
  /\ Distinct(new) /\ \A o \in Range(new) : o.id \in nextID .. nextID' - 1
  /\ token' = token
  /\ left[c] = << >>
  /\ Distinct(left'[c]) /\ Range(left'[c]) = {o \in Range(new) : IsToken(o)}
  /\ \A d \in Conns \ {c} : left'[d] = left[d]
  /\ \A o \in Range(new) : Shape(o) /\ (o.half \in {"pub", "priv"} => o.key = nextID)
  /\ \A o \in Range(left'[c]) : o.half = "pub" => left'[c][1] = o

\* C_GenerateKeyPair and C_DeriveKey are the steps that make objects.
LEMMA GrowsLemma ==
  ASSUME BaseInv, NEW c \in Conns, GenerateKeyPair(c) \/ DeriveKey(c)
  PROVE  \E i \in SessionIDs, new \in Seq(Object) : Grows(c, i, new)
  <1>1. Types /\ Phases /\ nextID \in Nat /\ FirstID \in Nat /\ MaxID \in Nat /\ FirstID <= nextID
    BY ServerAssumption DEF BaseInv, Types, TypeOK
  <1>2. \A y \in Session : y # NoSession
    BY ServerAssumption
  <1>3. CASE GenerateKeyPair(c)
    <2>1. PICK i \in SessionIDs, y \in Session, pub \in Object, priv \in Object :
            PairMade(c, i, y, pub, priv)
      BY <1>3, GenerateEffect
    <2> DEFINE new == <<pub, priv>>
               t == TokenOnes(pub, priv)
    <2>2. /\ phase[c] = "ready" /\ sessions[c][i] # NoSession
          /\ pub.id = nextID /\ pub.key = nextID /\ pub.half = "pub"
          /\ priv.id = nextID + 1 /\ priv.key = nextID /\ priv.half = "priv"
          /\ nextID + 1 <= MaxID
          /\ Sets(c, i, y) /\ y.slot = sessions[c][i].slot
          /\ y.objects = sessions[c][i].objects \o new
          /\ left' = [left EXCEPT ![c] = t]
          /\ nextID' = nextID + 2 /\ token' = token
      BY <2>1 DEF PairMade
    <2>3. new \in Seq(Object) /\ Range(new) = {pub, priv} /\ Distinct(new)
      <3>1. pub.id # priv.id
        BY <1>1, <2>2
      <3>2. QED
        BY <3>1, ShortLists
    <2>4. Distinct(t) /\ Range(t) = {o \in {pub, priv} : IsToken(o)}
      <3>1. pub.id # priv.id
        BY <1>1, <2>2
      <3>2. CASE t = << >> /\ ~IsToken(pub) /\ ~IsToken(priv)
        BY <3>2, ShortLists
      <3>3. CASE t = <<pub>> /\ IsToken(pub) /\ ~IsToken(priv)
        <4>1. {o \in {pub, priv} : IsToken(o)} = {pub}
          BY <3>3
        <4>2. Distinct(t) /\ Range(t) = {pub}
          BY <3>1, <3>3, ShortLists
        <4>3. QED
          BY <4>1, <4>2
      <3>4. CASE t = <<priv>> /\ ~IsToken(pub) /\ IsToken(priv)
        <4>1. {o \in {pub, priv} : IsToken(o)} = {priv}
          BY <3>4
        <4>2. Distinct(t) /\ Range(t) = {priv}
          BY <3>1, <3>4, ShortLists
        <4>3. QED
          BY <4>1, <4>2
      <3>5. CASE t = <<pub, priv>> /\ IsToken(pub) /\ IsToken(priv)
        <4>1. {o \in {pub, priv} : IsToken(o)} = {pub, priv}
          BY <3>5
        <4>2. Distinct(<<pub, priv>>) /\ Range(<<pub, priv>>) = {pub, priv}
          BY <3>1, ShortLists
        <4>3. QED
          BY <3>5, <4>1, <4>2
      <3>6. QED
        BY <3>2, <3>3, <3>4, <3>5, TokenOnesLemma
    <2>5. \A o \in Range(t) : o.half = "pub" => t[1] = o
      <3>1. CASE t = << >>
        BY <3>1 DEF Range
      <3>2. CASE t = <<pub>> \/ t = <<priv>>
        BY <3>2 DEF Range
      <3>3. CASE t = <<pub, priv>>
        <4>1. Range(<<pub, priv>>) = {pub, priv} /\ <<pub, priv>>[1] = pub
          BY ShortLists
        <4>2. QED
          BY <2>2, <3>3, <4>1
      <3>4. QED
        BY <3>1, <3>2, <3>3, TokenOnesLemma
    <2>6. \A o \in Range(new) : Shape(o) /\ o.key = nextID
      <3>1. nextID \in FirstID .. MaxID /\ ~(nextID < FirstID) /\ ~(nextID + 1 < FirstID)
        BY <1>1, <2>2
      <3>2. Shape(pub)
        BY <2>2, <3>1 DEF Shape
      <3>3. Shape(priv)
        BY <2>2, <3>1 DEF Shape
      <3>4. QED
        BY <2>2, <2>3, <3>2, <3>3
    <2> HIDE DEF new, t
    <2>7. left'[c] = t /\ \A d \in Conns \ {c} : left'[d] = left[d]
      BY <1>1, <2>2 DEF Types, TypeOK
    <2>8. left[c] = << >>
      BY <1>1, <2>2 DEF Phases
    <2>9. nextID <= nextID' /\ \A o \in Range(new) : o.id \in nextID .. nextID' - 1
      BY <1>1, <2>2, <2>3
    <2>10. Grows(c, i, new)
      BY <1>2, <2>2, <2>3, <2>4, <2>7, <2>8, <2>9, <2>5, <2>6 DEF Grows, Sets
    <2>11. QED
      BY <2>3, <2>10
  <1>4. CASE DeriveKey(c)
    <2>1. PICK i \in SessionIDs, y \in Session, o \in Object : SecretMade(c, i, y, o)
      BY <1>4, DeriveEffect
    <2> DEFINE new == <<o>>
    <2>2. /\ sessions[c][i] # NoSession
          /\ o.id = nextID /\ o.half = "secret" /\ ~IsToken(o)
          /\ Sets(c, i, y) /\ y.slot = sessions[c][i].slot
          /\ y.objects = sessions[c][i].objects \o new
          /\ Answer(c, [RV("CKR_OK") EXCEPT !.sid = i, !.handles = <<nextID>>])
          /\ nextID' = nextID + 1 /\ UNCHANGED <<token, left>>
      BY <2>1 DEF SecretMade
    <2>3. new \in Seq(Object) /\ Range(new) = {o} /\ Distinct(new)
      BY ShortLists
    <2>4. left[c] = << >> /\ Distinct(<< >>) /\ Range(<< >>) = {}
      BY <1>1, <2>2, ShortLists DEF Phases, Answer
    <2> HIDE DEF new
    <2>5. nextID <= nextID' /\ \A p \in Range(new) : p.id \in nextID .. nextID' - 1
      BY <1>1, <2>2, <2>3
    <2>6. \A p \in Range(new) : Shape(p) /\ p.half \notin {"pub", "priv"}
      BY <1>1, <2>2, <2>3 DEF Shape
    <2>7. Grows(c, i, new)
      BY <1>2, <2>2, <2>3, <2>4, <2>5, <2>6 DEF Grows, Sets
    <2>8. QED
      BY <2>3, <2>7
  <1>5. QED
    BY <1>3, <1>4

\* A step keeps all lists, opens a session with the objects of a slot, adds new
\* objects to a session, or persists an object.
LEMMA ListSteps ==
  ASSUME BaseInv, Next
  PROVE  \/ Keeps
         \/ \E c \in Conns, s \in Slots, i \in SessionIDs :
              \E objs \in Snapshots(s) : SessionOpened(c, s, i, objs)
         \/ \E c \in Conns, i \in SessionIDs, new \in Seq(Object) : Grows(c, i, new)
         \/ \E c \in Conns : Persist(c)
  <1>1. PICK c \in Conns : Step(c)
    BY StepKinds
  <1>2. \A y \in Session : y # NoSession
    BY ServerAssumption
  <1>3. ASSUME NEW i \in SessionIDs, NEW y \in Session \cup {NoSession},
               Sets(c, i, y), y # NoSession => SameObjects(sessions[c][i], y),
               sessions[c][i] # NoSession, UNCHANGED <<token, left, nextID>>
        PROVE  Keeps
    BY <1>3 DEF Keeps, KeepsOrEnds, Sets, SameObjects
  <1>4. ASSUME UNCHANGED <<token, left, nextID, sessions>>
        PROVE  Keeps
    BY <1>4 DEF Keeps, KeepsOrEnds
  <1>5. CASE Quiet(c) \/ FindObjectsFinal(c) \/ Persisted(c) \/ Deliver(c)
    BY <1>4, <1>5 DEF Quiet, Reply, FindObjectsFinal, Persisted, Deliver
  <1>6. CASE Ends(c)
    <2>1. /\ \A i \in SessionIDs : sessions'[c][i] = NoSession
          /\ \A d \in Conns \ {c}, i \in SessionIDs : sessions'[d][i] = sessions[d][i]
          /\ UNCHANGED <<token, left, nextID>>
      BY <1>6, EndsEffect
    <2>2. QED
      BY <2>1 DEF Keeps, KeepsOrEnds
  <1>7. CASE Connect(c)
    <2>1. /\ \A d \in Conns, i \in SessionIDs : sessions'[d][i] = sessions[d][i]
          /\ UNCHANGED <<token, left, nextID>>
      BY <1>7, ConnectEffect
    <2>2. QED
      BY <2>1 DEF Keeps, KeepsOrEnds
  <1>8. CASE CloseSession(c)
    BY <1>3, <1>8, CloseSessionEffect DEF SessionClosed
  <1>9. CASE FindObjectsInit(c)
    <2>1. PICK i \in SessionIDs, y \in Session, z \in SearchState, ids \in Seq(Nat) :
            SearchStarted(c, i, y, z, ids)
      BY <1>9, FindObjectsInitEffect
    <2>2. QED
      BY <1>3, <2>1 DEF SearchStarted
  <1>10. CASE FindObjects(c)
    <2>1. PICK i \in SessionIDs, y \in Session, z \in SearchState, batch \in Seq(Nat) :
            SearchServed(c, i, y, z, batch)
      BY <1>10, FindObjectsEffect
    <2>2. QED
      BY <1>3, <2>1 DEF SearchServed
  <1>11. CASE SignInit(c)
    BY <1>3, <1>11, SignInitEffect DEF SignerSet
  <1>12. CASE SignUpdate(c)
    BY <1>3, <1>12, SignUpdateEffect DEF DataFed
  <1>13. CASE OpenSession(c)
    BY <1>13, OpenSessionEffect
  <1>14. CASE GenerateKeyPair(c) \/ DeriveKey(c)
    BY <1>14, GrowsLemma
  <1>15. QED
    BY <1>1, <1>5, <1>6, <1>7, <1>8, <1>9, <1>10, <1>11, <1>12, <1>13, <1>14 DEF Step

-----------------------------------------------------------------------------
\* The lists are invariant.

\* New objects at the end of a list.
LEMMA AssignedConcat ==
  ASSUME NEW a \in Seq(Object), NEW b \in Seq(Object), NEW m \in Nat, NEW n \in Nat, m <= n,
         Assigned(a, m), Assigned(b, n), \A o \in Range(b) : o.id \notin Handles(a)
  PROVE  Assigned(a \o b, n)
  <1>1. Distinct(a \o b)
    BY ConcatDistinct DEF Assigned
  <1>2. Range(a \o b) = Range(a) \cup Range(b)
    BY ConcatObjects
  <1>3. \A o \in Range(a) : o.id \in 1 .. n - 1
    BY DEF Assigned
  <1>4. QED
    BY <1>1, <1>2, <1>3 DEF Assigned

\* The handles of a list are those of its objects.
LEMMA HandlesRange ==
  ASSUME NEW objs
  PROVE  Handles(objs) = {o.id : o \in Range(objs)}
  BY DEF Handles, Range

\* The objects of a list that loses its first one.
LEMMA TailLemma ==
  ASSUME NEW o \in Object, NEW t \in Seq(Object), Distinct(<<o>> \o t)
  PROVE  /\ Range(<<o>> \o t) = {o} \cup Range(t)
         /\ Handles(<<o>> \o t) = {o.id} \cup Handles(t)
         /\ Distinct(t) /\ o.id \notin Handles(t)
  <1> DEFINE a == <<o>>  q == a \o t
  <1>1. a \in Seq(Object) /\ Range(a) = {o} /\ Handles(a) = {o.id} /\ Len(a) = 1 /\ a[1] = o
    BY ShortLists
  <1> HIDE DEF a
  <1>2. /\ Len(t) \in Nat /\ DOMAIN t = 1 .. Len(t)
        /\ Len(q) = 1 + Len(t) /\ DOMAIN q = 1 .. 1 + Len(t)
        /\ \A k \in 1 .. 1 + Len(t) : q[k] = IF k <= 1 THEN a[k] ELSE t[k - 1]
    <2>1. Len(t) \in Nat /\ DOMAIN t = 1 .. Len(t)
      BY LenProperties
    <2>2. /\ q \in Seq(Object) /\ Len(q) = Len(a) + Len(t)
          /\ \A k \in 1 .. Len(a) + Len(t) : q[k] = IF k <= Len(a) THEN a[k] ELSE t[k - Len(a)]
      BY <1>1, ConcatProperties
    <2> HIDE DEF q
    <2>3. DOMAIN q = 1 .. Len(q)
      BY <2>2, LenProperties
    <2>4. QED
      BY <1>1, <2>1, <2>2, <2>3
  <1>3. q[1] = o /\ \A k \in 1 .. Len(t) : k + 1 \in DOMAIN q /\ q[k + 1] = t[k]
    BY <1>1, <1>2
  <1>4. Distinct(q)
    BY DEF a
  <1> HIDE DEF q
  <1>5. Distinct(t)
    <2> SUFFICES ASSUME NEW k \in 1 .. Len(t), NEW j \in 1 .. Len(t), t[k].id = t[j].id
                 PROVE  k = j
      BY <1>2 DEF Distinct
    <2>1. k + 1 = j + 1
      BY <1>3, <1>4 DEF Distinct
    <2>2. QED
      BY <2>1
  <1>6. o.id \notin Handles(t)
    <2> SUFFICES ASSUME NEW k \in 1 .. Len(t), t[k].id = o.id PROVE FALSE
      BY <1>2 DEF Handles
    <2>1. 1 \in DOMAIN q /\ k + 1 # 1
      BY <1>2
    <2>2. QED
      BY <1>3, <1>4, <2>1 DEF Distinct
  <1>7. Range(q) = {o} \cup Range(t) /\ Handles(q) = {o.id} \cup Handles(t)
    BY <1>1, ConcatObjects DEF q
  <1>8. QED
    BY <1>5, <1>6, <1>7 DEF a, q

\* Every step keeps the handles in each list distinct and below nextID.
LEMMA ListsStep ==
  ASSUME BaseInv, Next
  PROVE  Lists' /\ Unpersisted'
  <1>1. Types /\ Lists /\ Unpersisted /\ Types'
    BY StepKinds, TypesStep DEF BaseInv
  <1>2. /\ nextID \in Nat /\ nextID' \in Nat
        /\ FirstID \in Nat \ {0} /\ FirstID <= nextID
    BY <1>1, ServerAssumption DEF Types, TypeOK
  <1>3. /\ \A s \in Slots : token[s] \in Seq(Object) /\ token'[s] \in Seq(Object)
        /\ \A c \in Conns : left[c] \in Seq(Object) /\ left'[c] \in Seq(Object)
        /\ \A c \in Conns, i \in SessionIDs :
             /\ sessions[c][i] # NoSession => sessions[c][i].objects \in Seq(Object)
             /\ sessions'[c][i] # NoSession => sessions'[c][i].objects \in Seq(Object)
    BY <1>1 DEF Types, TypeOK, Session
  <1>4. CASE Keeps
    BY <1>1, <1>4 DEF Keeps, KeepsOrEnds, Lists, Unpersisted
  <1>5. CASE \E c \in Conns, s \in Slots, i \in SessionIDs :
               \E objs \in Snapshots(s) : SessionOpened(c, s, i, objs)
    <2>1. PICK c \in Conns, s \in Slots, i \in SessionIDs :
            \E objs \in Snapshots(s) : SessionOpened(c, s, i, objs)
      BY <1>5
    <2>2. PICK objs \in Snapshots(s) : SessionOpened(c, s, i, objs)
      BY <2>1
    <2>3. UNCHANGED <<token, left, nextID>> /\ Sets(c, i, NewSession(s, objs))
      BY <2>2 DEF SessionOpened
    <2>4. Assigned(objs, nextID)
      <3>1. CASE s \notin Dynamic
        BY <1>1, <3>1 DEF Snapshots, Lists
      <3>2. CASE s \in Dynamic
        <4>1. objs \in Provided[s]
          BY <3>2 DEF Snapshots
        <4>2. /\ objs \in Seq(Object)
              /\ \A k \in DOMAIN objs : objs[k].id \in 1 .. FirstID - 1
              /\ \A k, j \in DOMAIN objs : objs[k].id = objs[j].id => k = j
          BY <4>1, ServerAssumption
        <4>3. \A k \in DOMAIN objs : objs[k].id \in 1 .. nextID - 1
          BY <1>2, <4>2
        <4>4. QED
          BY <4>2, <4>3 DEF Assigned, Distinct, Range
      <3>3. QED
        BY <3>1, <3>2
    <2>5. NewSession(s, objs).objects = objs
      BY DEF NewSession
    <2>6. \A d \in Conns, j \in SessionIDs : sessions'[d][j] # NoSession =>
             Assigned(sessions'[d][j].objects, nextID)
      BY <1>1, <2>3, <2>4, <2>5 DEF Lists, Sets
    <2>7. QED
      BY <1>1, <2>3, <2>6 DEF Lists, Unpersisted
  <1>6. CASE \E c \in Conns, i \in SessionIDs, new \in Seq(Object) : Grows(c, i, new)
    <2>1. PICK c \in Conns, i \in SessionIDs, new \in Seq(Object) : Grows(c, i, new)
      BY <1>6
    <2> DEFINE a == sessions[c][i].objects
    <2>2. /\ sessions[c][i] # NoSession /\ sessions'[c][i].objects = a \o new
          /\ \A d \in Conns, j \in SessionIDs : (d # c \/ j # i) => sessions'[d][j] = sessions[d][j]
          /\ nextID <= nextID' /\ token' = token
          /\ \A d \in Conns \ {c} : left'[d] = left[d]
          /\ Distinct(new) /\ \A o \in Range(new) : o.id \in nextID .. nextID' - 1
          /\ Distinct(left'[c]) /\ Range(left'[c]) = {o \in Range(new) : IsToken(o)}
      BY <2>1 DEF Grows
    <2>3. \A objs : Assigned(objs, nextID) => Assigned(objs, nextID')
      BY <1>2, <2>2 DEF Assigned
    <2>4. \A o \in Range(new) : o.id \in 1 .. nextID' - 1 /\ o.id >= FirstID /\ o.id >= nextID
      BY <1>2, <2>2
    <2>5. \A objs : Assigned(objs, nextID) => \A o \in Range(new) : o.id \notin Handles(objs)
      BY <1>2, <2>4, HandlesRange DEF Assigned
    <2>6. a \in Seq(Object) /\ Assigned(a, nextID)
      BY <1>1, <1>3, <2>2 DEF Lists
    <2>7. Assigned(new, nextID') /\ Assigned(left'[c], nextID')
      BY <2>2, <2>4 DEF Assigned
    <2> HIDE DEF a
    <2>8. Assigned(a \o new, nextID')
      BY <1>2, <2>2, <2>5, <2>6, <2>7, AssignedConcat
    <2>9. /\ \A s \in Slots : Assigned(token'[s], nextID')
          /\ \A d \in Conns : Assigned(left'[d], nextID')
          /\ \A d \in Conns, j \in SessionIDs : sessions'[d][j] # NoSession =>
               Assigned(sessions'[d][j].objects, nextID')
      BY <1>1, <2>2, <2>3, <2>7, <2>8 DEF Lists, a
    <2>10. Lists'
      BY <2>9 DEF Lists
    <2>11. Unpersisted'
      <3> SUFFICES ASSUME NEW d \in Conns, NEW o \in Range(left'[d])
                   PROVE  /\ o.id >= FirstID
                          /\ \A s \in Slots : o.id \notin Handles(token'[s])
                          /\ \A e \in Conns \ {d} : o.id \notin Handles(left'[e])
        BY DEF Unpersisted
      <3>1. CASE d = c
        BY <1>1, <2>2, <2>4, <2>5, <3>1 DEF Lists
      <3>2. CASE d # c
        <4>1. /\ o \in Range(left[d]) /\ o.id >= FirstID
              /\ \A s \in Slots : o.id \notin Handles(token'[s])
              /\ \A e \in Conns \ {d, c} : o.id \notin Handles(left'[e])
          BY <1>1, <2>2, <3>2 DEF Unpersisted
        <4>2. \A p \in Range(left'[c]) : p.id \notin Handles(left[d])
          BY <1>1, <2>2, <2>5 DEF Lists
        <4>3. o.id \notin Handles(left'[c])
          BY <4>1, <4>2, HandlesRange
        <4>4. QED
          BY <4>1, <4>3
      <3>3. QED
        BY <3>1, <3>2
    <2>12. QED
      BY <2>10, <2>11
  <1>7. CASE \E c \in Conns : Persist(c)
    <2>1. PICK c \in Conns : Persist(c)
      BY <1>7
    <2>2. PICK s \in Slots, o \in Object : ObjectPersisted(c, s, o)
      BY <2>1, PersistEffect
    <2> DEFINE t == Tail(left[c])
    <2>3. /\ t \in Seq(Object) /\ left[c] = <<o>> \o t
          /\ token'[s] = token[s] \o <<o>>
          /\ \A u \in Slots \ {s} : token'[u] = token[u]
          /\ left'[c] = t /\ \A d \in Conns \ {c} : left'[d] = left[d]
          /\ UNCHANGED <<sessions, nextID>>
      BY <2>2 DEF ObjectPersisted
    <2> HIDE DEF t
    <2>4. /\ Range(left[c]) = {o} \cup Range(t)
          /\ Handles(left[c]) = {o.id} \cup Handles(t)
          /\ Distinct(t) /\ o.id \notin Handles(t)
      <3>1. Distinct(<<o>> \o t)
        BY <1>1, <2>3 DEF Lists, Assigned
      <3>2. QED
        BY <2>3, <3>1, TailLemma, Zenon
    <2>5. o.id >= FirstID /\ o.id \in 1 .. nextID - 1 /\ \A u \in Slots : o.id \notin Handles(token[u])
      BY <1>1, <2>4 DEF Lists, Assigned, Unpersisted
    <2>6. Assigned(t, nextID)
      BY <1>1, <2>4 DEF Lists, Assigned
    <2>7. /\ <<o>> \in Seq(Object) /\ Range(<<o>>) = {o} /\ Handles(<<o>>) = {o.id}
          /\ Distinct(<<o>>)
      BY ShortLists
    <2>8. Assigned(<<o>>, nextID)
      BY <2>5, <2>7 DEF Assigned
    <2>9. Assigned(token[s] \o <<o>>, nextID)
      <3> DEFINE b == <<o>>
      <3>1. /\ token[s] \in Seq(Object) /\ b \in Seq(Object) /\ Assigned(token[s], nextID)
            /\ Assigned(b, nextID) /\ \A p \in Range(b) : p.id \notin Handles(token[s])
        BY <1>1, <1>3, <2>5, <2>7, <2>8 DEF Lists
      <3> HIDE DEF b
      <3>2. Assigned(token[s] \o b, nextID)
        BY <1>2, <3>1, AssignedConcat
      <3>3. QED
        BY <3>2 DEF b
    <2>10. Handles(token'[s]) = Handles(token[s]) \cup {o.id}
      <3> DEFINE b == <<o>>
      <3>1. b \in Seq(Object) /\ Handles(b) = {o.id} /\ token[s] \in Seq(Object)
        BY <1>3, <2>7
      <3> HIDE DEF b
      <3>2. Handles(token[s] \o b) = Handles(token[s]) \cup {o.id}
        BY <3>1, ConcatObjects
      <3>3. QED
        BY <2>3, <3>2 DEF b
    <2>11. Lists'
      BY <1>1, <2>3, <2>6, <2>9 DEF Lists
    <2>12. Unpersisted'
      <3> SUFFICES ASSUME NEW d \in Conns, NEW p \in Range(left'[d])
                   PROVE  /\ p.id >= FirstID
                          /\ \A u \in Slots : p.id \notin Handles(token'[u])
                          /\ \A e \in Conns \ {d} : p.id \notin Handles(left'[e])
        BY DEF Unpersisted
      <3>1. p \in Range(left[d]) /\ \A e \in Conns : Handles(left'[e]) \subseteq Handles(left[e])
        BY <2>3, <2>4
      <3>2. /\ p.id >= FirstID
            /\ \A u \in Slots : p.id \notin Handles(token[u])
            /\ \A e \in Conns \ {d} : p.id \notin Handles(left[e])
        BY <1>1, <3>1 DEF Unpersisted
      <3>3. p.id # o.id
        <4>1. CASE d = c
          BY <2>3, <2>4, <4>1, HandlesRange
        <4>2. CASE d # c
          BY <2>4, <3>2, <4>2
        <4>3. QED
          BY <4>1, <4>2
      <3>4. QED
        BY <2>3, <2>10, <3>1, <3>2, <3>3
    <2>13. QED
      BY <2>11, <2>12
  <1>8. QED
    BY <1>4, <1>5, <1>6, <1>7, ListSteps

-----------------------------------------------------------------------------
\* The theorems.

\* The program starts with the configured objects and no connections.
LEMMA InitBase ==
  ASSUME Init
  PROVE  BaseInv
  <1>1. FirstID \in Nat \ {0} /\ 0 \in SessionIDs
    BY ServerAssumption DEF SessionIDs
  <1>2. \A s \in Slots : /\ Stored[s] \in Seq(Object)
                         /\ \A k \in DOMAIN Stored[s] : Stored[s][k].id \in 1 .. FirstID - 1
                         /\ \A k, j \in DOMAIN Stored[s] :
                              Stored[s][k].id = Stored[s][j].id => k = j
    <2> TAKE s \in Slots
    <2>1. Stored[s] \in {Stored[s]} \cup Provided[s]
      OBVIOUS
    <2>2. QED
      BY <2>1, ServerAssumption, Zenon
  <1>3. NoSearch \in SearchState
    BY DEF NoSearch, SearchState
  <1>4. Response(RV("none"))
    <2>1. << >> \in Seq(Nat) /\ << >> \in Seq(Object)
      OBVIOUS
    <2>2. QED
      BY <2>1, RVLemma, Zenon DEF Response
  <1>5. Types
    <2>1. TypeOK
      BY <1>1, <1>2 DEF Init, TypeOK, NoSessions
    <2>2. DOMAIN resp = Conns /\ \A c \in Conns : Response(resp[c])
      BY <1>4 DEF Init
    <2>3. /\ acked \in [Slots -> SUBSET Nat]
          /\ given \in [Conns -> [SessionIDs -> SUBSET Nat]]
          /\ search \in [Conns -> [SessionIDs -> SearchState]]
      BY <1>3 DEF Init
    <2>4. FirstID <= nextID
      BY <1>1 DEF Init
    <2>5. QED
      BY <2>1, <2>2, <2>3, <2>4 DEF Types
  <1>6. Phases
    BY RVLemma DEF Init, Phases, NoSessions
  <1>7. Range(<< >>) = {} /\ Handles(<< >>) = {} /\ Distinct(<< >>)
    BY DEF Range, Handles, Distinct
  <1>8. Lists
    <2>1. \A s \in Slots : Assigned(token[s], nextID)
      BY <1>2 DEF Init, Assigned, Distinct, Range
    <2>2. \A c \in Conns : Assigned(left[c], nextID)
      BY <1>7 DEF Init, Assigned
    <2>3. \A c \in Conns, i \in SessionIDs : sessions[c][i] = NoSession
      BY DEF Init, NoSessions
    <2>4. QED
      BY <2>1, <2>2, <2>3 DEF Lists
  <1>9. Unpersisted
    BY <1>7 DEF Init, Unpersisted
  <1>10. QED
    BY <1>5, <1>6, <1>8, <1>9 DEF BaseInv

\* Every step preserves the invariant.
LEMMA NextBase ==
  ASSUME BaseInv, [Next]_vars
  PROVE  BaseInv'
  <1>1. CASE Next
    BY <1>1, StepKinds, TypesStep, ListsStep DEF BaseInv
  <1>2. CASE UNCHANGED vars
    <2>1. Types' /\ Phases'
      BY <1>2 DEF BaseInv, vars, Types, TypeOK, Phases
    <2>2. Lists' /\ Unpersisted'
      BY <1>2 DEF BaseInv, vars, Lists, Unpersisted
    <2>3. QED
      BY <2>1, <2>2 DEF BaseInv
  <1>3. QED
    BY <1>1, <1>2

\* The types, what is pending in each phase of a connection, and the object
\* lists: handles in each list are distinct and assigned, and what is yet to be
\* persisted is on no token and is one connection's.
THEOREM ListsConsistent == Spec => []BaseInv
  <1>1. Init => BaseInv
    BY InitBase
  <1>2. BaseInv /\ [Next]_vars => BaseInv'
    BY NextBase
  <1>3. QED
    BY <1>1, <1>2, PTL DEF Spec

\* The server's state has its type: tokens, sessions and what is left to persist
\* hold objects, and session IDs stay within their width.
THEOREM TypeCorrect == Spec => []TypeOK
  <1>1. BaseInv => TypeOK
    BY DEF BaseInv, Types
  <1>2. QED
    BY <1>1, ListsConsistent, PTL

\* No step, of this or another connection, takes a session's objects away, moves
\* the session to another slot or lets a new session take over its handle.
LEMMA KeptStep ==
  ASSUME BaseInv, Next
  PROVE  SessionKept
  <1> SUFFICES ASSUME NEW c \in Conns, NEW i \in Live(c), sessions'[c][i] # NoSession
               PROVE  LET x == sessions[c][i]  y == sessions'[c][i] IN
                      /\ y.slot = x.slot
                      /\ Len(x.objects) <= Len(y.objects)
                      /\ \A k \in DOMAIN x.objects : y.objects[k] = x.objects[k]
    BY DEF SessionKept
  <1>1. Types /\ i \in SessionIDs /\ sessions[c][i] # NoSession
    BY LiveLemma DEF BaseInv
  <1>2. sessions[c][i].objects \in Seq(Object)
    BY <1>1, LiveLemma DEF Session
  <1>3. Len(sessions[c][i].objects) \in Nat
    BY <1>2, LenProperties
  <1>4. CASE sessions'[c][i].slot = sessions[c][i].slot /\ sessions'[c][i].objects = sessions[c][i].objects
    BY <1>3, <1>4
  <1>5. CASE Keeps
    BY <1>1, <1>4, <1>5 DEF Keeps, KeepsOrEnds
  <1>6. CASE \E d \in Conns, s \in Slots, j \in SessionIDs :
               \E objs \in Snapshots(s) : SessionOpened(d, s, j, objs)
    <2>1. PICK d \in Conns, s \in Slots, j \in SessionIDs :
            \E objs \in Snapshots(s) : SessionOpened(d, s, j, objs)
      BY <1>6
    <2>2. sessions'[c][i] = sessions[c][i]
      BY <1>1, <2>1 DEF SessionOpened, Sets
    <2>3. QED
      BY <1>4, <2>2
  <1>7. CASE \E d \in Conns, j \in SessionIDs, new \in Seq(Object) : Grows(d, j, new)
    <2>1. PICK d \in Conns, j \in SessionIDs, new \in Seq(Object) : Grows(d, j, new)
      BY <1>7
    <2>2. CASE d = c /\ j = i
      <3>1. /\ sessions'[c][i].slot = sessions[c][i].slot
            /\ sessions'[c][i].objects = sessions[c][i].objects \o new
        BY <2>1, <2>2 DEF Grows
      <3>2. QED
        BY <1>2, <3>1, ConcatObjects
    <2>3. CASE d # c \/ j # i
      <3>1. sessions'[c][i] = sessions[c][i]
        BY <1>1, <2>1, <2>3 DEF Grows
      <3>2. QED
        BY <1>4, <3>1
    <2>4. QED
      BY <2>2, <2>3
  <1>8. CASE \E d \in Conns : Persist(d)
    BY <1>4, <1>8 DEF Persist
  <1>9. QED
    BY <1>5, <1>6, <1>7, <1>8, ListSteps

\* A session that stays open keeps its slot and only gains objects, at the end.
THEOREM SessionsStable == Spec => SessionStable
  <1>1. BaseInv /\ [Next]_vars => [SessionKept]_vars
    BY KeptStep
  <1>2. QED
    BY <1>1, ListsConsistent, PTL DEF Spec, SessionStable

-----------------------------------------------------------------------------
\* Sessions.

\* What the client knows about session i of connection c is so.
Told(c, i) ==
  LET x == sessions[c][i]  q == search[c][i] IN
  IF x = NoSession
  THEN given[c][i] = {} /\ ~q.active
  ELSE /\ given[c][i] \subseteq Handles(x.objects)
       /\ \A k \in DOMAIN x.findMatches : x.findMatches[k] \in Handles(x.objects)
       /\ q.active /\ q.clean => q.found = q.sent \o x.findMatches
       /\ x.signObject = NoObject \/ /\ x.signObject \in Range(x.objects)
                                     /\ supports(x.signObject, x.signMechanism)

\* The handles in the response to be written resolve in the session it is about.
Pending(c) ==
  \A k \in DOMAIN resp[c].handles :
    /\ sessions[c][resp[c].sid] # NoSession
    /\ resp[c].handles[k] \in Handles(sessions[c][resp[c].sid].objects)

SessionInv == \A c \in Conns : Pending(c) /\ \A i \in SessionIDs : Told(c, i)

-----------------------------------------------------------------------------
\* It suffices to look at the connection that takes the step.
LEMMA SessionFrame ==
  ASSUME Types, SessionInv, NEW c \in Conns, Frame(c), Pending(c)',
         \A i \in SessionIDs : Told(c, i)'
  PROVE  SessionInv'
  <1>1. ASSUME NEW d \in Conns \ {c} PROVE Pending(d)' /\ \A i \in SessionIDs : Told(d, i)'
    <2>1. /\ resp'[d] = resp[d]
          /\ \A i \in SessionIDs : /\ sessions'[d][i] = sessions[d][i]
                                   /\ given'[d][i] = given[d][i] /\ search'[d][i] = search[d][i]
      BY DEF Frame
    <2>2. resp[d].sid \in SessionIDs /\ Pending(d) /\ \A i \in SessionIDs : Told(d, i)
      BY DEF Types, Response, SessionInv
    <2>3. Pending(d)'
      BY <2>1, <2>2 DEF Pending
    <2>4. \A i \in SessionIDs : Told(d, i)'
      BY <2>1, <2>2 DEF Told
    <2>5. QED
      BY <2>3, <2>4
  <1>2. QED
    BY <1>1 DEF SessionInv

\* Sessions that the step does not touch, and what is known of them.
LEMMA ToldSame ==
  ASSUME NEW c \in Conns, NEW i \in SessionIDs, Told(c, i),
         sessions'[c][i] = sessions[c][i], given'[c][i] = given[c][i],
         search'[c][i] = search[c][i] \/ ~search'[c][i].active
  PROVE  Told(c, i)'
  BY DEF Told

\* A session that becomes y and gains objects, but no search results.
LEMMA ToldGrows ==
  ASSUME NEW c \in Conns, NEW i \in SessionIDs, Told(c, i), NEW y, sessions'[c][i] = y,
         sessions[c][i] # NoSession, y # NoSession,
         Handles(sessions[c][i].objects) \subseteq Handles(y.objects),
         Range(sessions[c][i].objects) \subseteq Range(y.objects),
         y.findMatches = sessions[c][i].findMatches,
         \/ /\ y.signObject = sessions[c][i].signObject
            /\ y.signMechanism = sessions[c][i].signMechanism
         \/ y.signObject \in Range(y.objects) /\ supports(y.signObject, y.signMechanism),
         given'[c][i] = given[c][i], search'[c][i] = search[c][i]
  PROVE  Told(c, i)'
  BY DEF Told

\* The two operations on the results of a session's searches.
LEMMA ResultsLemma ==
  ASSUME NEW a \in Seq(Nat), NEW b \in Seq(Nat), NEW d \in Seq(Nat)
  PROVE  /\ (a \o b) \o d = a \o (b \o d)
         /\ \A k \in DOMAIN (a \o b) : \/ \E j \in DOMAIN a : (a \o b)[k] = a[j]
                                       \/ \E j \in DOMAIN b : (a \o b)[k] = b[j]
  <1>1. (a \o b) \o d = a \o (b \o d)
    BY ConcatAssociative, SMTT(60)
  <1>2. Range(a \o b) = Range(a) \cup Range(b)
    BY RangeConcatenation
  <1>3. QED
    BY <1>1, <1>2 DEF Range

-----------------------------------------------------------------------------
\* No connection has a session at the start.
LEMMA InitSession ==
  ASSUME Init
  PROVE  SessionInv
  <1>1. \A c \in Conns : Pending(c)
    BY RVLemma DEF Init, Pending
  <1>2. \A c \in Conns, i \in SessionIDs : Told(c, i)
    BY DEF Init, Told, NoSessions, NoSearch
  <1>3. QED
    BY <1>1, <1>2 DEF SessionInv

\* Every step preserves the invariant.
LEMMA SessionStep ==
  ASSUME BaseInv, SessionInv, Next
  PROVE  SessionInv'
  <1>1. PICK c \in Conns : Step(c)
    BY StepKinds
  <1>2. Types /\ Types' /\ Frame(c)
    BY <1>1, TypesStep DEF BaseInv
  <1>3. SUFFICES Pending(c)' /\ \A i \in SessionIDs : Told(c, i)'
    BY <1>2, SessionFrame
  <1>4. Pending(c) /\ \A i \in SessionIDs : Told(c, i)
    BY DEF SessionInv
  <1>5. ASSUME resp'[c].handles = << >> PROVE Pending(c)'
    BY <1>5 DEF Pending
  <1>6. \A y \in Session : y # NoSession
    BY ServerAssumption
  <1>7. ASSUME NEW rv, Answer(c, RV(rv)) PROVE Pending(c)'
    <2>1. resp'[c] = RV(rv)
      BY <1>2, <1>7, AnswerLemma DEF Turn
    <2>2. QED
      BY <1>5, <2>1, RVLemma
  <1>8. ASSUME NEW i \in SessionIDs, NEW y, Sets(c, i, y), UNCHANGED <<given, search>>
        PROVE  \A j \in SessionIDs \ {i} : Told(c, j)'
    BY <1>4, <1>8, ToldSame DEF Sets
  <1>9. ASSUME NEW i \in SessionIDs, NEW y, Sets(c, i, y), NEW z, Searches(c, i, z), given' = given
        PROVE  \A j \in SessionIDs \ {i} : Told(c, j)'
    BY <1>4, <1>9, ToldSame DEF Sets, Searches
  <1>10. CASE Quiet(c)
    <2>1. PICK r : r.handles = << >> /\ Reply(c, r)
      BY <1>10 DEF Quiet
    <2>2. resp'[c] = r
      BY <1>2, <2>1, AnswerLemma DEF Reply, Turn
    <2>3. UNCHANGED <<sessions, given, search>>
      BY <2>1 DEF Reply, ghosts
    <2>4. QED
      BY <1>4, <1>5, <2>1, <2>2, <2>3, ToldSame
  <1>11. CASE Ends(c)
    <2>1. /\ resp'[c] = RV("none")
          /\ \A i \in SessionIDs : sessions'[c][i] = NoSession
          /\ \A i \in SessionIDs : given'[c][i] = {} /\ search'[c][i] = NoSearch
      BY <1>11, EndsEffect DEF Turn
    <2>2. ~NoSearch.active
      BY DEF NoSearch
    <2>3. \A i \in SessionIDs : Told(c, i)'
      BY <2>1, <2>2 DEF Told
    <2>4. QED
      BY <1>5, <2>1, <2>3, RVLemma
  <1>12. CASE Connect(c)
    <2>1. /\ \A i \in SessionIDs : sessions'[c][i] = sessions[c][i]
          /\ UNCHANGED <<resp, given, search>>
      BY <1>12, ConnectEffect
    <2>2. resp[c].sid \in SessionIDs
      BY <1>2 DEF Types, Response
    <2>3. Pending(c)'
      BY <1>4, <2>1, <2>2 DEF Pending
    <2>4. QED
      BY <1>4, <2>1, <2>3, ToldSame
  <1>13. CASE OpenSession(c)
    <2>1. PICK s \in Slots, i \in SessionIDs : \E objs \in Snapshots(s) :
            SessionOpened(c, s, i, objs)
      BY <1>13, OpenSessionEffect
    <2>2. PICK objs \in Snapshots(s) : SessionOpened(c, s, i, objs)
      BY <2>1
    <2> DEFINE y == NewSession(s, objs)
               r == [RV("CKR_OK") EXCEPT !.sid = i]
    <2>3. /\ sessions[c][i] = NoSession /\ y \in Session /\ Sets(c, i, y) /\ Answer(c, r)
          /\ UNCHANGED <<given, search>>
      BY <2>2 DEF SessionOpened, ghosts
    <2>4. r.handles = << >>
      BY DEF RV
    <2>5. y.findMatches = << >> /\ y.signObject = NoObject
      BY DEF NewSession
    <2> HIDE DEF y, r
    <2>6. Pending(c)'
      BY <1>2, <1>5, <2>3, <2>4, AnswerLemma DEF Turn
    <2>7. Told(c, i)'
      <3>1. given'[c][i] = {} /\ ~search'[c][i].active
        BY <1>4, <2>3 DEF Told
      <3>2. sessions'[c][i] = y /\ y # NoSession
        BY <1>6, <2>3 DEF Sets
      <3>3. DOMAIN y.findMatches = {}
        BY <2>5
      <3>4. QED
        BY <2>5, <3>1, <3>2, <3>3 DEF Told
    <2>8. QED
      BY <1>8, <2>3, <2>6, <2>7
  <1>14. CASE CloseSession(c)
    <2>1. PICK i \in SessionIDs : SessionClosed(c, i)
      BY <1>14, CloseSessionEffect
    <2>2. /\ Sets(c, i, NoSession)
          /\ given'[c][i] = {} /\ search'[c][i] = NoSearch
          /\ \A j \in SessionIDs \ {i} : given'[c][j] = given[c][j] /\ search'[c][j] = search[c][j]
          /\ Answer(c, RV("CKR_OK"))
      BY <2>1 DEF SessionClosed
    <2>3. Told(c, i)'
      BY <2>2 DEF Told, NoSearch, Sets
    <2>4. \A j \in SessionIDs \ {i} : Told(c, j)'
      BY <1>4, <2>2, ToldSame DEF Sets
    <2>5. QED
      BY <1>7, <2>2, <2>3, <2>4
  <1>15. CASE FindObjectsInit(c)
    <2>1. PICK i \in SessionIDs, y \in Session, z \in SearchState, ids \in Seq(Nat) :
            SearchStarted(c, i, y, z, ids)
      BY <1>15, FindObjectsInitEffect
    <2> DEFINE x == sessions[c][i]
    <2>2. /\ x # NoSession
          /\ \A k \in DOMAIN ids : ids[k] \in Handles(x.objects)
          /\ Sets(c, i, y) /\ y.objects = x.objects
          /\ y.findMatches = x.findMatches \o ids
          /\ y.signObject = x.signObject /\ y.signMechanism = x.signMechanism
          /\ Searches(c, i, z) /\ z.found = ids /\ z.sent = << >>
          /\ z.clean = (x.findMatches = << >>)
          /\ Answer(c, RV("CKR_OK")) /\ given' = given
      BY <2>1 DEF SearchStarted, SameObjects
    <2>3. x \in Session /\ x.findMatches \in Seq(Nat)
      <3>1. sessions \in [Conns -> [SessionIDs -> Session \cup {NoSession}]]
        BY <1>2 DEF Types, TypeOK
      <3>2. x \in Session
        BY <2>2, <3>1
      <3>3. QED
        BY <3>2 DEF Session
    <2>4. sessions'[c][i] = y /\ search'[c][i] = z /\ y # NoSession
      BY <1>6, <2>2 DEF Sets, Searches
    <2> HIDE DEF x
    <2>5. /\ given[c][i] \subseteq Handles(x.objects)
          /\ \A k \in DOMAIN x.findMatches : x.findMatches[k] \in Handles(x.objects)
          /\ x.signObject = NoObject \/ /\ x.signObject \in Range(x.objects)
                                        /\ supports(x.signObject, x.signMechanism)
      BY <1>4, <2>2 DEF Told, x
    <2>6. z.clean => z.found = z.sent \o y.findMatches
      <3>1. << >> \o ids = ids
        BY ConcatEmptySeq
      <3>2. QED
        BY <2>2, <3>1
    <2>7. \A k \in DOMAIN y.findMatches : y.findMatches[k] \in Handles(y.objects)
      <3>1. \A k \in DOMAIN (x.findMatches \o ids) :
              \/ \E j \in DOMAIN x.findMatches : (x.findMatches \o ids)[k] = x.findMatches[j]
              \/ \E j \in DOMAIN ids : (x.findMatches \o ids)[k] = ids[j]
        BY <2>3, ResultsLemma
      <3>2. /\ y.findMatches = x.findMatches \o ids /\ y.objects = x.objects
            /\ \A k \in DOMAIN ids : ids[k] \in Handles(x.objects)
        BY <2>2
      <3>3. \A k \in DOMAIN x.findMatches : x.findMatches[k] \in Handles(x.objects)
        BY <2>5
      <3>4. QED
        BY <3>1, <3>2, <3>3, Zenon
    <2>8. Told(c, i)'
      BY <2>2, <2>4, <2>5, <2>6, <2>7 DEF Told
    <2>9. QED
      BY <1>7, <1>9, <2>2, <2>8
  <1>16. CASE FindObjects(c)
    <2>1. PICK i \in SessionIDs, y \in Session, z \in SearchState, batch \in Seq(Nat) :
            SearchServed(c, i, y, z, batch)
      BY <1>16, FindObjectsEffect
    <2> DEFINE x == sessions[c][i]
               w == search[c][i]
               r == [RV("CKR_OK") EXCEPT !.sid = i, !.handles = batch, !.call = "FindObjects"]
    <2>2. /\ x # NoSession
          /\ Sets(c, i, y) /\ y.objects = x.objects
          /\ x.findMatches = batch \o y.findMatches
          /\ \A k \in DOMAIN batch : \E j \in DOMAIN x.findMatches : batch[k] = x.findMatches[j]
          /\ \A k \in DOMAIN y.findMatches :
               \E j \in DOMAIN x.findMatches : y.findMatches[k] = x.findMatches[j]
          /\ y.signObject = x.signObject /\ y.signMechanism = x.signMechanism
          /\ Searches(c, i, z) /\ z.found = w.found /\ z.active = w.active
          /\ z.clean = w.clean /\ (z.clean => z.sent = w.sent \o batch)
          /\ Answer(c, r) /\ given' = given
      BY <2>1 DEF SearchServed, SameObjects
    <2>3. y.findMatches \in Seq(Nat) /\ w.sent \in Seq(Nat)
      BY <1>2, <2>2 DEF Types, Session, SearchState
    <2>4. sessions'[c][i] = y /\ search'[c][i] = z /\ y # NoSession
      BY <1>6, <2>2 DEF Sets, Searches
    <2>5. r.sid = i /\ r.handles = batch
      BY DEF RV
    <2> HIDE DEF x, w, r
    <2>6. /\ given[c][i] \subseteq Handles(x.objects)
          /\ \A k \in DOMAIN x.findMatches : x.findMatches[k] \in Handles(x.objects)
          /\ w.active /\ w.clean => w.found = w.sent \o x.findMatches
          /\ x.signObject = NoObject \/ /\ x.signObject \in Range(x.objects)
                                        /\ supports(x.signObject, x.signMechanism)
      BY <1>4, <2>2 DEF Told, x, w
    <2>7. z.active /\ z.clean => z.found = z.sent \o y.findMatches
      <3>1. (w.sent \o batch) \o y.findMatches = w.sent \o (batch \o y.findMatches)
        BY <2>3, ResultsLemma
      <3>2. QED
        BY <2>2, <2>6, <3>1
    <2>8. \A k \in DOMAIN batch : batch[k] \in Handles(y.objects)
      BY <2>2, <2>6
    <2>9. \A k \in DOMAIN y.findMatches : y.findMatches[k] \in Handles(y.objects)
      BY <2>2, <2>6
    <2>10. Told(c, i)'
      BY <2>2, <2>4, <2>6, <2>7, <2>9 DEF Told
    <2>11. Pending(c)'
      <3>1. resp'[c] = r
        BY <1>2, <2>2, AnswerLemma DEF Turn
      <3>2. QED
        BY <2>4, <2>5, <2>8, <3>1 DEF Pending
    <2>12. QED
      BY <1>9, <2>2, <2>10, <2>11
  <1>17. CASE FindObjectsFinal(c)
    <2>1. PICK i \in SessionIDs, z \in SearchState :
            /\ Searches(c, i, z) /\ ~z.active
            /\ Answer(c, RV("CKR_OK")) /\ UNCHANGED <<sessions, given>>
      BY <1>17, FindObjectsFinalEffect
    <2>2. \A j \in SessionIDs : search'[c][j] = search[c][j] \/ ~search'[c][j].active
      BY <2>1 DEF Searches
    <2>3. QED
      BY <1>4, <1>7, <2>1, <2>2, ToldSame
  <1>18. CASE SignInit(c) \/ SignUpdate(c)
    <2>1. PICK i \in SessionIDs, y \in Session : SignerSet(c, i, y) \/ DataFed(c, i, y)
      BY <1>18, SignInitEffect, SignUpdateEffect
    <2>2. /\ sessions[c][i] # NoSession /\ Sets(c, i, y)
          /\ y.objects = sessions[c][i].objects /\ y.findMatches = sessions[c][i].findMatches
          /\ Answer(c, RV("CKR_OK")) /\ UNCHANGED <<given, search>>
      BY <2>1 DEF SignerSet, DataFed, SameObjects
    <2>3. \/ /\ y.signObject = sessions[c][i].signObject
             /\ y.signMechanism = sessions[c][i].signMechanism
          \/ y.signObject \in Range(y.objects) /\ supports(y.signObject, y.signMechanism)
      BY <2>1 DEF SignerSet, DataFed
    <2>4. sessions'[c][i] = y /\ y # NoSession
      BY <1>6, <2>2 DEF Sets
    <2>5. Told(c, i)'
      BY <1>4, <2>2, <2>3, <2>4, ToldGrows
    <2>6. QED
      BY <1>7, <1>8, <2>2, <2>5
  <1>19. CASE GenerateKeyPair(c)
    <2>1. PICK i \in SessionIDs, y \in Session, pub \in Object, priv \in Object :
            PairMade(c, i, y, pub, priv)
      BY <1>19, GenerateEffect
    <2> DEFINE x == sessions[c][i]
               new == <<pub, priv>>
               r == KeyPairResponse(i, pub, priv)
    <2>2. /\ x # NoSession /\ Sets(c, i, y)
          /\ y.objects = x.objects \o new /\ y.findMatches = x.findMatches
          /\ y.signObject = x.signObject /\ y.signMechanism = x.signMechanism
          /\ resp' = [resp EXCEPT ![c] = r] /\ UNCHANGED <<given, search>>
      BY <2>1 DEF PairMade, ghosts
    <2>3. x.objects \in Seq(Object)
      BY <1>2, <2>2 DEF Types, TypeOK, Session
    <2>4. new \in Seq(Object) /\ Handles(new) = {pub.id, priv.id}
      BY ShortLists
    <2>5. r.sid = i /\ r.handles = <<pub.id, priv.id>>
      BY DEF KeyPairResponse, RV
    <2>6. sessions'[c][i] = y /\ y # NoSession /\ resp'[c] = r
      BY <1>2, <1>6, <2>2 DEF Sets, Types
    <2> HIDE DEF new, r
    <2>7. /\ Handles(x.objects \o new) = Handles(x.objects) \cup {pub.id, priv.id}
          /\ Range(x.objects) \subseteq Range(x.objects \o new)
      BY <2>3, <2>4, ConcatObjects
    <2>8. Told(c, i)'
      BY <1>4, <2>2, <2>6, <2>7, ToldGrows
    <2>9. Pending(c)'
      <3>1. \A k \in DOMAIN r.handles : r.handles[k] \in {pub.id, priv.id}
        BY <2>5
      <3>2. QED
        BY <2>2, <2>5, <2>6, <2>7, <3>1 DEF Pending
    <2>10. QED
      BY <1>8, <2>2, <2>8, <2>9
  <1>20. CASE DeriveKey(c)
    <2>1. PICK i \in SessionIDs, y \in Session, o \in Object : SecretMade(c, i, y, o)
      BY <1>20, DeriveEffect
    <2> DEFINE x == sessions[c][i]
               new == <<o>>
               r == [RV("CKR_OK") EXCEPT !.sid = i, !.handles = <<nextID>>]
    <2>2. /\ x # NoSession /\ Sets(c, i, y) /\ o.id = nextID
          /\ y.objects = x.objects \o new /\ y.findMatches = x.findMatches
          /\ y.signObject = x.signObject /\ y.signMechanism = x.signMechanism
          /\ Answer(c, r) /\ UNCHANGED <<given, search>>
      BY <2>1 DEF SecretMade, ghosts
    <2>3. x.objects \in Seq(Object)
      BY <1>2, <2>2 DEF Types, TypeOK, Session
    <2>4. new \in Seq(Object) /\ Handles(new) = {o.id}
      BY ShortLists
    <2>5. r.sid = i /\ r.handles = <<nextID>>
      BY DEF RV
    <2>6. sessions'[c][i] = y /\ y # NoSession /\ resp'[c] = r
      BY <1>2, <1>6, <2>2, AnswerLemma DEF Sets, Turn
    <2> HIDE DEF new, r
    <2>7. /\ Handles(x.objects \o new) = Handles(x.objects) \cup {o.id}
          /\ Range(x.objects) \subseteq Range(x.objects \o new)
      BY <2>3, <2>4, ConcatObjects
    <2>8. Told(c, i)'
      BY <1>4, <2>2, <2>6, <2>7, ToldGrows
    <2>9. Pending(c)'
      <3>1. \A k \in DOMAIN r.handles : r.handles[k] = o.id
        BY <2>2, <2>5
      <3>2. QED
        BY <2>2, <2>5, <2>6, <2>7, <3>1 DEF Pending
    <2>10. QED
      BY <1>8, <2>2, <2>8, <2>9
  <1>21. CASE Persist(c) \/ Persisted(c)
    <2>1. UNCHANGED <<sessions, resp, given, search>>
      BY <1>21 DEF Persist, Persisted, ghosts
    <2>2. QED
      BY <1>4, <2>1, ToldSame DEF Pending
  <1>22. CASE Deliver(c)
    <2>0. PICK sid \in SessionIDs : sid = resp[c].sid
      BY <1>2 DEF Types, Response
    <2> DEFINE got == {resp[c].handles[k] : k \in DOMAIN resp[c].handles}
    <2>1. /\ resp'[c] = RV("none")
          /\ given'[c][sid] = given[c][sid] \cup got
          /\ \A i \in SessionIDs \ {sid} : given'[c][i] = given[c][i]
          /\ UNCHANGED <<sessions, search>>
      <3>1. Turn(c, "ready", RV("none")) /\ UNCHANGED <<sessions, search>>
        BY <1>22, DeliverEffect
      <3>2. given'[c][sid] = given[c][sid] \cup got
        BY <1>22, <2>0, DeliverEffect
      <3>3. \A i \in SessionIDs \ {sid} : given'[c][i] = given[c][i]
        BY <1>22, <2>0, DeliverEffect
      <3>4. QED
        BY <3>1, <3>2, <3>3 DEF Turn
    <2>3. /\ sessions[c][sid] # NoSession => got \subseteq Handles(sessions[c][sid].objects)
          /\ sessions[c][sid] = NoSession => got = {}
      BY <1>4, <2>0 DEF Pending
    <2> HIDE DEF got
    <2>4. Told(c, sid)'
      <3>1. /\ Told(c, sid) /\ sessions'[c][sid] = sessions[c][sid]
            /\ search'[c][sid] = search[c][sid]
        BY <1>4, <2>1
      <3>2. CASE sessions[c][sid] = NoSession
        BY <2>1, <2>3, <3>1, <3>2 DEF Told
      <3>3. CASE sessions[c][sid] # NoSession
        BY <2>1, <2>3, <3>1, <3>3 DEF Told
      <3>4. QED
        BY <3>2, <3>3
    <2>5. \A i \in SessionIDs \ {sid} : Told(c, i)'
      BY <1>4, <2>1, ToldSame
    <2>6. QED
      <3>1. Pending(c)'
        BY <1>5, <2>1, RVLemma
      <3>2. QED
        BY <2>4, <2>5, <3>1
  <1>23. QED
    BY <1>1, <1>10, <1>11, <1>12, <1>13, <1>14, <1>15, <1>16, <1>17, <1>18, <1>19, <1>20,
       <1>21, <1>22 DEF Step

-----------------------------------------------------------------------------
\* What clients know about their sessions is so, in every phase of a connection.
THEOREM ClientsWellInformed == Spec => [](BaseInv /\ SessionInv)
  <1>1. Init => SessionInv
    BY InitSession
  <1>2. BaseInv /\ SessionInv /\ [Next]_vars => SessionInv'
    <2>1. CASE UNCHANGED vars
      BY <2>1 DEF SessionInv, Pending, Told, vars
    <2>2. QED
      BY <2>1, SessionStep
  <1>3. QED
    BY <1>1, <1>2, ListsConsistent, PTL DEF Spec

\* Object handles a client was given keep resolving in their session, whatever
\* this or another connection does, and although session handles are reused.
THEOREM HandlesStayValid == Spec => []HandlesResolve
  <1>1. SessionInv => HandlesResolve
    BY DEF SessionInv, Told, HandlesResolve, AllLive, Sess
  <1>2. QED
    BY <1>1, ClientsWellInformed, PTL

\* What was returned and what is still queued make up what a search found, in
\* whatever chunks C_FindObjects is called.
THEOREM SearchesConserve == Spec => []FindConserves
  <1>1. SessionInv => FindConserves
    BY DEF SessionInv, Told, FindConserves, AllLive, Sess
  <1>2. QED
    BY <1>1, ClientsWellInformed, PTL

\* A session set up to sign uses a private key of its own that supports the
\* mechanism.
THEOREM SignersReady == Spec => []SignReady
  <1>1. BaseInv /\ SessionInv => SignReady
    <2> SUFFICES ASSUME BaseInv, SessionInv, NEW h \in AllLive, Sess(h).signObject # NoObject
                 PROVE  /\ Sess(h).signObject.id \in Handles(Sess(h).objects)
                        /\ Sess(h).signObject = object(Sess(h).objects, Sess(h).signObject.id)
                        /\ supports(Sess(h).signObject, Sess(h).signMechanism)
      BY DEF SignReady
    <2> DEFINE x == Sess(h)
               o == x.signObject
    <2>1. /\ h[1] \in Conns /\ h[2] \in SessionIDs /\ x = sessions[h[1]][h[2]] /\ x # NoSession
      BY DEF AllLive, Sess
    <2>2. o \in Range(x.objects) /\ supports(o, x.signMechanism)
      BY <2>1 DEF SessionInv, Told
    <2>3. x.objects \in Seq(Object) /\ Distinct(x.objects)
      BY <2>1 DEF BaseInv, Types, TypeOK, Session, Lists, Assigned
    <2> HIDE DEF x, o
    <2>4. o.id \in Handles(x.objects)
      BY <2>2, HandlesRange
    <2>5. o = object(x.objects, o.id)
      BY <2>2, <2>3, <2>4, ObjectLemma
    <2>6. QED
      BY <2>2, <2>4, <2>5 DEF x, o
  <1>2. QED
    BY <1>1, ClientsWellInformed, PTL

-----------------------------------------------------------------------------
\* Tokens.

TokenOnly ==
  /\ \A s \in Slots : \A o \in Range(token[s]) : o.id >= FirstID => IsToken(o)
  /\ \A c \in Conns : \A o \in Range(left[c]) : IsToken(o)

\* An object of a session that is neither configured nor a token object.
Own(x, o) == x # NoSession /\ o \in Range(x.objects) /\ o.id >= FirstID /\ ~IsToken(o)

Private ==
  \A c \in Conns, i \in SessionIDs : \A o \in Object : Own(sessions[c][i], o) =>
    /\ \A s \in Slots : o.id \notin Handles(token[s])
    /\ \A d \in Conns : o.id \notin Handles(left[d])
    /\ \A d \in Conns, j \in SessionIDs : (sessions[d][j] # NoSession /\ (c # d \/ i # j)) =>
         o.id \notin Handles(sessions[d][j].objects)

\* The slot of the session that connection c is answering for.
Target(c) == sessions[c][resp[c].sid].slot

\* The promises of connection c are on the token, or left to persist.
Keeping(c) ==
  \A k \in DOMAIN resp[c].promised :
    /\ sessions[c][resp[c].sid] # NoSession
    /\ resp[c].promised[k].id \in Handles(token[Target(c)]) \cup Handles(left[c])

Promised ==
  /\ \A c \in Conns : Keeping(c)
  /\ \A s \in Slots : acked[s] \subseteq Handles(token[s])

TokenInv == TokenOnly /\ Private /\ Promised

-----------------------------------------------------------------------------
\* The objects a slot provides beyond those of its token were configured.
LEMMA SnapshotLemma ==
  ASSUME BaseInv, NEW s \in Slots, NEW objs \in Snapshots(s)
  PROVE  \/ objs = token[s]
         \/ \A o \in Range(objs) : o.id \in 1 .. FirstID - 1 /\ o.key \notin FirstID .. MaxID
  <1>1. CASE s \notin Dynamic
    BY <1>1 DEF Snapshots
  <1>2. CASE s \in Dynamic
    <2>1. objs \in {Stored[s]} \cup Provided[s]
      BY <1>2 DEF Snapshots
    <2>2. \A k \in DOMAIN objs : /\ objs[k].id \in 1 .. FirstID - 1
                                 /\ objs[k].key \notin FirstID .. MaxID
      BY <2>1, ServerAssumption
    <2>3. QED
      BY <2>2 DEF Range
  <1>3. QED
    BY <1>1, <1>2

\* Every object in a list is an object.
LEMMA ElementLemma ==
  ASSUME BaseInv
  PROVE  /\ \A s \in Slots : Range(token[s]) \subseteq Object
         /\ \A c \in Conns : Range(left[c]) \subseteq Object
         /\ \A c \in Conns, i \in SessionIDs :
              sessions[c][i] # NoSession => Range(sessions[c][i].objects) \subseteq Object
  <1>1. \A q \in Seq(Object) : Range(q) \subseteq Object
    BY DEF Range
  <1>2. /\ \A s \in Slots : token[s] \in Seq(Object)
        /\ \A c \in Conns : left[c] \in Seq(Object)
        /\ \A c \in Conns, i \in SessionIDs :
             sessions[c][i] # NoSession => sessions[c][i].objects \in Seq(Object)
    BY DEF BaseInv, Types, TypeOK, Session
  <1>3. QED
    BY <1>1, <1>2

\* Objects and handles of the lists of a session that grows.
LEMMA GrownLists ==
  ASSUME BaseInv, NEW c \in Conns, NEW i \in SessionIDs, NEW new \in Seq(Object), Grows(c, i, new)
  PROVE  LET a == sessions[c][i].objects  b == sessions'[c][i].objects IN
         /\ Range(b) = Range(a) \cup Range(new)
         /\ Handles(b) = Handles(a) \cup Handles(new)
         /\ \A o \in Range(new) : /\ o \in Object /\ o.id >= nextID /\ o.id >= FirstID
                                  /\ \A p \in Range(new) : p.id = o.id => p = o
         /\ \A s \in Slots : \A id \in Handles(token[s]) : id < nextID
         /\ \A d \in Conns : \A id \in Handles(left[d]) : id < nextID
         /\ \A d \in Conns, j \in SessionIDs : sessions[d][j] # NoSession =>
              \A id \in Handles(sessions[d][j].objects) : id < nextID
         /\ \A id \in Handles(new) : id >= nextID
         /\ Handles(left'[c]) \subseteq Handles(new)
  <1> DEFINE a == sessions[c][i].objects
  <1>1. /\ sessions[c][i] # NoSession /\ sessions'[c][i].objects = a \o new
        /\ Distinct(new) /\ \A o \in Range(new) : o.id \in nextID .. nextID' - 1
        /\ Range(left'[c]) = {o \in Range(new) : IsToken(o)}
    BY DEF Grows
  <1>2. a \in Seq(Object) /\ nextID \in Nat /\ FirstID \in Nat /\ FirstID <= nextID
    BY <1>1, ServerAssumption DEF BaseInv, Types, TypeOK, Session
  <1>3. \A o \in Range(new) : o \in Object /\ o.id >= nextID /\ o.id >= FirstID
    <2>1. \A o \in Range(new) : o \in Object
      BY DEF Range
    <2>2. \A o \in Range(new) : o.id >= nextID /\ o.id >= FirstID
      BY <1>1, <1>2
    <2>3. QED
      BY <2>1, <2>2
  <1>4. \A o, p \in Range(new) : p.id = o.id => p = o
    BY <1>1 DEF Range, Distinct
  <1>5. \A objs : Assigned(objs, nextID) => \A id \in Handles(objs) : id < nextID
    BY <1>2, HandlesRange DEF Assigned
  <1>6. /\ Range(a \o new) = Range(a) \cup Range(new)
        /\ Handles(a \o new) = Handles(a) \cup Handles(new)
    BY <1>2, ConcatObjects
  <1>7. (\A id \in Handles(new) : id >= nextID) /\ Handles(left'[c]) \subseteq Handles(new)
    BY <1>1, <1>3, HandlesRange
  <1>8. QED
    BY <1>1, <1>3, <1>4, <1>5, <1>6, <1>7 DEF BaseInv, Lists

\* Objects and handles of the lists when an object is persisted.
LEMMA PersistLists ==
  ASSUME BaseInv, NEW c \in Conns, NEW s \in Slots, NEW o \in Object, ObjectPersisted(c, s, o)
  PROVE  /\ o \in Range(left[c]) /\ left[c][1] = o
         /\ Range(token'[s]) = Range(token[s]) \cup {o}
         /\ Handles(token'[s]) = Handles(token[s]) \cup {o.id}
         /\ Range(left[c]) = {o} \cup Range(left'[c])
         /\ Handles(left[c]) = {o.id} \cup Handles(left'[c])
  <1> DEFINE t == Tail(left[c])  a == <<o>>
  <1>1. /\ t \in Seq(Object) /\ left[c] = a \o t /\ left'[c] = t
        /\ token'[s] = token[s] \o a
    BY DEF ObjectPersisted
  <1>2. token[s] \in Seq(Object) /\ Distinct(left[c])
    BY DEF BaseInv, Types, TypeOK, Lists, Assigned
  <1>3. /\ Range(left[c]) = {o} \cup Range(t) /\ Handles(left[c]) = {o.id} \cup Handles(t)
    BY <1>1, <1>2, TailLemma
  <1>4. a \in Seq(Object) /\ Range(a) = {o} /\ Handles(a) = {o.id} /\ 1 \in DOMAIN a /\ a[1] = o
    <2>1. 1 \in DOMAIN a /\ a[1] = o
      OBVIOUS
    <2>2. QED
      BY <2>1, ShortLists
  <1> HIDE DEF a, t
  <1>5. /\ Range(token'[s]) = Range(token[s]) \cup {o}
        /\ Handles(token'[s]) = Handles(token[s]) \cup {o.id}
    BY <1>1, <1>2, <1>4, ConcatObjects
  <1>6. left[c][1] = o
    BY <1>1, <1>4, ConcatObjects
  <1>7. QED
    BY <1>1, <1>3, <1>5, <1>6

-----------------------------------------------------------------------------
\* Only token objects are on a token or left to persist, and the other objects
\* of a session are in no other list.
LEMMA PrivateStep ==
  ASSUME BaseInv, TokenOnly, Private, Next
  PROVE  TokenOnly' /\ Private'
  <1>1. BaseInv'
    BY NextBase
  <1>2. CASE Keeps
    <2>1. UNCHANGED <<token, left>>
      BY <1>2 DEF Keeps
    <2>2. \A d \in Conns, j \in SessionIDs : sessions'[d][j] # NoSession =>
             sessions[d][j] # NoSession /\ sessions'[d][j].objects = sessions[d][j].objects
      BY <1>2 DEF Keeps, KeepsOrEnds
    <2>3. TokenOnly'
      BY <2>1 DEF TokenOnly
    <2>4. Private'
      BY <2>1, <2>2 DEF Private, Own
    <2>5. QED
      BY <2>3, <2>4
  <1>3. CASE \E c \in Conns, s \in Slots, i \in SessionIDs :
               \E objs \in Snapshots(s) : SessionOpened(c, s, i, objs)
    <2>1. PICK c \in Conns, s \in Slots, i \in SessionIDs :
            \E objs \in Snapshots(s) : SessionOpened(c, s, i, objs)
      BY <1>3
    <2>2. PICK objs \in Snapshots(s) : SessionOpened(c, s, i, objs)
      BY <2>1
    <2>3. /\ sessions[c][i] = NoSession /\ UNCHANGED <<token, left>>
          /\ sessions'[c][i].objects = objs
          /\ \A d \in Conns, j \in SessionIDs : (d # c \/ j # i) => sessions'[d][j] = sessions[d][j]
      BY <2>2 DEF SessionOpened, Sets, NewSession
    <2>4. TokenOnly'
      BY <2>3 DEF TokenOnly
    <2>5. \A o \in Range(objs) : o.id >= FirstID => IsToken(o) /\ o.id \in Handles(token[s])
      <3>1. CASE objs = token[s]
        BY <3>1, HandlesRange DEF TokenOnly
      <3>2. CASE \A o \in Range(objs) : o.id \in 1 .. FirstID - 1
        BY <3>2, ServerAssumption
      <3>3. QED
        BY <3>1, <3>2, SnapshotLemma
    <2>6. Private'
      <3> SUFFICES ASSUME NEW d \in Conns, NEW j \in SessionIDs, NEW o \in Object,
                          Own(sessions'[d][j], o)
                   PROVE  /\ \A u \in Slots : o.id \notin Handles(token'[u])
                          /\ \A e \in Conns : o.id \notin Handles(left'[e])
                          /\ \A e \in Conns, k \in SessionIDs :
                               (sessions'[e][k] # NoSession /\ (d # e \/ j # k)) =>
                                 o.id \notin Handles(sessions'[e][k].objects)
        BY DEF Private
      <3>1. d # c \/ j # i
        BY <2>3, <2>5 DEF Own
      <3>2. Own(sessions[d][j], o)
        BY <2>3, <3>1
      <3>3. o.id \notin Handles(objs)
        <4>1. o.id \notin Handles(token[s]) /\ o.id >= FirstID
          BY <3>2 DEF Private, Own
        <4>2. QED
          BY <2>5, <4>1, HandlesRange
      <3>4. QED
        BY <2>3, <3>1, <3>2, <3>3 DEF Private
    <2>7. QED
      BY <2>4, <2>6
  <1>4. CASE \E c \in Conns, i \in SessionIDs, new \in Seq(Object) : Grows(c, i, new)
    <2>1. PICK c \in Conns, i \in SessionIDs, new \in Seq(Object) : Grows(c, i, new)
      BY <1>4
    <2> DEFINE a == sessions[c][i].objects  b == sessions'[c][i].objects
    <2>2. /\ sessions[c][i] # NoSession /\ token' = token
          /\ \A d \in Conns, j \in SessionIDs : (d # c \/ j # i) => sessions'[d][j] = sessions[d][j]
          /\ \A d \in Conns \ {c} : left'[d] = left[d]
          /\ Range(left'[c]) = {o \in Range(new) : IsToken(o)}
      BY <2>1 DEF Grows
    <2>3. /\ Range(b) = Range(a) \cup Range(new)
          /\ Handles(b) = Handles(a) \cup Handles(new)
          /\ \A o \in Range(new) : /\ o.id >= nextID
                                   /\ \A p \in Range(new) : p.id = o.id => p = o
      BY <2>1, GrownLists
    <2>4. /\ \A s \in Slots : \A id \in Handles(token[s]) : id < nextID
          /\ \A d \in Conns : \A id \in Handles(left[d]) : id < nextID
          /\ \A d \in Conns, j \in SessionIDs : sessions[d][j] # NoSession =>
               \A id \in Handles(sessions[d][j].objects) : id < nextID
          /\ \A id \in Handles(new) : id >= nextID
          /\ Handles(left'[c]) \subseteq Handles(new)
      BY <2>1, GrownLists
    <2> HIDE DEF a, b
    <2>5. TokenOnly'
      BY <2>2 DEF TokenOnly
    <2>6. nextID \in Nat
      BY DEF BaseInv, Types, TypeOK
    <2>7. Private'
      <3> SUFFICES ASSUME NEW d \in Conns, NEW j \in SessionIDs, NEW o \in Object,
                          Own(sessions'[d][j], o)
                   PROVE  /\ \A u \in Slots : o.id \notin Handles(token'[u])
                          /\ \A e \in Conns : o.id \notin Handles(left'[e])
                          /\ \A e \in Conns, k \in SessionIDs :
                               (sessions'[e][k] # NoSession /\ (d # e \/ j # k)) =>
                                 o.id \notin Handles(sessions'[e][k].objects)
        BY DEF Private
      <3>1. o.id \in Nat
        BY DEF Object
      <3>2. CASE Own(sessions[d][j], o)
        <4>1. o.id < nextID
          BY <2>4, <3>2, HandlesRange DEF Own
        <4>2. o.id \notin Handles(new)
          BY <2>4, <2>6, <3>1, <4>1
        <4>3. QED
          BY <2>2, <2>3, <2>4, <3>2, <4>2 DEF Private, a, b
      <3>3. CASE ~Own(sessions[d][j], o)
        <4>1. d = c /\ j = i /\ o \in Range(new) /\ ~IsToken(o)
          BY <2>2, <2>3, <3>3 DEF Own, a, b
        <4>2. o.id \notin Handles(left'[c])
          BY <2>2, <2>3, <4>1, HandlesRange
        <4>3. ~(o.id < nextID)
          BY <2>3, <2>6, <3>1, <4>1
        <4>4. QED
          BY <2>2, <2>4, <4>1, <4>2, <4>3
      <3>4. QED
        BY <3>2, <3>3
    <2>8. QED
      BY <2>5, <2>7
  <1>5. CASE \E c \in Conns : Persist(c)
    <2>1. PICK c \in Conns : Persist(c)
      BY <1>5
    <2>2. PICK s \in Slots, o \in Object : ObjectPersisted(c, s, o)
      BY <2>1, PersistEffect
    <2>3. /\ o \in Range(left[c])
          /\ Range(token'[s]) = Range(token[s]) \cup {o}
          /\ Handles(token'[s]) = Handles(token[s]) \cup {o.id}
          /\ Range(left[c]) = {o} \cup Range(left'[c])
          /\ Handles(left[c]) = {o.id} \cup Handles(left'[c])
      BY <2>2, PersistLists
    <2>4. /\ \A u \in Slots \ {s} : token'[u] = token[u]
          /\ \A d \in Conns \ {c} : left'[d] = left[d]
          /\ sessions' = sessions
      BY <2>2 DEF ObjectPersisted
    <2>5. TokenOnly'
      BY <2>3, <2>4 DEF TokenOnly
    <2>6. \A d \in Conns : Handles(left'[d]) \subseteq Handles(left[d])
      BY <2>3, <2>4
    <2>7. \A p : (\A d \in Conns : p \notin Handles(left[d])) /\ (\A u \in Slots : p \notin Handles(token[u]))
             => \A u \in Slots : p \notin Handles(token'[u])
      BY <2>3, <2>4
    <2>8. Private'
      <3> SUFFICES ASSUME NEW d \in Conns, NEW j \in SessionIDs, NEW p \in Object,
                          Own(sessions[d][j], p)
                   PROVE  /\ \A u \in Slots : p.id \notin Handles(token'[u])
                          /\ \A e \in Conns : p.id \notin Handles(left'[e])
                          /\ \A e \in Conns, k \in SessionIDs :
                               (sessions[e][k] # NoSession /\ (d # e \/ j # k)) =>
                                 p.id \notin Handles(sessions[e][k].objects)
        BY <2>4 DEF Private
      <3>1. /\ \A u \in Slots : p.id \notin Handles(token[u])
            /\ \A e \in Conns : p.id \notin Handles(left[e])
            /\ \A e \in Conns, k \in SessionIDs :
                 (sessions[e][k] # NoSession /\ (d # e \/ j # k)) =>
                   p.id \notin Handles(sessions[e][k].objects)
        BY DEF Private
      <3>2. QED
        BY <2>6, <2>7, <3>1
    <2>9. QED
      BY <2>5, <2>8
  <1>6. QED
    BY <1>2, <1>3, <1>4, <1>5, ListSteps

-----------------------------------------------------------------------------
\* The steps whose response may carry promises.
LEMMA PromiseSteps ==
  ASSUME BaseInv, NEW c \in Conns, Step(c)
  PROVE  \/ resp'[c].promised = << >> /\ UNCHANGED <<token, acked>>
         \/ GenerateKeyPair(c) \/ Persist(c) \/ Persisted(c) \/ Deliver(c)
  <1>1. Types /\ Phases
    BY DEF BaseInv
  <1>2. ASSUME NEW r, Answer(c, r) PROVE resp'[c] = r
    BY <1>1, <1>2, AnswerLemma DEF Turn
  <1>3. CASE Quiet(c)
    <2>1. PICK r : r.promised = << >> /\ Reply(c, r)
      BY <1>3 DEF Quiet
    <2>2. QED
      BY <1>2, <2>1 DEF Reply, ghosts
  <1>4. CASE Ends(c)
    BY <1>4, EndsEffect, RVLemma DEF Turn
  <1>5. CASE Connect(c)
    BY <1>1, <1>5, ConnectEffect DEF Phases
  <1>6. CASE OpenSession(c)
    <2>1. PICK s \in Slots, i \in SessionIDs : \E objs \in Snapshots(s) :
            SessionOpened(c, s, i, objs)
      BY <1>6, OpenSessionEffect
    <2>2. resp'[c] = [RV("CKR_OK") EXCEPT !.sid = i] /\ UNCHANGED <<token, acked>>
      BY <1>2, <2>1 DEF SessionOpened, ghosts
    <2>3. QED
      BY <2>2 DEF RV
  <1>7. ASSUME Answer(c, RV("CKR_OK")) PROVE resp'[c].promised = << >>
    BY <1>2, <1>7, RVLemma
  <1>8. CASE CloseSession(c) \/ FindObjectsInit(c) \/ FindObjectsFinal(c)
               \/ SignInit(c) \/ SignUpdate(c)
    BY <1>7, <1>8 DEF CloseSession, FindObjectsInit, FindObjectsFinal, SignInit, SignUpdate
  <1>9. CASE FindObjects(c)
    <2>1. PICK i \in SessionIDs, y \in Session, z \in SearchState, batch \in Seq(Nat) :
            SearchServed(c, i, y, z, batch)
      BY <1>9, FindObjectsEffect
    <2>2. /\ resp'[c] = [RV("CKR_OK") EXCEPT !.sid = i, !.handles = batch, !.call = "FindObjects"]
          /\ UNCHANGED <<token, acked>>
      BY <1>2, <2>1 DEF SearchServed
    <2>3. QED
      BY <2>2 DEF RV
  <1>10. CASE DeriveKey(c)
    <2>1. PICK i \in SessionIDs, y \in Session, o \in Object : SecretMade(c, i, y, o)
      BY <1>10, DeriveEffect
    <2>2. /\ resp'[c] = [RV("CKR_OK") EXCEPT !.sid = i, !.handles = <<nextID>>]
          /\ UNCHANGED <<token, acked>>
      BY <1>2, <2>1 DEF SecretMade, ghosts
    <2>3. QED
      BY <2>2 DEF RV
  <1>11. QED
    BY <1>3, <1>4, <1>5, <1>6, <1>8, <1>9, <1>10 DEF Step

\* A connection that does not take the step keeps its promises.
LEMMA PromiseFrame ==
  ASSUME Types, Promised, NEW c \in Conns, Frame(c),
         \A s \in Slots : Handles(token[s]) \subseteq Handles(token'[s]),
         Keeping(c)',
         \A s \in Slots : acked'[s] \subseteq Handles(token'[s])
  PROVE  Promised'
  <1>1. ASSUME NEW d \in Conns \ {c} PROVE Keeping(d)'
    <2>1. /\ resp'[d] = resp[d] /\ left'[d] = left[d]
          /\ sessions'[d][resp[d].sid] = sessions[d][resp[d].sid]
      BY DEF Frame, Types, Response
    <2>2. Keeping(d)
      BY DEF Promised
    <2>3. Target(d)' = Target(d)
      BY <2>1 DEF Target
    <2>4. sessions[d][resp[d].sid] # NoSession => Target(d) \in Slots
      BY DEF Types, TypeOK, Response, Session, Target
    <2>5. QED
      BY <2>1, <2>2, <2>3, <2>4 DEF Keeping
  <1>2. QED
    BY <1>1 DEF Promised

\* Promises are kept: every step preserves Promised.
LEMMA PromisedStep ==
  ASSUME BaseInv, Promised, Next
  PROVE  Promised'
  <1>1. PICK c \in Conns : Step(c)
    BY StepKinds
  <1>2. Types /\ Phases /\ Types' /\ Frame(c)
    BY <1>1, TypesStep DEF BaseInv
  <1>3. Keeping(c) /\ \A s \in Slots : acked[s] \subseteq Handles(token[s])
    BY DEF Promised
  <1>4. resp[c].sid \in SessionIDs
    BY <1>2 DEF Types, Response
  <1>5. CASE resp'[c].promised = << >> /\ UNCHANGED <<token, acked>>
    BY <1>2, <1>3, <1>5, PromiseFrame DEF Keeping
  <1>6. CASE GenerateKeyPair(c)
    <2>1. PICK i \in SessionIDs, y \in Session, pub \in Object, priv \in Object :
            PairMade(c, i, y, pub, priv)
      BY <1>6, GenerateEffect
    <2> DEFINE t == TokenOnes(pub, priv)
               r == KeyPairResponse(i, pub, priv)
    <2>2. /\ Sets(c, i, y) /\ left' = [left EXCEPT ![c] = t]
          /\ resp' = [resp EXCEPT ![c] = r] /\ UNCHANGED <<token, acked>>
      BY <2>1 DEF PairMade, ghosts
    <2>3. r.sid = i /\ r.promised = t
      BY DEF KeyPairResponse, RV
    <2> HIDE DEF t, r
    <2>4. left'[c] = t /\ resp'[c] = r /\ sessions'[c][i] # NoSession
      BY <1>2, <2>2, ServerAssumption DEF Types, TypeOK, Sets
    <2>5. \A k \in DOMAIN t : t[k].id \in Handles(t)
      BY DEF Handles
    <2>6. Keeping(c)'
      BY <2>3, <2>4, <2>5 DEF Keeping
    <2>7. QED
      BY <1>2, <1>3, <2>2, <2>6, PromiseFrame
  <1>7. CASE Persist(c)
    <2>1. PICK s \in Slots, o \in Object : ObjectPersisted(c, s, o)
      BY <1>7, PersistEffect
    <2>2. /\ Handles(token'[s]) = Handles(token[s]) \cup {o.id}
          /\ Handles(left[c]) = {o.id} \cup Handles(left'[c])
      BY <2>1, PersistLists
    <2>3. /\ s = Target(c) /\ \A u \in Slots \ {s} : token'[u] = token[u]
          /\ UNCHANGED <<sessions, resp, acked>>
      BY <2>1 DEF ObjectPersisted, Target
    <2>4. Keeping(c)'
      BY <1>3, <2>2, <2>3 DEF Keeping, Target
    <2>5. \A u \in Slots : Handles(token[u]) \subseteq Handles(token'[u])
      BY <2>2, <2>3
    <2>6. \A u \in Slots : acked'[u] \subseteq Handles(token'[u])
      BY <1>3, <2>3, <2>5
    <2>7. QED
      BY <1>2, <2>4, <2>5, <2>6, PromiseFrame
  <1>8. CASE Persisted(c)
    <2>1. UNCHANGED <<token, sessions, left, resp, acked>>
      BY <1>8 DEF Persisted, ghosts
    <2>2. QED
      BY <1>2, <1>3, <2>1, PromiseFrame DEF Keeping, Target
  <1>9. CASE Deliver(c)
    <2>1. /\ phase[c] = "reply" /\ resp'[c] = RV("none")
          /\ \A s \in Slots : \A id \in acked'[s] :
               \/ id \in acked[s]
               \/ /\ s = Target(c)
                  /\ \E k \in DOMAIN resp[c].promised : id = resp[c].promised[k].id
          /\ UNCHANGED <<token, sessions, left>>
      BY <1>9, DeliverEffect DEF Turn, Target
    <2>2. Handles(left[c]) = {}
      <3>1. left[c] = << >>
        BY <1>2, <2>1 DEF Phases
      <3>2. QED
        BY <3>1 DEF Handles
    <2>3. \A s \in Slots : acked'[s] \subseteq Handles(token'[s])
      BY <1>3, <2>1, <2>2 DEF Keeping
    <2>4. Keeping(c)'
      BY <2>1, RVLemma DEF Keeping
    <2>5. QED
      BY <1>2, <2>1, <2>3, <2>4, PromiseFrame
  <1>10. QED
    BY <1>1, <1>5, <1>6, <1>7, <1>8, <1>9, PromiseSteps

-----------------------------------------------------------------------------
\* At the start there are configured objects only, and nothing was promised.
LEMMA InitToken ==
  ASSUME Init
  PROVE  TokenInv
  <1>1. BaseInv
    BY InitBase
  <1>2. FirstID \in Nat \ {0} /\ nextID = FirstID
    BY ServerAssumption DEF Init
  <1>3. Range(<< >>) = {}
    BY DEF Range
  <1>4. TokenOnly
    <2>1. \A s \in Slots : \A o \in Range(token[s]) : o.id \in 1 .. FirstID - 1
      BY <1>1, <1>2 DEF BaseInv, Lists, Assigned
    <2>2. \A c \in Conns : Range(left[c]) = {}
      BY <1>3 DEF Init
    <2>3. QED
      BY <1>2, <2>1, <2>2 DEF TokenOnly
  <1>5. Private
    BY DEF Init, Private, Own, NoSessions
  <1>6. Promised
    BY RVLemma DEF Init, Promised, Keeping
  <1>7. QED
    BY <1>4, <1>5, <1>6 DEF TokenInv

\* Which objects sessions share, and which are promised to later sessions.
THEOREM TokensConsistent == Spec => [](BaseInv /\ TokenInv)
  <1>1. Init => TokenInv
    BY InitToken
  <1>2. BaseInv /\ TokenInv /\ [Next]_vars => TokenInv'
    <2>1. CASE UNCHANGED vars
      BY <2>1 DEF TokenInv, TokenOnly, Private, Promised, Keeping, Target, vars
    <2>2. QED
      BY <2>1, PrivateStep, PromisedStep DEF TokenInv
  <1>3. QED
    BY <1>1, <1>2, ListsConsistent, PTL DEF Spec

\* What a client generates or derives without CKA_TOKEN never shows up in another
\* session, of this or another connection.
THEOREM SessionObjectsPrivate == Spec => []SessionPrivate
  <1>1. BaseInv /\ TokenInv => SessionPrivate
    <2> SUFFICES ASSUME BaseInv, TokenInv, NEW h \in AllLive, NEW g \in AllLive, h # g,
                        NEW k \in DOMAIN Sess(h).objects, Sess(h).objects[k].id >= FirstID,
                        Sess(h).objects[k].id \in Handles(Sess(g).objects)
                 PROVE  IsToken(Sess(h).objects[k])
      BY DEF SessionPrivate
    <2> DEFINE o == Sess(h).objects[k]
    <2>1. /\ h[1] \in Conns /\ h[2] \in SessionIDs /\ g[1] \in Conns /\ g[2] \in SessionIDs
          /\ Sess(h) = sessions[h[1]][h[2]] /\ Sess(h) # NoSession
          /\ Sess(g) = sessions[g[1]][g[2]] /\ Sess(g) # NoSession
          /\ h[1] # g[1] \/ h[2] # g[2]
      BY DEF AllLive, Sess
    <2>2. o \in Range(Sess(h).objects) /\ o \in Object
      BY <2>1, ElementLemma DEF Range
    <2>3. QED
      BY <2>1, <2>2 DEF TokenInv, Private, Own
  <1>2. QED
    BY <1>1, TokensConsistent, PTL

\* No step opens a session that lacks a token object whose creation was
\* acknowledged, where the session copies the token's objects.
LEMMA OpensStep ==
  ASSUME Dynamic = {}, BaseInv, TokenInv, Next
  PROVE  OpensWithAcked
  <1> SUFFICES ASSUME NEW c \in Conns, NEW i \in SessionIDs,
                      sessions[c][i] = NoSession, sessions'[c][i] # NoSession
               PROVE  acked[sessions'[c][i].slot] \subseteq Handles(sessions'[c][i].objects)
    BY DEF OpensWithAcked
  <1>1. CASE Keeps
    BY <1>1 DEF Keeps, KeepsOrEnds
  <1>2. CASE \E d \in Conns, s \in Slots, j \in SessionIDs :
               \E objs \in Snapshots(s) : SessionOpened(d, s, j, objs)
    <2>1. PICK d \in Conns, s \in Slots, j \in SessionIDs :
            \E objs \in Snapshots(s) : SessionOpened(d, s, j, objs)
      BY <1>2
    <2>2. PICK objs \in Snapshots(s) : SessionOpened(d, s, j, objs)
      BY <2>1
    <2>3. d = c /\ j = i /\ sessions'[c][i] = NewSession(s, objs)
      BY <2>2 DEF SessionOpened, Sets
    <2>4. objs = token[s]
      BY DEF Snapshots
    <2>5. QED
      BY <2>3, <2>4 DEF NewSession, TokenInv, Promised
  <1>3. CASE \E d \in Conns, j \in SessionIDs, new \in Seq(Object) : Grows(d, j, new)
    BY <1>3 DEF Grows
  <1>4. CASE \E d \in Conns : Persist(d)
    BY <1>4 DEF Persist
  <1>5. QED
    BY <1>1, <1>2, <1>3, <1>4, ListSteps

\* Token objects persist: a session opened after the client learned of the
\* creation of one has it.  Slots with a GetObjects function have no such
\* promise: their sessions never see what was persisted.
THEOREM TokenObjectsPersist ==
  ASSUME Dynamic = {}
  PROVE  Spec => LaterSessionsSee
  <1>1. BaseInv /\ TokenInv /\ [Next]_vars => [OpensWithAcked]_vars
    BY OpensStep
  <1>2. QED
    BY <1>1, TokensConsistent, PTL DEF Spec, LaterSessionsSee

-----------------------------------------------------------------------------
\* Key pairs.  A list that has a generated private key has the public key too,
\* if that is a token object, wherever that object is known; what is left to
\* persist may have it still ahead of it.

IsPair(o, p) == /\ o.id >= FirstID /\ o.half = "priv"
                /\ p.half = "pub" /\ p.key = o.key /\ IsToken(p)

\* p is in some list.
Known(p) ==
  \/ \E s \in Slots : p \in Range(token[s])
  \/ \E c \in Conns : p \in Range(left[c])
  \/ \E c \in Conns, i \in SessionIDs :
       sessions[c][i] # NoSession /\ p \in Range(sessions[c][i].objects)

Paired(objs) == \A o \in Range(objs), p \in Object : Known(p) /\ IsPair(o, p) => p.id \in Handles(objs)

\* What connection c has left to persist.
LeftPaired(c) ==
  \A o \in Range(left[c]), p \in Object : Known(p) /\ IsPair(o, p) =>
    p.id \in Handles(token[Target(c)]) \/ p.id = left[c][1].id

PairInv ==
  /\ \A o \in Object : Known(o) => Shape(o)
  /\ \A s \in Slots : Paired(token[s])
  /\ \A c \in Conns, i \in SessionIDs :
       sessions[c][i] # NoSession => Paired(sessions[c][i].objects)
  /\ \A c \in Conns : LeftPaired(c)

\* The handles of a pair.
LEMMA PairHandles ==
  ASSUME NEW o \in Object, NEW p \in Object, Shape(o), Shape(p), IsPair(o, p)
  PROVE  /\ o.key \in FirstID .. MaxID
         /\ p.id = o.key /\ o.id = p.id + 1 /\ p.id >= FirstID
  <1>1. FirstID \in Nat /\ MaxID \in Nat /\ o.id \in Nat /\ p.id \in Nat /\ o.key \in Nat
    BY ServerAssumption DEF Object
  <1>2. o.key \in FirstID .. MaxID /\ o.id = o.key + 1
    BY <1>1 DEF Shape, IsPair
  <1>3. p.id = o.key
    BY <1>1, <1>2 DEF Shape, IsPair
  <1>4. QED
    BY <1>1, <1>2, <1>3

\* The session a connection persists for stays, as long as there is something to
\* persist.
LEMMA TargetStep ==
  ASSUME BaseInv, Next, NEW c \in Conns, left[c] # << >>
  PROVE  Target(c)' = Target(c) /\ Target(c) \in Slots
  <1>1. PICK d \in Conns : Step(d)
    BY StepKinds
  <1>2. Types /\ Phases /\ Frame(d)
    BY <1>1, TypesStep DEF BaseInv
  <1>3. /\ resp[c].sid \in SessionIDs /\ phase[c] = "persist"
        /\ sessions[c][resp[c].sid] # NoSession /\ sessions[c][resp[c].sid] \in Session
    BY <1>2 DEF Types, TypeOK, Response, Phases
  <1>4. Target(c) \in Slots
    BY <1>3 DEF Target, Session
  <1>5. CASE d # c
    BY <1>2, <1>3, <1>4, <1>5 DEF Frame, Target
  <1>6. CASE d = c
    <2>1. \A r : ~Answer(c, r)
      BY <1>3 DEF Answer
    <2>2. ~Quiet(c) /\ ~Ends(c) /\ ~Connect(c) /\ ~Deliver(c)
      BY <1>3, <2>1 DEF Quiet, Reply, Ends, Connect, Deliver
    <2>3. /\ ~OpenSession(c) /\ ~CloseSession(c) /\ ~FindObjectsInit(c) /\ ~FindObjects(c)
          /\ ~FindObjectsFinal(c)
      BY <2>1 DEF OpenSession, CloseSession, FindObjectsInit, FindObjects, FindObjectsFinal
    <2>4. ~SignInit(c) /\ ~SignUpdate(c) /\ ~GenerateKeyPair(c) /\ ~DeriveKey(c)
      BY <1>3, <2>1 DEF SignInit, SignUpdate, GenerateKeyPair, DeriveKey
    <2>5. Persist(c) \/ Persisted(c)
      BY <1>1, <1>6, <2>2, <2>3, <2>4 DEF Step
    <2>6. UNCHANGED <<sessions, resp>>
      BY <2>5 DEF Persist, Persisted
    <2>7. QED
      BY <1>4, <2>6 DEF Target
  <1>7. QED
    BY <1>5, <1>6

\* A list is paired when nothing is known but what was, and configured objects.
LEMMA PairedKnown ==
  ASSUME PairInv, NEW objs, Paired(objs), \A o \in Range(objs) : o \in Object /\ Shape(o),
         \A p \in Object : Known(p)' => Known(p) \/ p.key \notin FirstID .. MaxID
  PROVE  \A o \in Range(objs), p \in Object : Known(p)' /\ IsPair(o, p) => p.id \in Handles(objs)
  <1> SUFFICES ASSUME NEW o \in Range(objs), NEW p \in Object, Known(p)', IsPair(o, p)
               PROVE  p.id \in Handles(objs)
    OBVIOUS
  <1>1. p.key \in FirstID .. MaxID
    <2>1. o.key \in FirstID .. MaxID
      <3>1. FirstID \in Nat /\ o.id \in Nat
        BY ServerAssumption DEF Object
      <3>2. QED
        BY <3>1 DEF Shape, IsPair
    <2>2. QED
      BY <2>1 DEF IsPair
  <1>2. QED
    BY <1>1 DEF Paired

\* Every step preserves the invariant.
LEMMA PairStep ==
  ASSUME BaseInv, PairInv, Next
  PROVE  PairInv'
  <1>1. /\ FirstID \in Nat /\ nextID \in Nat
        /\ \A o \in Object : o.id \in Nat /\ o.key \in Nat
    BY ServerAssumption DEF BaseInv, Types, TypeOK, Object
  <1>2. /\ \A s \in Slots : \A o \in Range(token[s]) : o \in Object /\ Known(o) /\ Shape(o)
        /\ \A c \in Conns : \A o \in Range(left[c]) : o \in Object /\ Known(o) /\ Shape(o)
        /\ \A c \in Conns, i \in SessionIDs : sessions[c][i] # NoSession =>
             \A o \in Range(sessions[c][i].objects) : o \in Object /\ Known(o) /\ Shape(o)
    BY ElementLemma DEF PairInv, Known
  <1>3. \A p \in Object : Known(p) => p.id < nextID
    BY <1>1 DEF Known, BaseInv, Lists, Assigned
  <1>4. \A c \in Conns : left[c] # << >> => Target(c)' = Target(c) /\ Target(c) \in Slots
    BY TargetStep
  <1>5. \A c \in Conns : \A o \in Range(left[c]) : left[c] # << >>
    BY DEF Range
  <1>6. ASSUME UNCHANGED <<token, left>>,
               \A p \in Object : Known(p)' => Known(p) \/ p.key \notin FirstID .. MaxID,
               \A p \in Object : Known(p)' => Shape(p),
               \A c \in Conns, i \in SessionIDs : sessions'[c][i] # NoSession =>
                 /\ Paired(sessions'[c][i].objects)
                 /\ \A o \in Range(sessions'[c][i].objects) : o \in Object /\ Shape(o)
        PROVE  PairInv'
    <2>1. \A s \in Slots : Paired(token[s])'
      <3> TAKE s \in Slots
      <3>1. Paired(token[s]) /\ \A o \in Range(token[s]) : o \in Object /\ Shape(o)
        BY <1>2 DEF PairInv
      <3>2. QED
        BY <1>6, <3>1, PairedKnown DEF Paired
    <2>2. \A c \in Conns, i \in SessionIDs :
             (sessions[c][i] # NoSession)' => Paired(sessions[c][i].objects)'
      BY <1>6, PairedKnown DEF Paired
    <2>3. \A c \in Conns : LeftPaired(c)'
      <3> SUFFICES ASSUME NEW c \in Conns, NEW o \in Range(left'[c]), NEW p \in Object,
                          Known(p)', IsPair(o, p)
                   PROVE  p.id \in Handles(token'[Target(c)']) \/ p.id = left'[c][1].id
        BY DEF LeftPaired
      <3>1. o \in Range(left[c]) /\ o \in Object /\ Shape(o) /\ Target(c)' = Target(c)
        BY <1>2, <1>4, <1>5, <1>6
      <3>2. p.key \in FirstID .. MaxID
        BY <1>1, <3>1 DEF Shape, IsPair
      <3>3. LeftPaired(c) /\ Known(p)
        BY <1>6, <3>2 DEF PairInv
      <3>4. QED
        BY <1>6, <3>1, <3>3 DEF LeftPaired
    <2>4. QED
      BY <1>6, <2>1, <2>2, <2>3 DEF PairInv
  <1>7. CASE Keeps
    <2>1. UNCHANGED <<token, left>>
      BY <1>7 DEF Keeps
    <2>2. \A d \in Conns, j \in SessionIDs : sessions'[d][j] # NoSession =>
             sessions[d][j] # NoSession /\ sessions'[d][j].objects = sessions[d][j].objects
      BY <1>7 DEF Keeps, KeepsOrEnds
    <2>3. \A p \in Object : Known(p)' => Known(p)
      BY <2>1, <2>2 DEF Known
    <2>4. QED
      BY <1>2, <1>6, <2>1, <2>2, <2>3 DEF PairInv
  <1>8. CASE \E c \in Conns, s \in Slots, i \in SessionIDs :
               \E objs \in Snapshots(s) : SessionOpened(c, s, i, objs)
    <2>1. PICK c \in Conns, s \in Slots, i \in SessionIDs :
            \E objs \in Snapshots(s) : SessionOpened(c, s, i, objs)
      BY <1>8
    <2>2. PICK objs \in Snapshots(s) : SessionOpened(c, s, i, objs)
      BY <2>1
    <2>3. /\ sessions[c][i] = NoSession /\ UNCHANGED <<token, left>>
          /\ objs \in Seq(Object)
          /\ sessions'[c][i].objects = objs
          /\ \A d \in Conns, j \in SessionIDs : (d # c \/ j # i) => sessions'[d][j] = sessions[d][j]
      BY <2>2 DEF SessionOpened, Sets, NewSession
    <2>4. \A o \in Range(objs) : o \in Object
      BY <2>3 DEF Range
    <2>5. \/ objs = token[s]
          \/ \A o \in Range(objs) : o.id < FirstID /\ o.key \notin FirstID .. MaxID
      BY <1>1, SnapshotLemma
    <2>6. /\ Paired(objs)
          /\ \A o \in Range(objs) : Shape(o) /\ (Known(o) \/ o.key \notin FirstID .. MaxID)
      <3>1. CASE objs = token[s]
        BY <1>2, <3>1 DEF PairInv
      <3>2. CASE \A o \in Range(objs) : o.id < FirstID /\ o.key \notin FirstID .. MaxID
        <4>1. \A o \in Range(objs) : ~(o.id >= FirstID)
          BY <1>1, <2>4, <3>2
        <4>2. QED
          BY <3>2, <4>1 DEF Paired, IsPair, Shape
      <3>3. QED
        BY <2>5, <3>1, <3>2
    <2>7. \A p \in Object : Known(p)' => Known(p) \/ p \in Range(objs)
      BY <2>3 DEF Known
    <2>8. \A p \in Object : Known(p)' => Shape(p) /\ (Known(p) \/ p.key \notin FirstID .. MaxID)
      BY <2>6, <2>7 DEF PairInv
    <2>9. \A d \in Conns, j \in SessionIDs : sessions'[d][j] # NoSession =>
             /\ Paired(sessions'[d][j].objects)
             /\ \A o \in Range(sessions'[d][j].objects) : o \in Object /\ Shape(o)
      <3> SUFFICES ASSUME NEW d \in Conns, NEW j \in SessionIDs, sessions'[d][j] # NoSession
                   PROVE  /\ Paired(sessions'[d][j].objects)
                          /\ \A o \in Range(sessions'[d][j].objects) : o \in Object /\ Shape(o)
        OBVIOUS
      <3>1. CASE d = c /\ j = i
        BY <2>3, <2>4, <2>6, <3>1
      <3>2. CASE d # c \/ j # i
        BY <1>2, <2>3, <3>2 DEF PairInv
      <3>3. QED
        BY <3>1, <3>2
    <2>10. QED
      BY <1>6, <2>3, <2>8, <2>9
  <1>9. CASE \E c \in Conns, i \in SessionIDs, new \in Seq(Object) : Grows(c, i, new)
    <2>1. PICK c \in Conns, i \in SessionIDs, new \in Seq(Object) : Grows(c, i, new)
      BY <1>9
    <2> DEFINE a == sessions[c][i].objects  b == sessions'[c][i].objects
    <2>2. /\ sessions[c][i] # NoSession /\ token' = token
          /\ \A d \in Conns, j \in SessionIDs : (d # c \/ j # i) => sessions'[d][j] = sessions[d][j]
          /\ \A d \in Conns \ {c} : left'[d] = left[d]
          /\ Range(left'[c]) = {o \in Range(new) : IsToken(o)}
          /\ \A o \in Range(new) : Shape(o) /\ (o.half \in {"pub", "priv"} => o.key = nextID)
          /\ \A o \in Range(left'[c]) : o.half = "pub" => left'[c][1] = o
      BY <2>1 DEF Grows
    <2>3. /\ Range(b) = Range(a) \cup Range(new)
          /\ Handles(b) = Handles(a) \cup Handles(new)
          /\ \A o \in Range(new) : o \in Object /\ o.id >= nextID
      BY <2>1, GrownLists
    <2> HIDE DEF a, b
    <2>4. \A p \in Object : Known(p)' => Known(p) \/ p \in Range(new)
      BY <2>2, <2>3 DEF Known, a, b
    <2>5. \A p \in Object : Known(p)' => Shape(p)
      BY <2>2, <2>4 DEF PairInv
    <2>6. ASSUME NEW o \in Object, NEW p \in Object, Known(o) \/ o \in Range(new), Known(p)',
                 IsPair(o, p)
          PROVE  (Known(o) /\ Known(p)) \/ (o \in Range(new) /\ p \in Range(new))
      <3>1. Shape(o) /\ Shape(p)
        BY <2>2, <2>5, <2>6 DEF PairInv
      <3>2. p.id = o.key /\ o.id = p.id + 1 /\ p.key = o.key
        BY <2>6, <3>1, PairHandles DEF IsPair
      <3>3. CASE o \in Range(new)
        <4>1. p.id = nextID
          BY <2>2, <2>6, <3>2, <3>3 DEF IsPair
        <4>2. QED
          BY <1>1, <1>3, <2>4, <2>6, <3>3, <4>1
      <3>4. CASE Known(o)
        <4>1. o.id < nextID
          BY <1>3, <3>4
        <4>2. p \notin Range(new)
          BY <1>1, <2>3, <3>2, <4>1
        <4>3. QED
          BY <2>4, <2>6, <3>4, <4>2
      <3>5. QED
        BY <2>6, <3>3, <3>4
    <2>7. ASSUME NEW objs, \A o \in Range(objs) : o \in Object /\ Known(o), Paired(objs),
                 NEW o \in Range(objs), NEW p \in Object, Known(p)', IsPair(o, p)
          PROVE  p.id \in Handles(objs)
      <3>1. Known(p) \/ o \in Range(new)
        BY <2>6, <2>7
      <3>2. o \notin Range(new)
        BY <1>1, <1>3, <2>3, <2>7
      <3>3. QED
        BY <2>7, <3>1, <3>2 DEF Paired
    <2>8. \A s \in Slots : Paired(token[s])'
      <3> TAKE s \in Slots
      <3>1. Paired(token[s]) /\ \A o \in Range(token[s]) : o \in Object /\ Known(o)
        BY <1>2 DEF PairInv
      <3>2. QED
        BY <2>2, <2>7, <3>1 DEF Paired
    <2>9. ASSUME NEW d \in Conns, NEW j \in SessionIDs, sessions'[d][j] # NoSession
          PROVE  Paired(sessions[d][j].objects)'
      <3>1. CASE d # c \/ j # i
        <4>1. /\ sessions[d][j] # NoSession /\ sessions'[d][j] = sessions[d][j]
              /\ Paired(sessions[d][j].objects)
              /\ \A o \in Range(sessions[d][j].objects) : o \in Object /\ Known(o)
          BY <1>2, <2>2, <2>9, <3>1 DEF PairInv
        <4>2. QED
          BY <2>7, <4>1 DEF Paired
      <3>2. CASE d = c /\ j = i
        <4>1. Paired(a) /\ \A o \in Range(a) : o \in Object /\ Known(o)
          BY <1>2, <2>2 DEF PairInv, a
        <4>2. ASSUME NEW o \in Range(b), NEW p \in Object, Known(p)', IsPair(o, p)
              PROVE  p.id \in Handles(b)
          <5>1. CASE o \in Range(a)
            BY <2>3, <2>7, <4>1, <4>2, <5>1
          <5>2. CASE o \in Range(new)
            <6>1. ~Known(o) /\ o \in Object
              BY <1>1, <1>3, <2>3, <5>2
            <6>2. p \in Range(new)
              BY <2>6, <4>2, <5>2, <6>1
            <6>3. QED
              BY <2>3, <6>2, HandlesRange
          <5>3. QED
            BY <2>3, <4>2, <5>1, <5>2
        <4>3. QED
          BY <3>2, <4>2 DEF Paired, b
      <3>3. QED
        BY <3>1, <3>2
    <2>10. ASSUME NEW d \in Conns PROVE LeftPaired(d)'
      <3> SUFFICES ASSUME NEW o \in Range(left'[d]), NEW p \in Object, Known(p)', IsPair(o, p)
                   PROVE  p.id \in Handles(token'[Target(d)']) \/ p.id = left'[d][1].id
        BY DEF LeftPaired
      <3>1. CASE d # c
        <4>1. /\ left'[d] = left[d] /\ o \in Object /\ Known(o) /\ Target(d)' = Target(d)
          BY <1>2, <1>4, <1>5, <2>2, <3>1
        <4>2. o \notin Range(new)
          BY <1>1, <1>3, <2>3, <4>1
        <4>3. Known(p)
          BY <2>6, <4>1, <4>2
        <4>4. QED
          BY <2>2, <4>1, <4>3 DEF PairInv, LeftPaired
      <3>2. CASE d = c
        <4>1. o \in Range(new) /\ o \in Object /\ ~Known(o)
          BY <1>1, <1>3, <2>2, <2>3, <3>2
        <4>2. p \in Range(new) /\ IsToken(p) /\ p.half = "pub"
          BY <2>6, <4>1 DEF IsPair
        <4>3. QED
          BY <2>2, <3>2, <4>2
      <3>3. QED
        BY <3>1, <3>2
    <2>11. QED
      BY <2>5, <2>8, <2>9, <2>10 DEF PairInv
  <1>10. CASE \E c \in Conns : Persist(c)
    <2>1. PICK c \in Conns : Persist(c)
      BY <1>10
    <2>2. PICK s \in Slots, o \in Object : ObjectPersisted(c, s, o)
      BY <2>1, PersistEffect
    <2>3. /\ o \in Range(left[c]) /\ left[c][1] = o
          /\ Range(token'[s]) = Range(token[s]) \cup {o}
          /\ Handles(token'[s]) = Handles(token[s]) \cup {o.id}
          /\ Range(left[c]) = {o} \cup Range(left'[c])
      BY <2>2, PersistLists
    <2>4. /\ s = Target(c)
          /\ \A u \in Slots \ {s} : token'[u] = token[u]
          /\ \A d \in Conns \ {c} : left'[d] = left[d]
          /\ UNCHANGED <<sessions, resp>>
      BY <2>2 DEF ObjectPersisted, Target
    <2>5. \A p \in Object : Known(p)' => Known(p)
      BY <2>3, <2>4 DEF Known
    <2>6. \A p \in Object : Known(p)' => Shape(p)
      BY <2>5 DEF PairInv
    <2>7. \A u \in Slots : Handles(token[u]) \subseteq Handles(token'[u])
      BY <2>3, <2>4
    <2>8. ASSUME NEW u \in Slots PROVE Paired(token[u])'
      <3> SUFFICES ASSUME NEW q \in Range(token'[u]), NEW p \in Object, Known(p)', IsPair(q, p)
                   PROVE  p.id \in Handles(token'[u])
        BY DEF Paired
      <3>1. Known(p)
        BY <2>5
      <3>2. CASE q \in Range(token[u])
        BY <2>7, <3>1, <3>2 DEF PairInv, Paired
      <3>3. CASE q \notin Range(token[u])
        <4>1. u = s /\ q = o
          BY <2>3, <2>4, <3>3
        <4>2. p.id \in Handles(token[s]) \/ p.id = o.id
          BY <2>3, <2>4, <3>1, <4>1 DEF PairInv, LeftPaired
        <4>3. o.id = p.id + 1
          <5>1. Shape(o) /\ Shape(p)
            BY <1>2, <2>3, <2>6
          <5>2. QED
            BY <4>1, <5>1, PairHandles
        <4>4. QED
          BY <1>1, <2>7, <4>1, <4>2, <4>3
      <3>4. QED
        BY <3>2, <3>3
    <2>9. \A d \in Conns, j \in SessionIDs :
             (sessions[d][j] # NoSession)' => Paired(sessions[d][j].objects)'
      BY <2>4, <2>5 DEF PairInv, Paired
    <2>10. ASSUME NEW d \in Conns PROVE LeftPaired(d)'
      <3> SUFFICES ASSUME NEW q \in Range(left'[d]), NEW p \in Object, Known(p)', IsPair(q, p)
                   PROVE  p.id \in Handles(token'[Target(d)']) \/ p.id = left'[d][1].id
        BY DEF LeftPaired
      <3>1. q \in Range(left[d]) /\ Known(p)
        BY <2>3, <2>4, <2>5
      <3>2. p.id \in Handles(token[Target(d)]) \/ p.id = left[d][1].id
        BY <3>1 DEF PairInv, LeftPaired
      <3>3. Target(d)' = Target(d) /\ Target(d) \in Slots
        BY <1>4, <1>5, <3>1
      <3>4. CASE d = c
        BY <2>3, <2>4, <2>7, <3>2, <3>3, <3>4
      <3>5. CASE d # c
        BY <2>4, <2>7, <3>2, <3>3, <3>5
      <3>6. QED
        BY <3>4, <3>5
    <2>11. QED
      BY <2>6, <2>8, <2>9, <2>10 DEF PairInv
  <1>11. QED
    BY <1>7, <1>8, <1>9, <1>10, ListSteps

\* The configured objects hold no half of a generated pair.
LEMMA InitPair ==
  ASSUME Init
  PROVE  PairInv
  <1>1. \A s \in Slots : \A o \in Range(token[s]) :
           o.id \in 1 .. FirstID - 1 /\ o.key \notin FirstID .. MaxID
    <2> TAKE s \in Slots
    <2>1. Stored[s] \in {Stored[s]} \cup Provided[s]
      OBVIOUS
    <2>2. \A k \in DOMAIN Stored[s] : /\ Stored[s][k].id \in 1 .. FirstID - 1
                                      /\ Stored[s][k].key \notin FirstID .. MaxID
      BY <2>1, ServerAssumption, Zenon
    <2>3. QED
      BY <2>2 DEF Init, Range
  <1>2. /\ \A c \in Conns : Range(left[c]) = {}
        /\ \A c \in Conns, i \in SessionIDs : sessions[c][i] = NoSession
    BY DEF Init, NoSessions, Range
  <1>3. FirstID \in Nat
    BY ServerAssumption
  <1>4. \A o \in Object : Known(o) => Shape(o)
    BY <1>1, <1>2, <1>3 DEF Known, Shape
  <1>5. \A s \in Slots : Paired(token[s])
    BY <1>1, <1>3 DEF Paired, IsPair
  <1>6. QED
    BY <1>2, <1>4, <1>5 DEF PairInv, LeftPaired

\* Key pairs stay together.
THEOREM PairsConsistent == Spec => [](BaseInv /\ PairInv)
  <1>1. Init => PairInv
    BY InitPair
  <1>2. BaseInv /\ PairInv /\ [Next]_vars => PairInv'
    <2>1. CASE UNCHANGED vars
      BY <2>1 DEF PairInv, Known, Paired, LeftPaired, Target, vars
    <2>2. QED
      BY <2>1, PairStep
  <1>3. QED
    BY <1>1, <1>2, ListsConsistent, PTL DEF Spec

\* The halves of a pair reach the token one at a time, but no session, opened at
\* whatever time, shows a generated private key without its public key, if that
\* is a token object.
THEOREM PublicKeyFirst == Spec => []PublicFirst
  <1>1. BaseInv /\ PairInv => PublicFirst
    <2> SUFFICES ASSUME BaseInv, PairInv, NEW g \in AllLive, NEW h \in AllLive,
                        NEW k \in DOMAIN Sess(g).objects, NEW j \in DOMAIN Sess(h).objects,
                        IsPair(Sess(g).objects[k], Sess(h).objects[j])
                 PROVE  Sess(h).objects[j].id \in Handles(Sess(g).objects)
      BY DEF PublicFirst, IsPair
    <2>1. /\ h[1] \in Conns /\ h[2] \in SessionIDs /\ g[1] \in Conns /\ g[2] \in SessionIDs
          /\ Sess(h) = sessions[h[1]][h[2]] /\ Sess(h) # NoSession
          /\ Sess(g) = sessions[g[1]][g[2]] /\ Sess(g) # NoSession
      BY DEF AllLive, Sess
    <2>2. Sess(h).objects[j] \in Range(Sess(h).objects) /\ Sess(g).objects[k] \in Range(Sess(g).objects)
      BY DEF Range
    <2>3. Sess(h).objects[j] \in Object /\ Known(Sess(h).objects[j])
      BY <2>1, <2>2, ElementLemma DEF Known
    <2>4. Paired(Sess(g).objects)
      BY <2>1 DEF PairInv
    <2>5. QED
      BY <2>2, <2>3, <2>4 DEF Paired
  <1>2. QED
    BY <1>1, PairsConsistent, PTL

=============================================================================
