------------------------------- MODULE Server -------------------------------
(***************************************************************************)
(* Handler.Handle and the handlers of a connection (p11kit/p11kit.go): the *)
(* sessions each connection keeps, their object lists, searches and        *)
(* signing operations, and the token objects all connections share.        *)
(*                                                                         *)
(* A connection serves one request at a time:                              *)
(*   closed -> ready -> [persist ...] -> reply -> ready | closed           *)
(* A handler is one step, since sessions are private to the connection and *)
(* every access to a token is one critical section (TokenLock), except     *)
(* C_GenerateKeyPair, which enters the critical section once per object.   *)
(* The label, the flag and the constant data of slots are TokenLock's.     *)
(*                                                                         *)
(* Object handles are drawn at random from 64 bits in the code and are     *)
(* taken to be distinct: the model counts them up.                         *)
(***************************************************************************)
EXTENDS Naturals, Sequences, FiniteSets, Objects

CONSTANTS
  Conns, Slots, SlotIDs,  \* as in TokenLock
  Stored,      \* Stored[s]: Slot.Objects as the program set it up
  Dynamic,     \* the slots with a GetObjects function
  Provided,    \* Provided[s]: the object lists GetObjects may return
  Calls,       \* the calls clients issue
  IdWidth,     \* session IDs are counted modulo this (2^64 in the code)
  GenMechs, Domains, PubTmpls, PrivTmpls,  \* C_GenerateKeyPair requests
  SignMechs, Chunks,                       \* C_Sign* requests
  FindTmpls, Counts, AttrQueries,          \* C_FindObjects*, C_GetAttributeValue
  Values,      \* attribute values the code does not name
  DeriveMechs, DeriveTmpls, Lengths,       \* C_DeriveKey requests
  FirstID,     \* configured objects have handles below this one
  \* Bounds on what grows: handles, sessions, data fed to a signature, and the
  \* results of searches.
  MaxID, MaxSessions, MaxData, MaxFound,
  NoSession

SessionIDs == 0 .. IdWidth - 1
RWCalls == {"Login", "Logout", "FindObjectsInit", "FindObjects",
            "GetAttributeValue", "SignInit", "Sign", "SignUpdate", "SignFinal",
            "GetSessionInfo", "GenerateKeyPair", "DeriveKey"}

AttrValues == Values \cup {"absent", "nil", "true", "false", "public", "private", "secret"}
Object == [id: Nat, key: Nat, half: {"pub", "priv", "secret", "none"},
           alg: {"RSA", "EC", "ECSigner", "none"}, attrs: [AttrTypes -> AttrValues]]
Mechanism == [typ: {"none", "NULL", "RSA_PKCS", "RSA_PSS", "ECDSA", "ECDH1"},
              params: {"none", "badHash", "pss", "ecdh"},
              point: {"none", "malformed", "offCurve", "ok"},
              kdf: {"none", "null", "sha", "unknown"}]
Session == [slot: Slots, objects: Seq(Object), findMatches: Seq(Nat),
            signMechanism: Mechanism, signObject: Object, signData: Seq(Chunks)]

ASSUME ServerAssumption ==
  /\ Slots \subseteq SlotIDs
  /\ Dynamic \subseteq Slots
  /\ IdWidth \in Nat /\ MaxSessions \in Nat /\ MaxSessions < IdWidth
  /\ FirstID \in Nat \ {0} /\ MaxID \in Nat
  /\ Counts \subseteq Nat
  /\ SignMechs \cup DeriveMechs \subseteq Mechanism
  /\ \A tmpl \in PubTmpls \cup PrivTmpls \cup DeriveTmpls :
       \A t \in DOMAIN tmpl : tmpl[t] \in AttrValues \ {"absent"}
  /\ NoSession \notin Session
  \* What the program configures: objects with handles and keys of their own.
  /\ \A s \in Slots : \A objs \in {Stored[s]} \cup Provided[s] :
       /\ objs \in Seq(Object)
       /\ \A i \in DOMAIN objs : /\ objs[i].id \in 1 .. FirstID - 1
                                 /\ objs[i].key \notin FirstID .. MaxID
       /\ \A i, j \in DOMAIN objs : objs[i].id = objs[j].id => i = j

VARIABLES
  token,         \* token[s]: Slot.Objects
  phase,         \* phase[c]: where the loop of Handle is
  lastSessionID, sessions,  \* the handler of connection c
  left,          \* left[c]: objects C_GenerateKeyPair has yet to persist
  resp,          \* resp[c]: the response to be written
  nextID,        \* the next object handle
  \* What the clients know, for the properties; the code has no such state.
  acked,         \* acked[s]: token objects whose creation was acknowledged
  given,         \* given[c][i]: object handles the client got in session i
  signing,       \* signing[c][i]: the signing operation as the client sees it
  search         \* search[c][i]: the searches as the client sees them

ghosts == <<acked, given, signing, search>>
vars == <<token, phase, lastSessionID, sessions, left, resp, nextID,
          acked, given, signing, search>>

-----------------------------------------------------------------------------
NoMech == [typ |-> "none", params |-> "none", point |-> "none", kdf |-> "none"]
NoSig == [key |-> 0, typ |-> "none", data |-> << >>]

NewSession(s, objs) ==
  [slot |-> s, objects |-> objs, findMatches |-> << >>,
   signMechanism |-> NoMech, signObject |-> NoObject, signData |-> << >>]

\* A response: the return value, the session it is about, the object handles it
\* carries, the token objects it promises, the signature, and the call where a
\* property depends on it.
RV(rv) == [rv |-> rv, sid |-> 0, handles |-> << >>, promised |-> << >>,
           sig |-> NoSig, call |-> "other"]

Live(c) == {i \in SessionIDs : sessions[c][i] # NoSession}

NoSessions == [i \in SessionIDs |-> NoSession]

\* active: C_SignInit succeeded and no signature was returned since; data: what
\* was fed since C_SignInit; legal: the client has kept to the order C_SignInit,
\* then C_Sign or any C_SignUpdate and C_SignFinal.
NoSigning == [active |-> FALSE, legal |-> TRUE, data |-> << >>]
Begun(w) == [active |-> TRUE, legal |-> w.legal /\ ~w.active, data |-> << >>]

\* active: between C_FindObjectsInit and C_FindObjectsFinal; found: what this search
\* matched; clean: nothing was left of earlier searches, and then sent: what was
\* returned since; legal: the client has kept to the order.
NoSearch == [active |-> FALSE, legal |-> TRUE, clean |-> FALSE, found |-> << >>, sent |-> << >>]

\* A search that matches ids is started, a batch of results is returned.
Started(w, ids, clean) ==
  [active |-> TRUE, legal |-> w.legal /\ ~w.active, clean |-> clean, found |-> ids, sent |-> << >>]
Served(w, batch) ==
  [w EXCEPT !.legal = @ /\ w.active, !.sent = IF w.clean THEN @ \o batch ELSE @]
Ended(w) == [NoSearch EXCEPT !.legal = w.legal]

Init ==
  /\ token = [s \in Slots |-> Stored[s]]
  /\ phase = [c \in Conns |-> "closed"]
  /\ lastSessionID = [c \in Conns |-> 0]
  /\ sessions = [c \in Conns |-> NoSessions]
  /\ left = [c \in Conns |-> << >>]
  /\ resp = [c \in Conns |-> RV("none")]
  /\ nextID = FirstID
  /\ acked = [s \in Slots |-> {}]
  /\ given = [c \in Conns |-> [i \in SessionIDs |-> {}]]
  /\ signing = [c \in Conns |-> [i \in SessionIDs |-> NoSigning]]
  /\ search  = [c \in Conns |-> [i \in SessionIDs |-> NoSearch]]

\* What the client knew of a session is void when the session ends.
Forget(c, ids) ==
  /\ given' = [given EXCEPT ![c] = [i \in SessionIDs |-> IF i \in ids THEN {} ELSE @[i]]]
  /\ signing' = [signing EXCEPT ![c] =
                   [i \in SessionIDs |-> IF i \in ids THEN NoSigning ELSE @[i]]]
  /\ search' = [search EXCEPT ![c] =
                   [i \in SessionIDs |-> IF i \in ids THEN NoSearch ELSE @[i]]]

-----------------------------------------------------------------------------
\* The loop of Handle.

\* negotiateProtocolVersion accepts any version; the handler starts empty.
Connect(c) ==
  /\ phase[c] = "closed"
  /\ phase' = [phase EXCEPT ![c] = "ready"]
  /\ lastSessionID' = [lastSessionID EXCEPT ![c] = 0]
  /\ sessions' = [sessions EXCEPT ![c] = NoSessions]
  /\ UNCHANGED <<token, left, resp, nextID, ghosts>>

\* Handle returns and its handler, with all the sessions, is garbage.
Close(c) ==
  /\ phase' = [phase EXCEPT ![c] = "closed"]
  /\ lastSessionID' = [lastSessionID EXCEPT ![c] = 0]
  /\ sessions' = [sessions EXCEPT ![c] = NoSessions]
  /\ resp' = [resp EXCEPT ![c] = RV("none")]
  /\ Forget(c, SessionIDs)
  /\ UNCHANGED <<token, left, nextID, acked>>

\* readRequest fails: the client is gone or the request is malformed.  So does
\* a handler that fails to decode its arguments, or C_Initialize when the
\* handshake is wrong: none of these is a PKCS #11 error.
ReadFails(c) == phase[c] = "ready" /\ Close(c)

\* A handler returns r, which the loop is going to write.
Answer(c, r) ==
  /\ phase[c] = "ready"
  /\ phase' = [phase EXCEPT ![c] = "reply"]
  /\ resp' = [resp EXCEPT ![c] = r]

\* A handler that changes nothing.
Reply(c, r) ==
  /\ Answer(c, r)
  /\ UNCHANGED <<token, lastSessionID, sessions, left, nextID, ghosts>>

\* writeResponse succeeds and the client has its answer.
Deliver(c) ==
  LET r == resp[c]
      got == {r.handles[k] : k \in DOMAIN r.handles}
  IN
  /\ phase[c] = "reply"
  /\ phase' = [phase EXCEPT ![c] = "ready"]
  /\ resp' = [resp EXCEPT ![c] = RV("none")]
  /\ given' = [given EXCEPT ![c][r.sid] = @ \cup got]
  /\ acked' = IF r.promised = << >> THEN acked
              ELSE [acked EXCEPT ![sessions[c][r.sid].slot] =
                      @ \cup {r.promised[k].id : k \in DOMAIN r.promised}]
  /\ signing' = IF r.sig = NoSig THEN signing
                ELSE [signing EXCEPT ![c][r.sid] =
                        [@ EXCEPT !.active = FALSE,
                                  !.legal = @ /\ (r.call = "Sign" => signing[c][r.sid].data = << >>)]]
  /\ UNCHANGED <<token, lastSessionID, sessions, left, nextID, search>>

\* writeResponse fails: the request was executed, the client never knows.
WriteFails(c) == phase[c] = "reply" /\ Close(c)

\* C_Finalize: the response is written, or not, and Handle returns.
Finalize(c) == "Finalize" \in Calls /\ phase[c] = "ready" /\ Close(c)

-----------------------------------------------------------------------------
\* Calls that neither read nor change a session.

\* C_Initialize with the right handshake, and C_GetInfo.
Initialize(c) ==
  /\ Calls \cap {"Initialize", "GetInfo"} # {}
  /\ Reply(c, RV("CKR_OK"))

GetSlotInfo(c) ==
  /\ "GetSlotInfo" \in Calls
  /\ \E s \in SlotIDs :
       Reply(c, RV(IF s \in Slots THEN "CKR_OK" ELSE "CKR_SLOT_ID_INVALID"))

\* C_GenerateRandom and C_SeedRandom.
RandomNoRNG(c) ==
  /\ Calls \cap {"GenerateRandom", "SeedRandom"} # {}
  /\ Reply(c, RV("CKR_RANDOM_NO_RNG"))

\* A call without a handler.
FunctionNotSupported(c) ==
  /\ "Unsupported" \in Calls
  /\ Reply(c, RV("CKR_FUNCTION_NOT_SUPPORTED"))

\* handler.session finds no session: the first check of all these handlers.
SessionHandleInvalid(c) ==
  /\ Calls \cap RWCalls # {}
  /\ Live(c) # SessionIDs
  /\ Reply(c, RV("CKR_SESSION_HANDLE_INVALID"))

\* session.object finds no object.
ObjectHandleInvalid(c) ==
  /\ Calls \cap {"GetAttributeValue", "SignInit", "DeriveKey"} # {}
  /\ \E i \in Live(c) : 1 .. MaxID \ Handles(sessions[c][i].objects) # {}
  /\ Reply(c, RV("CKR_OBJECT_HANDLE_INVALID"))

-----------------------------------------------------------------------------
\* handleOpenSession and newSession.

OpenSessionRefused(c) ==
  /\ "OpenSession" \in Calls
  /\ \/ Reply(c, RV("CKR_SESSION_PARALLEL_NOT_SUPPORTED"))
     \/ SlotIDs # Slots /\ Reply(c, RV("CKR_SLOT_ID_INVALID"))

\* The k-th handle the probing loop of newSession tries.
Candidate(c, k) == (lastSessionID[c] + k) % IdWidth

\* A copy of the token's objects, or what GetObjects returns.
Snapshots(s) == IF s \in Dynamic THEN Provided[s] ELSE {token[s]}

ProbeNone(c) == {Candidate(c, 1)}   \* mutant: the handle may be in use

Probe(c) == {i \in SessionIDs :
  \E k \in 1 .. IdWidth : /\ i = Candidate(c, k)
                          /\ i \notin Live(c)
                          /\ \A j \in 1 .. k - 1 : Candidate(c, j) \in Live(c)}

OpenSessionUnwrapped(c) ==   \* mutant: the counter does not follow the handle
  /\ "OpenSession" \in Calls
  /\ Cardinality(Live(c)) < MaxSessions
  /\ \E s \in Slots, i \in Probe(c) : \E objs \in Snapshots(s) :
       /\ sessions' = [sessions EXCEPT ![c][i] = NewSession(s, objs)]
       /\ lastSessionID' = [lastSessionID EXCEPT ![c] = @ + 1]
       /\ Answer(c, [RV("CKR_OK") EXCEPT !.sid = i])
  /\ UNCHANGED <<token, left, nextID, ghosts>>

OpenSession(c) ==
  /\ "OpenSession" \in Calls
  /\ Cardinality(Live(c)) < MaxSessions
  /\ \E s \in Slots, i \in Probe(c) : \E objs \in Snapshots(s) :
       /\ sessions' = [sessions EXCEPT ![c][i] = NewSession(s, objs)]
       /\ lastSessionID' = [lastSessionID EXCEPT ![c] = i]
       /\ Answer(c, [RV("CKR_OK") EXCEPT !.sid = i])
  /\ UNCHANGED <<token, left, nextID, ghosts>>

\* GetObjects fails with an error of its own: Handle returns.
GetObjectsFails(c) ==
  /\ "OpenSession" \in Calls
  /\ Dynamic # {}
  /\ phase[c] = "ready"
  /\ Close(c)

\* handleCloseSession and closeSession.
CloseSession(c) ==
  /\ "CloseSession" \in Calls
  /\ \E i \in Live(c) :
       /\ sessions' = [sessions EXCEPT ![c][i] = NoSession]
       /\ Forget(c, {i})
  /\ Answer(c, RV("CKR_OK"))
  /\ UNCHANGED <<token, lastSessionID, left, nextID, acked>>

CloseSessionInvalid(c) ==
  /\ "CloseSession" \in Calls
  /\ Live(c) # SessionIDs
  /\ Reply(c, RV("CKR_SESSION_HANDLE_INVALID"))

\* handleLogin on a live session: there is no PIN, an SO is refused, and there
\* is no login state.
Login(c) ==
  /\ "Login" \in Calls
  /\ Live(c) # {}
  /\ \E rv \in {"CKR_OK", "CKR_USER_TYPE_INVALID"} : Reply(c, RV(rv))

Logout(c) == "Logout" \in Calls /\ Live(c) # {} /\ Reply(c, RV("CKR_OK"))

GetSessionInfo(c) ==
  "GetSessionInfo" \in Calls /\ Live(c) # {} /\ Reply(c, RV("CKR_OK"))

-----------------------------------------------------------------------------
\* Searches and attributes.

\* The positions in M, in increasing order.
Enumerations(M) == {q \in [1 .. Cardinality(M) -> M] :
                      \A i, j \in DOMAIN q : i < j => q[i] < q[j]}

\* handleFindObjectsInit and session.find: the handles of the objects that
\* match are appended to the ones still to be returned.
FindObjectsInit(c) ==
  /\ "FindObjectsInit" \in Calls
  /\ \E i \in Live(c), tmpl \in FindTmpls :
       LET x == sessions[c][i]
           M == {k \in DOMAIN x.objects : matches(x.objects[k], tmpl)}
       IN
       /\ Len(x.findMatches) + Cardinality(M) <= MaxFound
       /\ \E q \in Enumerations(M) :
            LET ids == [k \in DOMAIN q |-> x.objects[q[k]].id] IN
            /\ sessions' = [sessions EXCEPT ![c][i].findMatches = @ \o ids]
            /\ search' = [search EXCEPT ![c][i] = Started(@, ids, x.findMatches = << >>)]
  /\ Answer(c, RV("CKR_OK"))
  /\ UNCHANGED <<token, lastSessionID, left, nextID, acked, given, signing>>

\* session.findNext: the first max results and what remains.
findNextKeeps(m, max) ==   \* mutant: a batch is not removed
  [batch |-> IF max >= Len(m) THEN m ELSE SubSeq(m, 1, max),
   rest  |-> IF max >= Len(m) THEN << >> ELSE m]
findNext(m, max) ==
  [batch |-> IF max >= Len(m) THEN m ELSE SubSeq(m, 1, max),
   rest  |-> IF max >= Len(m) THEN << >> ELSE SubSeq(m, max + 1, Len(m))]

\* handleFindObjects.
FindObjects(c) ==
  /\ "FindObjects" \in Calls
  /\ \E i \in Live(c), count \in Counts :
       LET r == findNext(sessions[c][i].findMatches, count) IN
       /\ sessions' = [sessions EXCEPT ![c][i].findMatches = r.rest]
       /\ search' = [search EXCEPT ![c][i] = Served(@, r.batch)]
       /\ Answer(c, [RV("CKR_OK") EXCEPT !.sid = i, !.handles = r.batch,
                                         !.call = "FindObjects"])
  /\ UNCHANGED <<token, lastSessionID, left, nextID, acked, given, signing>>

\* handleFindObjectsFinal answers, and neither looks at its session nor drops
\* the results that were not returned.
FindObjectsFinal(c) ==
  /\ "FindObjectsFinal" \in Calls
  /\ \E i \in SessionIDs : search' = [search EXCEPT ![c][i] = Ended(@)]
  /\ Answer(c, RV("CKR_OK"))
  /\ UNCHANGED <<token, lastSessionID, sessions, left, nextID, acked, given, signing>>

\* handleGetAttributeValue: an attribute the object lacks is answered without a
\* value, and makes the return value in the response CKR_ATTRIBUTE_TYPE_INVALID.
GetAttributeValue(c) ==
  /\ "GetAttributeValue" \in Calls
  /\ \E i \in Live(c), types \in AttrQueries :
       \E id \in Handles(sessions[c][i].objects) :
         LET o == object(sessions[c][i].objects, id) IN
         Reply(c, RV(IF \A t \in types : o.attrs[t] # "absent"
                     THEN "CKR_OK" ELSE "CKR_ATTRIBUTE_TYPE_INVALID"))

-----------------------------------------------------------------------------
\* Signing.

WithSigner(x, m, o) == [x EXCEPT !.signMechanism = m, !.signObject = o]

SignInitEarly(c) ==   \* mutant: the operation is set up before it is checked
  /\ "SignInit" \in Calls
  /\ \E i \in Live(c), m \in SignMechs :
       \E id \in Handles(sessions[c][i].objects) :
         LET o == object(sessions[c][i].objects, id) IN
         /\ sessions' = [sessions EXCEPT ![c][i] = WithSigner(@, m, o)]
         /\ signing' = [signing EXCEPT ![c][i] = Begun(@)]
  /\ Answer(c, RV("CKR_OK"))
  /\ UNCHANGED <<token, lastSessionID, left, nextID, acked, given, search>>

\* handleSignInit.  The data of an earlier operation is left alone.
SignInit(c) ==
  /\ "SignInit" \in Calls
  /\ \E i \in Live(c), m \in SignMechs :
       \E id \in Handles(sessions[c][i].objects) :
         LET o == object(sessions[c][i].objects, id) IN
         /\ supports(o, m)
         /\ sessions' = [sessions EXCEPT ![c][i] = WithSigner(@, m, o)]
         /\ signing' = [signing EXCEPT ![c][i] = Begun(@)]
  /\ Answer(c, RV("CKR_OK"))
  /\ UNCHANGED <<token, lastSessionID, left, nextID, acked, given, search>>

\* Object.supports refuses the key or the mechanism, the NULL mechanism by which
\* clients cancel an operation included: the old operation stays.
SignInitRefused(c) ==
  /\ "SignInit" \in Calls
  /\ \E i \in Live(c), m \in SignMechs :
       \E id \in Handles(sessions[c][i].objects) :
         ~supports(object(sessions[c][i].objects, id), m)
  /\ Reply(c, RV("CKR_MECHANISM_INVALID"))

\* The outcome of Object.sign on data, in session i: a signature, a PKCS #11
\* error, or an error that ends the connection.
Signs(c, i, data, call, rv) ==
  LET x == sessions[c][i] IN
  /\ rv \in SignOutcomes(x.signObject, x.signMechanism) \ {"fatal"}
  /\ Reply(c, [RV(rv) EXCEPT !.sid = i, !.call = call,
                 !.sig = IF rv = "CKR_OK"
                         THEN [key |-> x.signObject.key, typ |-> x.signMechanism.typ,
                               data |-> data]
                         ELSE NoSig])

ReturnValues == {"CKR_OK", "CKR_ARGUMENTS_BAD", "CKR_KEY_HANDLE_INVALID",
                 "CKR_MECHANISM_INVALID", "CKR_MECHANISM_PARAM_INVALID"}

\* handleSign: one-shot data; the operation stays set up.
Sign(c) ==
  /\ "Sign" \in Calls
  /\ \E i \in Live(c), d \in Chunks, rv \in ReturnValues : Signs(c, i, <<d>>, "Sign", rv)

\* handleSignUpdate needs no C_SignInit.
SignUpdate(c) ==
  /\ "SignUpdate" \in Calls
  /\ \E i \in Live(c), d \in Chunks :
       /\ Len(sessions[c][i].signData) < MaxData
       /\ sessions' = [sessions EXCEPT ![c][i].signData = Append(@, d)]
       /\ signing' = [signing EXCEPT ![c][i] =
            [@ EXCEPT !.legal = @ /\ signing[c][i].active, !.data = Append(@, d)]]
  /\ Answer(c, RV("CKR_OK"))
  /\ UNCHANGED <<token, lastSessionID, left, nextID, acked, given, search>>

\* handleSignFinal: signs what the session has accumulated and keeps it.
SignFinal(c) ==
  /\ "SignFinal" \in Calls
  /\ \E i \in Live(c), rv \in ReturnValues : Signs(c, i, sessions[c][i].signData, "SignFinal", rv)

\* C_Sign or C_SignFinal fails with an error that is no PKCS #11 error.
SignFatal(c) ==
  /\ Calls \cap {"Sign", "SignFinal"} # {}
  /\ phase[c] = "ready"
  /\ \E i \in Live(c) :
       "fatal" \in SignOutcomes(sessions[c][i].signObject, sessions[c][i].signMechanism)
  /\ Close(c)

-----------------------------------------------------------------------------
\* handleGenerateKeyPair and handleDeriveKey.

GenerateRefused(c) ==
  /\ "GenerateKeyPair" \in Calls
  /\ Live(c) # {}
  /\ \E typ \in GenMechs, d \in Domains :
       \E rv \in GenOutcomes(typ, d) \ {"CKR_OK"} : Reply(c, RV(rv))

TokenOnesReversed(pub, priv) ==   \* mutant: the private half goes first
  (IF IsToken(priv) THEN <<priv>> ELSE << >>) \o (IF IsToken(pub) THEN <<pub>> ELSE << >>)

TokenOnesAll(pub, priv) == <<pub, priv>>   \* mutant: CKA_TOKEN is ignored

\* The objects with CKA_TOKEN, in the order the loop persists them.
TokenOnes(pub, priv) ==
  (IF IsToken(pub) THEN <<pub>> ELSE << >>) \o (IF IsToken(priv) THEN <<priv>> ELSE << >>)

KeyPairResponse(i, pub, priv) ==
  [RV("CKR_OK") EXCEPT !.sid = i, !.handles = <<pub.id, priv.id>>,
                       !.promised = TokenOnes(pub, priv)]

\* The new objects join session i; persisting comes next.  The response is fixed
\* but not yet on its way.
AddKeyPair(c, i, pub, priv) ==
  /\ sessions' = [sessions EXCEPT ![c][i].objects = @ \o <<pub, priv>>]
  /\ left' = [left EXCEPT ![c] = TokenOnes(pub, priv)]
  /\ resp' = [resp EXCEPT ![c] = KeyPairResponse(i, pub, priv)]

GenerateKeyPair(c) ==
  /\ "GenerateKeyPair" \in Calls
  /\ phase[c] = "ready"
  /\ nextID + 1 <= MaxID
  /\ \E i \in Live(c), typ \in GenMechs, d \in Domains, tp \in PubTmpls, tv \in PrivTmpls :
       /\ "CKR_OK" \in GenOutcomes(typ, d)
       /\ AddKeyPair(c, i,
            setAttributes(newKeyObject(nextID, nextID, Alg(typ), "pub"), tp),
            setAttributes(newKeyObject(nextID + 1, nextID, Alg(typ), "priv"), tv))
  /\ nextID' = nextID + 2
  /\ phase' = [phase EXCEPT ![c] = "persist"]
  /\ UNCHANGED <<token, lastSessionID, ghosts>>

PersistFirst(c) ==   \* mutant: the loop ends after one object
  /\ phase[c] = "persist"
  /\ left[c] # << >>
  /\ LET s == sessions[c][resp[c].sid].slot IN
       token' = [token EXCEPT ![s] = Append(@, Head(left[c]))]
  /\ left' = [left EXCEPT ![c] = << >>]
  /\ UNCHANGED <<phase, lastSessionID, sessions, resp, nextID, ghosts>>

\* persistObject, one critical section per object.  The slot exists: the
\* session was opened on it and Handler.Slots never changes.
Persist(c) ==
  /\ phase[c] = "persist"
  /\ left[c] # << >>
  /\ LET s == sessions[c][resp[c].sid].slot IN
       token' = [token EXCEPT ![s] = Append(@, Head(left[c]))]
  /\ left' = [left EXCEPT ![c] = Tail(@)]
  /\ UNCHANGED <<phase, lastSessionID, sessions, resp, nextID, ghosts>>

Persisted(c) ==
  /\ phase[c] = "persist"
  /\ left[c] = << >>
  /\ phase' = [phase EXCEPT ![c] = "reply"]
  /\ UNCHANGED <<token, lastSessionID, sessions, left, resp, nextID, ghosts>>

DeriveKeyUnlisted(c) ==   \* mutant: the session does not get the object
  /\ "DeriveKey" \in Calls
  /\ nextID <= MaxID
  /\ \E i \in Live(c), m \in DeriveMechs, len \in Lengths :
       \E id \in Handles(sessions[c][i].objects) :
         /\ DeriveOutcome(m, object(sessions[c][i].objects, id), len) = "CKR_OK"
         /\ Answer(c, [RV("CKR_OK") EXCEPT !.sid = i, !.handles = <<nextID>>])
  /\ nextID' = nextID + 1
  /\ UNCHANGED <<token, lastSessionID, sessions, left, ghosts>>

\* The derived object lives in the session only.
DeriveKey(c) ==
  /\ "DeriveKey" \in Calls
  /\ nextID <= MaxID
  /\ \E i \in Live(c), m \in DeriveMechs, tmpl \in DeriveTmpls, len \in Lengths :
       \E id \in Handles(sessions[c][i].objects) :
         LET base == object(sessions[c][i].objects, id) IN
         /\ DeriveOutcome(m, base, len) = "CKR_OK"
         /\ sessions' = [sessions EXCEPT ![c][i].objects =
                           Append(@, Derived(nextID, base.key, tmpl))]
         /\ Answer(c, [RV("CKR_OK") EXCEPT !.sid = i, !.handles = <<nextID>>])
  /\ nextID' = nextID + 1
  /\ UNCHANGED <<token, lastSessionID, left, ghosts>>

DeriveRefused(c) ==
  /\ "DeriveKey" \in Calls
  /\ \E i \in Live(c), m \in DeriveMechs, len \in Lengths :
       \E id \in Handles(sessions[c][i].objects) :
         LET rv == DeriveOutcome(m, object(sessions[c][i].objects, id), len) IN
         rv # "CKR_OK" /\ Reply(c, RV(rv))

\* newObjectID finds no randomness, which is no PKCS #11 error: C_GenerateKeyPair
\* or C_DeriveKey ends the connection before it touches the session.
NewObjectIDFails(c) ==
  /\ phase[c] = "ready"
  /\ \/ /\ "GenerateKeyPair" \in Calls
        /\ Live(c) # {}
        /\ \E typ \in GenMechs, d \in Domains : "CKR_OK" \in GenOutcomes(typ, d)
     \/ /\ "DeriveKey" \in Calls
        /\ \E i \in Live(c), m \in DeriveMechs, len \in Lengths :
             \E id \in Handles(sessions[c][i].objects) :
               DeriveOutcome(m, object(sessions[c][i].objects, id), len) = "CKR_OK"
  /\ Close(c)

-----------------------------------------------------------------------------
Handler(c) ==
  \/ Initialize(c) \/ GetSlotInfo(c) \/ RandomNoRNG(c)
  \/ FunctionNotSupported(c) \/ SessionHandleInvalid(c) \/ ObjectHandleInvalid(c)
  \/ OpenSession(c) \/ OpenSessionRefused(c) \/ GetObjectsFails(c)
  \/ CloseSession(c) \/ CloseSessionInvalid(c)
  \/ Login(c) \/ Logout(c) \/ GetSessionInfo(c)
  \/ FindObjectsInit(c) \/ FindObjects(c) \/ FindObjectsFinal(c)
  \/ GetAttributeValue(c)
  \/ SignInit(c) \/ SignInitRefused(c) \/ Sign(c) \/ SignUpdate(c)
  \/ SignFinal(c) \/ SignFatal(c)
  \/ GenerateKeyPair(c) \/ GenerateRefused(c)
  \/ DeriveKey(c) \/ DeriveRefused(c) \/ NewObjectIDFails(c) \/ Finalize(c)

Next == \E c \in Conns :
  \/ Connect(c) \/ ReadFails(c) \/ Handler(c)
  \/ Persist(c) \/ Persisted(c) \/ Deliver(c) \/ WriteFails(c)

Spec == Init /\ [][Next]_vars

-----------------------------------------------------------------------------
TypeOK ==
  /\ token \in [Slots -> Seq(Object)]
  /\ phase \in [Conns -> {"closed", "ready", "persist", "reply"}]
  /\ lastSessionID \in [Conns -> SessionIDs]
  /\ sessions \in [Conns -> [SessionIDs -> Session \cup {NoSession}]]
  /\ left \in [Conns -> Seq(Object)]
  /\ nextID \in Nat

\* The live sessions, with the connection each belongs to.
AllLive == {h \in Conns \X SessionIDs : sessions[h[1]][h[2]] # NoSession}
Sess(h) == sessions[h[1]][h[2]]

\* Every object handle a client was given in a session resolves in it for as
\* long as the session lives: no later call on this or another connection,
\* reuse of a session handle included, takes an object away.
HandlesResolve ==
  \A h \in AllLive : given[h[1]][h[2]] \subseteq Handles(Sess(h).objects)

\* A session that stays open keeps its slot and only gains objects, at the end:
\* opening a session never takes over a handle that is in use, even when the
\* counter has wrapped around.
SessionKept ==
  \A c \in Conns : \A i \in Live(c) :
    LET x == sessions[c][i]  y == sessions'[c][i] IN
    y # NoSession => /\ y.slot = x.slot
                     /\ Len(x.objects) <= Len(y.objects)
                     /\ \A k \in DOMAIN x.objects : y.objects[k] = x.objects[k]
SessionStable == [][SessionKept]_vars

\* A session that is set up to sign does so with a private key of its own, and
\* with a mechanism this key supports, whatever requests failed in between.
SignReady ==
  \A h \in AllLive :
    LET x == Sess(h) IN
    x.signObject = NoObject \/ /\ x.signObject.id \in Handles(x.objects)
                               /\ x.signObject = object(x.objects, x.signObject.id)
                               /\ supports(x.signObject, x.signMechanism)

\* Two sessions only have token objects in common ("Objects without it only live
\* for this session", handleGenerateKeyPair): what a client generates or derives
\* without CKA_TOKEN never shows up in another session of any connection.
SessionPrivate ==
  \A h, g \in AllLive : h # g =>
    \A k \in DOMAIN Sess(h).objects :
      LET o == Sess(h).objects[k] IN
      (o.id >= FirstID /\ o.id \in Handles(Sess(g).objects)) => IsToken(o)

\* The halves of a generated pair reach the token one at a time, and a session
\* may open in between; but the public half goes first.  A session that shows a
\* generated private key also shows its public key, if that is a token object.
PublicFirst ==
  \A g, h \in AllLive : \A k \in DOMAIN Sess(g).objects, j \in DOMAIN Sess(h).objects :
    LET o == Sess(g).objects[k]
        p == Sess(h).objects[j]
    IN
    (/\ o.id >= FirstID /\ o.half = "priv"
     /\ p.half = "pub" /\ p.key = o.key /\ IsToken(p))
      => p.id \in Handles(Sess(g).objects)

\* "Objects created with CKA_TOKEN persist on the token, so they can be found by
\* later sessions" (handleGenerateKeyPair): a session opened, on any connection,
\* after the creation of a token object was acknowledged has that object.
OpensWithAcked ==
  \A c \in Conns, i \in SessionIDs :
    (sessions[c][i] = NoSession /\ sessions'[c][i] # NoSession) =>
      acked[sessions'[c][i].slot] \subseteq Handles(sessions'[c][i].objects)
LaterSessionsSee == [][OpensWithAcked]_vars

\* However a client chunks its C_FindObjects calls, and whatever it asks for in
\* between, every match of a search is returned once and in order: until
\* C_FindObjectsFinal, what was returned and what is still queued make up what
\* C_FindObjectsInit found.  A search that starts with results of an earlier one
\* still queued is not meant here; SearchAnswers is about it.
FindConserves ==
  \A h \in AllLive : LET q == search[h[1]][h[2]] IN
    q.active /\ q.clean => q.found = q.sent \o Sess(h).findMatches

\* C_SignFinal signs what this operation was fed, for a client that keeps to the
\* order of calls of PKCS #11 ("Version of the spec this package aims to
\* implement", cryptokiVersion).
SignsOwnData ==
  \A c \in Conns :
    LET r == resp[c] IN
    (/\ phase[c] = "reply" /\ r.call = "SignFinal" /\ r.rv = "CKR_OK"
     /\ signing[c][r.sid].legal)
      => r.sig.data = signing[c][r.sid].data

\* C_FindObjects returns matches of the search that is active, for a client that
\* ends each search with C_FindObjectsFinal, as PKCS #11 has it.
SearchAnswers ==
  \A c \in Conns :
    LET r == resp[c] IN
    (phase[c] = "reply" /\ r.call = "FindObjects" /\ search[c][r.sid].legal)
      => LET f == search[c][r.sid].found IN
         \A k \in DOMAIN r.handles : \E j \in DOMAIN f : r.handles[k] = f[j]

=============================================================================
