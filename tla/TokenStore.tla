----------------------------- MODULE TokenStore -----------------------------
(***************************************************************************)
(* What the tokens of a p11kit.Handler promise to the connections that     *)
(* share them: every operation on a token takes effect in one indivisible  *)
(* step between the request and its reply.  There is no mutex here and no  *)
(* field is ever read half-way through an update; TokenLock shows that the *)
(* code, with its mutex and its field by field accesses, implements this.  *)
(*                                                                         *)
(* Operations (req.op):                                                    *)
(*   "GetTokenInfo"  reply with the label and the initialized flag         *)
(*   "InitToken"     set label and flag, unless the flag is already set    *)
(*   "OpenSession"   reply with a copy of the token's objects              *)
(*   "Persist"       append one object to the token's objects              *)
(*   "GetSlotList", "GetMechanismList", "GetMechanismInfo"                 *)
(*                   reply with data of the slots that never changes       *)
(***************************************************************************)
EXTENDS Naturals, Sequences, FiniteSets

CONSTANTS
  Conns,      \* client connections, each served by its own goroutine
  Slots,      \* the IDs in Handler.Slots
  SlotIDs,    \* the slot IDs a request may name; some are in no slot
  Labels,     \* token labels without trailing padding
  WireLabels, \* labels as a C_InitToken request carries them
  Objs,       \* objects that can be persisted
  Counts,     \* buffer sizes a list request may announce
  Mechs,      \* mechanism types a request may name
  DefaultMechs, \* the mechanisms the package implements
  Ops,        \* the operations clients issue
  Configured, \* Handler.Slots as the program set it up
  NoArg       \* the argument of an operation that has none

VARIABLES
  label, initialized, objects,  \* the mutable fields of every Slot
  phase,                        \* phase[c]: "idle", "pending" or "done"
  req,                          \* req[c]: the request being served
  reply                         \* reply[c]: what the request returned

tokenVars == <<label, initialized, objects>>
vars == <<label, initialized, objects, phase, req, reply>>

Reply == [rv: {"none", "CKR_OK", "CKR_SLOT_ID_INVALID",
               "CKR_CRYPTOKI_ALREADY_INITIALIZED", "CKR_BUFFER_TOO_SMALL",
               "CKR_MECHANISM_INVALID"},
          label: Labels \cup {NoArg}, initialized: BOOLEAN,
          objects: Seq(Objs)]

\* A reply that carries a return value only.
RV(rv) == [rv |-> rv, label |-> NoArg, initialized |-> FALSE,
           objects |-> << >>]
NoReply == RV("none")

NoReq == [op |-> "none", slot |-> NoArg, arg |-> NoArg, size |-> 0]

\* strings.TrimRight(label, " \x00"): a wire label is its text followed by
\* pad padding characters, and only the text is stored.
TrimRight(w) == w.text

\* The requests a client may send while these objects are on the tokens.  An
\* object is persisted once: it has just been generated.
Fresh(o) == /\ \A s \in Slots : \A i \in DOMAIN objects[s] : objects[s][i] # o
            /\ \A c \in Conns : req[c].arg # o

Args(op) ==
  CASE op = "InitToken"        -> WireLabels
    [] op = "Persist"          -> {o \in Objs : Fresh(o)}
    [] op = "GetMechanismInfo" -> Mechs
    [] OTHER                   -> {NoArg}

\* The buffer size a request for a list announces.
Sizes(op) == IF op \in {"GetSlotList", "GetMechanismList"} THEN Counts ELSE {0}

\* The slot a request names: C_GetSlotList names none, and C_GenerateKeyPair
\* persists to the slot its session was opened on.
Targets(op) == CASE op = "GetSlotList" -> {NoArg}
                 [] op = "Persist"     -> Slots
                 [] OTHER              -> SlotIDs

\* The answer to a request for a list of n entries: only the length when the
\* announced size is 0, the list when it fits.
ListReply(size, n) ==
  RV(IF size # 0 /\ size < n THEN "CKR_BUFFER_TOO_SMALL" ELSE "CKR_OK")

\* Slot.mechanisms and Slot.mechanismInfo: the mechanism types listed and the
\* ones described, with the override of each (NoArg when it is nil).
mechanisms(s) == IF Configured[s].mechanisms = NoArg
                 THEN DefaultMechs ELSE Configured[s].mechanisms
mechanismInfo(s) == IF Configured[s].mechanismInfo = NoArg
                    THEN DefaultMechs ELSE Configured[s].mechanismInfo

\* The answer to a request about data that never changes.
ConstantReply(r) ==
  CASE r.op = "GetSlotList" -> ListReply(r.size, Cardinality(Slots))
    [] r.op = "GetMechanismList" ->
         ListReply(r.size, Cardinality(mechanisms(r.slot)))
    [] OTHER -> RV(IF r.arg \in mechanismInfo(r.slot)
                   THEN "CKR_OK" ELSE "CKR_MECHANISM_INVALID")

Init ==
  /\ label       = [s \in Slots |-> Configured[s].label]
  /\ initialized = [s \in Slots |-> Configured[s].initialized]
  /\ objects     = [s \in Slots |-> Configured[s].objects]
  /\ phase       = [c \in Conns |-> "idle"]
  /\ req         = [c \in Conns |-> NoReq]
  /\ reply       = [c \in Conns |-> NoReply]

Invoke(c) ==
  /\ phase[c] = "idle"
  /\ \E op \in Ops : \E s \in Targets(op), a \in Args(op), n \in Sizes(op) :
       req' = [req EXCEPT ![c] = [op |-> op, slot |-> s, arg |-> a, size |-> n]]
  /\ phase' = [phase EXCEPT ![c] = "pending"]
  /\ UNCHANGED <<label, initialized, objects, reply>>

\* The operation of c takes effect and its reply is fixed.
Takes(c, r) ==
  /\ phase[c] = "pending"
  /\ phase' = [phase EXCEPT ![c] = "done"]
  /\ reply' = [reply EXCEPT ![c] = r]
  /\ UNCHANGED req

NoSuchSlot(c) ==
  /\ req[c].op # "GetSlotList"
  /\ req[c].slot \notin Slots
  /\ Takes(c, RV("CKR_SLOT_ID_INVALID"))
  /\ UNCHANGED tokenVars

GetTokenInfo(c) ==
  LET s == req[c].slot IN
  /\ req[c].op = "GetTokenInfo"
  /\ s \in Slots
  /\ Takes(c, [rv |-> "CKR_OK", label |-> label[s],
               initialized |-> initialized[s], objects |-> << >>])
  /\ UNCHANGED tokenVars

InitToken(c) ==
  LET s == req[c].slot IN
  /\ req[c].op = "InitToken"
  /\ s \in Slots
  /\ ~initialized[s]
  /\ label' = [label EXCEPT ![s] = TrimRight(req[c].arg)]
  /\ initialized' = [initialized EXCEPT ![s] = TRUE]
  /\ Takes(c, RV("CKR_OK"))
  /\ UNCHANGED objects

InitTokenRefused(c) ==
  LET s == req[c].slot IN
  /\ req[c].op = "InitToken"
  /\ s \in Slots
  /\ initialized[s]
  /\ Takes(c, RV("CKR_CRYPTOKI_ALREADY_INITIALIZED"))
  /\ UNCHANGED tokenVars

OpenSession(c) ==
  LET s == req[c].slot IN
  /\ req[c].op = "OpenSession"
  /\ s \in Slots
  /\ Takes(c, [RV("CKR_OK") EXCEPT !.objects = objects[s]])
  /\ UNCHANGED tokenVars

Persist(c) ==
  LET s == req[c].slot IN
  /\ req[c].op = "Persist"
  /\ s \in Slots
  /\ objects' = [objects EXCEPT ![s] = Append(@, req[c].arg)]
  /\ Takes(c, RV("CKR_OK"))
  /\ UNCHANGED <<label, initialized>>

ReadConstant(c) ==
  /\ \/ req[c].op = "GetSlotList"
     \/ /\ req[c].op \in {"GetMechanismList", "GetMechanismInfo"}
        /\ req[c].slot \in Slots
  /\ Takes(c, ConstantReply(req[c]))
  /\ UNCHANGED tokenVars

Return(c) ==
  /\ phase[c] = "done"
  /\ phase' = [phase EXCEPT ![c] = "idle"]
  /\ req'   = [req EXCEPT ![c] = NoReq]
  /\ reply' = [reply EXCEPT ![c] = NoReply]
  /\ UNCHANGED tokenVars

Next == \E c \in Conns :
  \/ Invoke(c) \/ Return(c)
  \/ NoSuchSlot(c) \/ GetTokenInfo(c) \/ InitToken(c) \/ InitTokenRefused(c)
  \/ OpenSession(c) \/ Persist(c) \/ ReadConstant(c)

Spec == Init /\ [][Next]_vars

=============================================================================
