------------------------------ MODULE TokenLock ------------------------------
(***************************************************************************)
(* The mutable fields of the slots a Handler shares between connections,   *)
(* Handler.mu, and every handler that touches them, one step per access to *)
(* shared memory.  A connection is a goroutine that runs one request at a  *)
(* time; pc[c] names the step it takes next.                               *)
(*                                                                         *)
(*   idle -> lookup -> lock -> <accesses> -> unlock -> return -> idle      *)
(*   idle -> lookup -> copy  -> return -> idle    C_GetMechanism{List,Info}*)
(*   idle -> copy ... copy   -> return -> idle    C_GetSlotList            *)
(*                                                                         *)
(* The last two copy whole Slot structs without the mutex: a range loop    *)
(* over Handler.Slots and methods with a Slot value receiver.              *)
(***************************************************************************)
EXTENDS Naturals, Sequences, FiniteSets

CONSTANTS Conns, Slots, SlotIDs, Labels, WireLabels, Objs, Counts, Mechs,
          DefaultMechs, Ops, Configured, NoArg,
          Free         \* the value of mu when nobody holds it

AllOps == {"GetTokenInfo", "InitToken", "OpenSession", "Persist",
           "GetSlotList", "GetMechanismList", "GetMechanismInfo"}

\* The operations whose handlers take Handler.mu.
GuardedOps == {"GetTokenInfo", "InitToken", "OpenSession", "Persist"}

ASSUME ConstantsAssumption ==
  /\ Free \notin Conns
  /\ Slots \subseteq SlotIDs /\ IsFiniteSet(Slots)
  /\ NoArg \notin SlotIDs \cup Objs \cup Labels
  /\ Ops \subseteq AllOps
  /\ Counts \subseteq Nat
  /\ WireLabels \subseteq [text: Labels, pad: Nat]
  /\ \A s \in Slots :
       /\ Configured[s].label \in Labels
       /\ Configured[s].initialized \in BOOLEAN
       /\ Configured[s].objects \in Seq(Objs)

VARIABLES
  label, initialized, objects,  \* Slot.Label, Slot.Initialized, Slot.Objects
  mu,                           \* who holds Handler.mu
  pc, req,                      \* the next step of c and the request it serves
  loc,                          \* loc[c]: local variables, later the reply
  todo                          \* todo[c]: slots left to copy

shared == <<label, initialized, objects>>
vars == <<label, initialized, objects, mu, pc, req, loc, todo>>

-----------------------------------------------------------------------------
\* The abstract token (see the end of the module for the property).  InitToken
\* takes effect when it writes the label: the flag it is about to write counts
\* as written, and as it holds mu nobody can tell.

Done == {"writeinit", "unlock", "return"}
absPhase == [c \in Conns |-> CASE pc[c] = "idle" -> "idle"
                               [] pc[c] \in Done -> "done"
                               [] OTHER          -> "pending"]
absInitialized == [s \in Slots |->
  initialized[s] \/ \E c \in Conns : pc[c] = "writeinit" /\ req[c].slot = s]
absReply == [c \in Conns |->
  IF pc[c] \in Done THEN loc[c]
  ELSE [rv |-> "none", label |-> NoArg, initialized |-> FALSE,
        objects |-> << >>]]

TS == INSTANCE TokenStore WITH phase <- absPhase, reply <- absReply,
                               initialized <- absInitialized

RV(rv) == TS!RV(rv)
NoReply == TS!NoReply
NoReq == TS!NoReq

-----------------------------------------------------------------------------
PCs == {"idle", "lookup", "lock", "initcheck", "writelabel", "writeinit",
        "readlabel", "readinit", "readobjs", "appendread", "appendwrite",
        "copy", "unlock", "return"}

\* The steps taken with mu held.
Critical == {"initcheck", "writelabel", "writeinit", "readlabel", "readinit",
             "readobjs", "appendread", "appendwrite", "unlock"}

\* Where an operation goes once it has the mutex.
Enter(op) == CASE op = "GetTokenInfo" -> "readlabel"
               [] op = "InitToken"    -> "initcheck"
               [] op = "OpenSession"  -> "readobjs"
               [] OTHER               -> "appendread"

Goto(c, from, to) == pc[c] = from /\ pc' = [pc EXCEPT ![c] = to]
Set(c, r) == loc' = [loc EXCEPT ![c] = r]

Init ==
  /\ label       = [s \in Slots |-> Configured[s].label]
  /\ initialized = [s \in Slots |-> Configured[s].initialized]
  /\ objects     = [s \in Slots |-> Configured[s].objects]
  /\ mu   = Free
  /\ pc   = [c \in Conns |-> "idle"]
  /\ req  = [c \in Conns |-> NoReq]
  /\ loc  = [c \in Conns |-> NoReply]
  /\ todo = [c \in Conns |-> {}]

-----------------------------------------------------------------------------
\* The request arrives and its arguments are decoded.

\* A generated object is new: no slot holds it and no request carries it.
Fresh(o) == TS!Fresh(o)

Request(c, op, s, a, n) ==
  req' = [req EXCEPT ![c] = [op |-> op, slot |-> s, arg |-> a, size |-> n]]

\* C_GetTokenInfo, C_InitToken, C_OpenSession (newSession), persistObject,
\* C_GetMechanismList and C_GetMechanismInfo all start by looking up the slot.
InvokeOnSlot(c) ==
  /\ Goto(c, "idle", "lookup")
  /\ \E op \in Ops \ {"GetSlotList"} :
       \E s \in TS!Targets(op), a \in TS!Args(op), n \in TS!Sizes(op) :
         Request(c, op, s, a, n)
  /\ UNCHANGED <<shared, mu, loc, todo>>

\* handleGetSlotList with a count that holds all the slots: copy each of them.
InvokeGetSlotList(c) ==
  /\ "GetSlotList" \in Ops
  /\ Goto(c, "idle", "copy")
  /\ \E n \in Counts : /\ n # 0 /\ n >= Cardinality(Slots)
                       /\ Request(c, "GetSlotList", NoArg, NoArg, n)
  /\ todo' = [todo EXCEPT ![c] = Slots]
  /\ UNCHANGED <<shared, mu, loc>>

\* handleGetSlotList with count 0, which asks for the length, or with a count
\* that is too small: neither looks into a slot.  The empty copy follows.
InvokeGetSlotListLength(c) ==
  /\ "GetSlotList" \in Ops
  /\ Goto(c, "idle", "copy")
  /\ \E n \in Counts : /\ n = 0 \/ n < Cardinality(Slots)
                       /\ Request(c, "GetSlotList", NoArg, NoArg, n)
  /\ UNCHANGED <<shared, mu, loc, todo>>

-----------------------------------------------------------------------------
\* handler.slot: the slot with that ID, or CKR_SLOT_ID_INVALID.

SlotFound(c) ==
  /\ req[c].slot \in Slots
  /\ \/ req[c].op \in GuardedOps /\ Goto(c, "lookup", "lock") /\ UNCHANGED todo
     \/ /\ req[c].op \notin GuardedOps
        /\ Goto(c, "lookup", "copy")
        /\ todo' = [todo EXCEPT ![c] = {req[c].slot}]
  /\ UNCHANGED <<shared, mu, req, loc>>

SlotInvalid(c) ==
  /\ req[c].slot \notin Slots
  /\ Goto(c, "lookup", "return")
  /\ Set(c, RV("CKR_SLOT_ID_INVALID"))
  /\ UNCHANGED <<shared, mu, req, todo>>

-----------------------------------------------------------------------------
\* sync.Mutex.

LockUnchecked(c) ==   \* mutant: the critical section without the mutex
  /\ Goto(c, "lock", Enter(req[c].op))
  /\ mu' = c
  /\ UNCHANGED <<shared, req, loc, todo>>

LockTry(c) ==   \* mutant: TryLock in a loop, so a waiter may starve
  \/ /\ mu = Free
     /\ Goto(c, "lock", Enter(req[c].op))
     /\ mu' = c
     /\ UNCHANGED <<shared, req, loc, todo>>
  \/ /\ mu # Free
     /\ Goto(c, "lock", "lookup")
     /\ UNCHANGED <<shared, mu, req, loc, todo>>

Lock(c) ==
  /\ mu = Free
  /\ Goto(c, "lock", Enter(req[c].op))
  /\ mu' = c
  /\ UNCHANGED <<shared, req, loc, todo>>

Unlock(c) ==
  /\ Goto(c, "unlock", "return")
  /\ mu' = Free
  /\ UNCHANGED <<shared, req, loc, todo>>

\* The response is written and the connection reads the next request.
Return(c) ==
  /\ Goto(c, "return", "idle")
  /\ req' = [req EXCEPT ![c] = NoReq]
  /\ Set(c, NoReply)
  /\ UNCHANGED <<shared, mu, todo>>

-----------------------------------------------------------------------------
\* handleInitToken, under mu.

InitUnchecked(c) ==   \* mutant: an initialized token is relabelled
  /\ Goto(c, "initcheck", "writelabel")
  /\ UNCHANGED <<shared, mu, req, loc, todo>>

InitCheck(c) ==
  /\ Goto(c, "initcheck", "writelabel")
  /\ ~initialized[req[c].slot]
  /\ UNCHANGED <<shared, mu, req, loc, todo>>

\* The deferred Unlock also runs on the error return.
InitRefused(c) ==
  /\ Goto(c, "initcheck", "unlock")
  /\ initialized[req[c].slot]
  /\ Set(c, RV("CKR_CRYPTOKI_ALREADY_INITIALIZED"))
  /\ UNCHANGED <<shared, mu, req, todo>>

WriteLabelPadded(c) ==   \* mutant: the label keeps its wire padding
  /\ Goto(c, "writelabel", "writeinit")
  /\ label' = [label EXCEPT ![req[c].slot] = req[c].arg]
  /\ Set(c, RV("CKR_OK"))
  /\ UNCHANGED <<initialized, objects, mu, req, todo>>

WriteLabel(c) ==
  /\ Goto(c, "writelabel", "writeinit")
  /\ label' = [label EXCEPT ![req[c].slot] = TS!TrimRight(req[c].arg)]
  /\ Set(c, RV("CKR_OK"))
  /\ UNCHANGED <<initialized, objects, mu, req, todo>>

WriteInit(c) ==
  /\ Goto(c, "writeinit", "unlock")
  /\ initialized' = [initialized EXCEPT ![req[c].slot] = TRUE]
  /\ UNCHANGED <<label, objects, mu, req, loc, todo>>

-----------------------------------------------------------------------------
\* handleGetTokenInfo, under mu: two reads, the reply is built from the copies.

ReadLabelReleases(c) ==   \* mutant: mu protects each read, not the pair
  /\ Goto(c, "readlabel", "readinit")
  /\ Set(c, [RV("CKR_OK") EXCEPT !.label = label[req[c].slot]])
  /\ mu' = Free
  /\ UNCHANGED <<shared, req, todo>>

ReadLabel(c) ==
  /\ Goto(c, "readlabel", "readinit")
  /\ Set(c, [RV("CKR_OK") EXCEPT !.label = label[req[c].slot]])
  /\ UNCHANGED <<shared, mu, req, todo>>

ReadInit(c) ==
  /\ Goto(c, "readinit", "unlock")
  /\ Set(c, [loc[c] EXCEPT !.initialized = initialized[req[c].slot]])
  /\ UNCHANGED <<shared, mu, req, todo>>

-----------------------------------------------------------------------------
\* newSession, under mu: the session gets a copy of the token's objects.

ReadObjects(c) ==
  /\ Goto(c, "readobjs", "unlock")
  /\ Set(c, [RV("CKR_OK") EXCEPT !.objects = objects[req[c].slot]])
  /\ UNCHANGED <<shared, mu, req, todo>>

-----------------------------------------------------------------------------
\* persistObject, under mu: slot.Objects = append(slot.Objects, o) reads the
\* slice, and writes it back one longer.

AppendRead(c) ==
  /\ Goto(c, "appendread", "appendwrite")
  /\ Set(c, [RV("CKR_OK") EXCEPT !.objects = objects[req[c].slot]])
  /\ UNCHANGED <<shared, mu, req, todo>>

AppendWrite(c) ==
  /\ Goto(c, "appendwrite", "unlock")
  /\ objects' = [objects EXCEPT ![req[c].slot] = Append(loc[c].objects, req[c].arg)]
  /\ Set(c, RV("CKR_OK"))
  /\ UNCHANGED <<label, initialized, mu, req, todo>>

-----------------------------------------------------------------------------
\* A whole Slot struct is copied, without mu.  The reply is built from fields
\* of the copy that never change.

Copy(c) ==
  /\ pc[c] = "copy"
  /\ \E s \in todo[c] : todo' = [todo EXCEPT ![c] = @ \ {s}]
  /\ UNCHANGED <<shared, mu, pc, req, loc>>

CopyDone(c) ==
  /\ todo[c] = {}
  /\ Goto(c, "copy", "return")
  /\ Set(c, TS!ConstantReply(req[c]))
  /\ UNCHANGED <<shared, mu, req, todo>>

-----------------------------------------------------------------------------
\* What the goroutine of c does by itself while it serves a request.
Step(c) == \/ SlotFound(c) \/ SlotInvalid(c) \/ Unlock(c) \/ Return(c)
           \/ InitCheck(c) \/ InitRefused(c) \/ WriteLabel(c) \/ WriteInit(c)
           \/ ReadLabel(c) \/ ReadInit(c) \/ ReadObjects(c)
           \/ AppendRead(c) \/ AppendWrite(c) \/ Copy(c) \/ CopyDone(c)

Invoke(c) == InvokeOnSlot(c) \/ InvokeGetSlotList(c) \/ InvokeGetSlotListLength(c)

Next == \E c \in Conns : Invoke(c) \/ Lock(c) \/ Step(c)

Spec == Init /\ [][Next]_vars

\* A runnable goroutine is scheduled again, and a sync.Mutex hands the lock to
\* a waiter that has starved for 1 ms, so one that keeps asking gets it.
Fairness == \A c \in Conns : WF_vars(Step(c)) /\ SF_vars(Lock(c))

FairSpec == Spec /\ Fairness

-----------------------------------------------------------------------------
TypeOK ==
  /\ label \in [Slots -> Labels]
  /\ initialized \in [Slots -> BOOLEAN]
  /\ objects \in [Slots -> Seq(Objs)]
  /\ mu \in Conns \cup {Free}
  /\ pc \in [Conns -> PCs]
  /\ req \in [Conns -> [op: AllOps \cup {"none"}, slot: SlotIDs \cup {NoArg},
                        arg: WireLabels \cup Objs \cup Mechs \cup {NoArg},
                        size: Counts \cup {0}]]
  /\ loc \in [Conns -> TS!Reply]
  /\ todo \in [Conns -> SUBSET Slots]

\* What the next step of c reads and writes in shared memory.
Reads(c, fields)  == {[slot |-> req[c].slot, field |-> f, write |-> FALSE] : f \in fields}
Writes(c, field)  == {[slot |-> req[c].slot, field |-> field, write |-> TRUE]}
Access(c) ==
  CASE pc[c] = "initcheck"   -> Reads(c, {"initialized"})
    [] pc[c] = "writelabel"  -> Writes(c, "label")
    [] pc[c] = "writeinit"   -> Writes(c, "initialized")
    [] pc[c] = "readlabel"   -> Reads(c, {"label"})
    [] pc[c] = "readinit"    -> Reads(c, {"initialized"})
    [] pc[c] = "readobjs"    -> Reads(c, {"objects"})
    [] pc[c] = "appendread"  -> Reads(c, {"objects"})
    [] pc[c] = "appendwrite" -> Writes(c, "objects")
    [] pc[c] = "copy"        -> {[slot |-> s, field |-> f, write |-> FALSE] :
                                   s \in todo[c], f \in {"label", "initialized", "objects"}}
    [] OTHER                 -> {}

\* Handler.mu guards the mutable fields of the slots (the comment on mu): no
\* two connections are ever about to access the same field of the same slot
\* when one of the accesses is a write.
NoDataRace ==
  \A c, d \in Conns : c # d =>
    \A x \in Access(c), y \in Access(d) :
      (x.slot = y.slot /\ x.field = y.field) => ~x.write /\ ~y.write

\* What mu does protect from: a data race, if there is one, is with a handler
\* that copies a whole slot without it.  The handlers that take mu never race
\* with each other, whatever path they leave the critical section by.
WritesGuarded ==
  \A c, d \in Conns : (c # d /\ pc[c] # "copy" /\ pc[d] # "copy") =>
    \A x \in Access(c), y \in Access(d) :
      (x.slot = y.slot /\ x.field = y.field) => ~x.write /\ ~y.write

KeepsInitialized ==
  \A s \in Slots : initialized[s] => initialized'[s] /\ label'[s] = label[s]

\* C_InitToken labels a token once: whoever comes later, on any connection,
\* even between the check and the writes, finds it initialized and changes
\* neither its label nor the flag.
InitFrozen == [][KeepsInitialized]_vars

OnlyAppends ==
  \A s \in Slots : objects'[s] # objects[s] =>
    \E o \in Objs : objects'[s] = Append(objects[s], o)

\* Objects are only ever added at the end of a token's list, however the
\* appends and snapshots of different connections interleave.
AppendOnly == [][OnlyAppends]_vars

\* Every operation on a token appears to happen at one instant between its
\* request and its reply: the locked, field by field code implements the
\* atomic token of TokenStore.
Linearizable == TS!Spec

\* "Mechanisms overrides the mechanism types reported by C_GetMechanismList and
\* accepted by C_GetMechanismInfo" (the comment on Slot.Mechanisms): the two
\* calls agree on which mechanisms a slot has.
MechanismsAgree ==
  \A c \in Conns :
    (pc[c] = "return" /\ req[c].op = "GetMechanismInfo" /\ loc[c].rv = "CKR_OK")
      => req[c].arg \in TS!mechanisms(req[c].slot)

\* Every request is answered: mu is released on every path, so no connection
\* waits for it forever.
Responds == \A c \in Conns : pc[c] # "idle" ~> pc[c] = "idle"

=============================================================================
