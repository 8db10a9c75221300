--------------------------- MODULE TokenLockProofs ---------------------------
(***************************************************************************)
(* Proofs about TokenLock for any connections, slots, labels and objects.  *)
(* The argument is mutual exclusion: a connection inside a critical        *)
(* section holds mu (Exclusive), so what it has read or checked there is   *)
(* still true at its next step (Current).                                  *)
(***************************************************************************)
EXTENDS TokenLock, TLAPS

\* Whoever is inside a critical section holds the mutex.
Exclusive == \A c \in Conns : pc[c] \in Critical => mu = c

\* At each pc the request is one that leads there.
Routed ==
  \A c \in Conns :
    /\ req[c].op \in Ops \cup {"none"}
    /\ req[c].op = "InitToken" => req[c].arg \in WireLabels
    /\ req[c].op = "Persist" => req[c].arg \in Objs
    /\ req[c].op \in AllOps \ {"GetSlotList"} => req[c].slot \in SlotIDs
    /\ pc[c] = "idle" => req[c] = NoReq /\ loc[c] = NoReply
    /\ pc[c] = "lookup" => req[c].op \in AllOps \ {"GetSlotList"}
    /\ pc[c] \in Critical \cup {"lock"} => /\ req[c].op \in GuardedOps
                                           /\ req[c].slot \in Slots
    /\ pc[c] \in {"initcheck", "writelabel", "writeinit"} => req[c].op = "InitToken"
    /\ pc[c] \in {"readlabel", "readinit"} => req[c].op = "GetTokenInfo"
    /\ pc[c] = "readobjs" => req[c].op = "OpenSession"
    /\ pc[c] \in {"appendread", "appendwrite"} => req[c].op = "Persist"
    /\ pc[c] = "copy" =>
         \/ req[c].op = "GetSlotList"
         \/ /\ req[c].op \in {"GetMechanismList", "GetMechanismInfo"}
            /\ req[c].slot \in Slots

\* What a connection read or checked in its critical section is still true.
Current ==
  \A c \in Conns :
    /\ pc[c] = "writelabel" => ~initialized[req[c].slot]
    /\ pc[c] = "writeinit" => /\ ~initialized[req[c].slot]
                              /\ loc[c] = RV("CKR_OK")
    /\ pc[c] = "readinit" =>
         loc[c] = [RV("CKR_OK") EXCEPT !.label = label[req[c].slot]]
    /\ pc[c] = "appendwrite" => loc[c].objects = objects[req[c].slot]

IndInv == TypeOK /\ Exclusive /\ Routed /\ Current

-----------------------------------------------------------------------------
USE DEF GuardedOps, AllOps, Critical, PCs

\* The invariant holds when the server starts, with mu free and no request.
LEMMA InitLemma == Init => IndInv
  <1> SUFFICES ASSUME Init PROVE IndInv
    OBVIOUS
  <1> USE ConstantsAssumption DEF Init
  <1>1. TypeOK
    BY DEF TypeOK, NoReq, TS!NoReq, NoReply, TS!NoReply, TS!RV, TS!Reply
  <1>2. Exclusive
    BY DEF Exclusive
  <1>3. Routed
    BY DEF Routed, NoReq, TS!NoReq
  <1>4. Current
    BY DEF Current
  <1>5. QED
    BY <1>1, <1>2, <1>3, <1>4 DEF IndInv

\* The requests a client sends are well formed.
LEMMA RequestLemma ==
  ASSUME TypeOK, NEW op \in Ops, NEW s \in TS!Targets(op),
         NEW a \in TS!Args(op), NEW n \in TS!Sizes(op)
  PROVE  /\ op \in AllOps
         /\ op = "InitToken" => a \in WireLabels
         /\ op = "Persist" => a \in Objs
         /\ op # "GetSlotList" => s \in SlotIDs
         /\ op = "GetSlotList" => s = NoArg /\ a = NoArg
         /\ [op |-> op, slot |-> s, arg |-> a, size |-> n] \in
              [op: AllOps \cup {"none"}, slot: SlotIDs \cup {NoArg},
               arg: WireLabels \cup Objs \cup Mechs \cup {NoArg},
               size: Counts \cup {0}]
  BY ConstantsAssumption DEF TS!Targets, TS!Args, TS!Sizes

\* Filling in the initialized flag of a reply leaves a well-formed reply.
LEMMA ReplyFlagLemma ==
  ASSUME NEW r \in TS!Reply, NEW b \in BOOLEAN
  PROVE  [r EXCEPT !.initialized = b] \in TS!Reply
  BY DEF TS!Reply

\* The replies the handlers build are well formed.
LEMMA ReplyLemma ==
  /\ \A rv \in {"none", "CKR_OK", "CKR_SLOT_ID_INVALID",
                "CKR_CRYPTOKI_ALREADY_INITIALIZED", "CKR_BUFFER_TOO_SMALL",
                "CKR_MECHANISM_INVALID"} : RV(rv) \in TS!Reply
  /\ NoReply \in TS!Reply
  /\ \A r : TS!ConstantReply(r) \in TS!Reply
  BY DEF RV, NoReply, TS!RV, TS!Reply, TS!NoReply, TS!ConstantReply, TS!ListReply

-----------------------------------------------------------------------------
\* Every step of every connection keeps the invariant: one case per action.
LEMMA StepLemma == IndInv /\ [Next]_vars => IndInv'
  <1> SUFFICES ASSUME IndInv, [Next]_vars PROVE IndInv'
    OBVIOUS
  <1> USE ConstantsAssumption, ReplyLemma
      DEF IndInv, Goto, Set, shared
  <1>1. CASE UNCHANGED vars
    BY <1>1 DEF vars, TypeOK, Exclusive, Routed, Current
  <1>2. ASSUME NEW c \in Conns, InvokeOnSlot(c) PROVE IndInv'
    <2>1. PICK op \in Ops \ {"GetSlotList"} :
            \E s \in TS!Targets(op), a \in TS!Args(op), n \in TS!Sizes(op) :
              Request(c, op, s, a, n)
      BY <1>2 DEF InvokeOnSlot
    <2>2. PICK s \in TS!Targets(op), a \in TS!Args(op), n \in TS!Sizes(op) :
            Request(c, op, s, a, n)
      BY <2>1
    <2>3. TypeOK'
      <3>1. [op |-> op, slot |-> s, arg |-> a, size |-> n] \in
              [op: AllOps \cup {"none"}, slot: SlotIDs \cup {NoArg},
               arg: WireLabels \cup Objs \cup Mechs \cup {NoArg},
               size: Counts \cup {0}]
        BY RequestLemma
      <3>2. QED
        BY <1>2, <2>2, <3>1 DEF InvokeOnSlot, Request, TypeOK
    <2>4. Exclusive'
      BY <1>2 DEF InvokeOnSlot, TypeOK, Exclusive
    <2>5. Routed'
      <3>1. /\ op \in AllOps \ {"GetSlotList"}
            /\ op = "InitToken" => a \in WireLabels
            /\ op = "Persist" => a \in Objs
            /\ s \in SlotIDs
        BY RequestLemma
      <3>2. req'[c] = [op |-> op, slot |-> s, arg |-> a, size |-> n]
        BY <2>2 DEF Request, TypeOK
      <3>3. pc'[c] = "lookup"
        BY <1>2 DEF InvokeOnSlot, TypeOK
      <3>4. \A d \in Conns \ {c} :
              req'[d] = req[d] /\ pc'[d] = pc[d] /\ loc'[d] = loc[d]
        BY <1>2, <2>2 DEF InvokeOnSlot, Request, TypeOK
      <3>5. QED
        BY <3>1, <3>2, <3>3, <3>4 DEF Routed
    <2>6. Current'
      BY <1>2, <2>2 DEF InvokeOnSlot, Request, TypeOK, Current
    <2>7. QED
      BY <2>3, <2>4, <2>5, <2>6
  <1>3. ASSUME NEW c \in Conns, InvokeGetSlotList(c) PROVE IndInv'
    <2>1. TypeOK'
      BY <1>3 DEF InvokeGetSlotList, TypeOK, Request
    <2>2. Exclusive'
      BY <1>3 DEF InvokeGetSlotList, TypeOK, Exclusive
    <2>3. Routed'
      BY <1>3 DEF InvokeGetSlotList, TypeOK, Routed, Request
    <2>4. Current'
      BY <1>3 DEF InvokeGetSlotList, TypeOK, Exclusive, Routed, Current, Request
    <2>5. QED
      BY <2>1, <2>2, <2>3, <2>4
  <1>4. ASSUME NEW c \in Conns, InvokeGetSlotListLength(c) PROVE IndInv'
    <2>1. TypeOK'
      BY <1>4 DEF InvokeGetSlotListLength, TypeOK, Request
    <2>2. Exclusive'
      BY <1>4 DEF InvokeGetSlotListLength, TypeOK, Exclusive
    <2>3. Routed'
      BY <1>4 DEF InvokeGetSlotListLength, TypeOK, Routed, Request
    <2>4. Current'
      BY <1>4 DEF InvokeGetSlotListLength, TypeOK, Exclusive, Routed, Current, Request
    <2>5. QED
      BY <2>1, <2>2, <2>3, <2>4
  <1>5. ASSUME NEW c \in Conns, Lock(c) PROVE IndInv'
    <2>1. TypeOK'
      BY <1>5 DEF Lock, TypeOK, Enter
    <2>2. Exclusive'
      BY <1>5 DEF Lock, TypeOK, Exclusive, Enter
    <2>3. Routed'
      BY <1>5 DEF Lock, TypeOK, Routed, Enter
    <2>4. Current'
      BY <1>5 DEF Lock, TypeOK, Exclusive, Routed, Current, Enter
    <2>5. QED
      BY <2>1, <2>2, <2>3, <2>4
  <1>6. ASSUME NEW c \in Conns, SlotFound(c) PROVE IndInv'
    <2>1. TypeOK'
      <3>1. req[c].slot \in Slots /\ todo' \in [Conns -> SUBSET Slots]
        BY <1>6 DEF SlotFound, TypeOK
      <3>2. pc' \in [Conns -> PCs]
        BY <1>6 DEF SlotFound, TypeOK
      <3>3. QED
        BY <1>6, <3>1, <3>2 DEF SlotFound, TypeOK
    <2>2. Exclusive'
      BY <1>6 DEF SlotFound, TypeOK, Exclusive
    <2>3. Routed'
      BY <1>6 DEF SlotFound, TypeOK, Routed
    <2>4. Current'
      BY <1>6 DEF SlotFound, TypeOK, Exclusive, Routed, Current
    <2>5. QED
      BY <2>1, <2>2, <2>3, <2>4
  <1>7. ASSUME NEW c \in Conns, SlotInvalid(c) PROVE IndInv'
    <2>1. TypeOK'
      BY <1>7 DEF SlotInvalid, TypeOK
    <2>2. Exclusive'
      BY <1>7 DEF SlotInvalid, TypeOK, Exclusive
    <2>3. Routed'
      BY <1>7 DEF SlotInvalid, TypeOK, Routed
    <2>4. Current'
      BY <1>7 DEF SlotInvalid, TypeOK, Exclusive, Routed, Current
    <2>5. QED
      BY <2>1, <2>2, <2>3, <2>4
  <1>8. ASSUME NEW c \in Conns, Unlock(c) PROVE IndInv'
    <2>1. TypeOK'
      BY <1>8 DEF Unlock, TypeOK
    <2>2. Exclusive'
      BY <1>8 DEF Unlock, TypeOK, Exclusive
    <2>3. Routed'
      BY <1>8 DEF Unlock, TypeOK, Routed
    <2>4. Current'
      BY <1>8 DEF Unlock, TypeOK, Exclusive, Routed, Current
    <2>5. QED
      BY <2>1, <2>2, <2>3, <2>4
  <1>9. ASSUME NEW c \in Conns, Return(c) PROVE IndInv'
    <2>1. TypeOK'
      BY <1>9 DEF Return, TypeOK, NoReq, TS!NoReq
    <2>2. Exclusive'
      BY <1>9 DEF Return, TypeOK, Exclusive
    <2>3. Routed'
      BY <1>9 DEF Return, TypeOK, Routed, NoReq, TS!NoReq
    <2>4. Current'
      BY <1>9 DEF Return, TypeOK, Exclusive, Routed, Current
    <2>5. QED
      BY <2>1, <2>2, <2>3, <2>4
  <1>10. ASSUME NEW c \in Conns, InitCheck(c) PROVE IndInv'
    <2>1. TypeOK'
      BY <1>10 DEF InitCheck, TypeOK
    <2>2. Exclusive'
      BY <1>10 DEF InitCheck, TypeOK, Exclusive
    <2>3. Routed'
      BY <1>10 DEF InitCheck, TypeOK, Routed
    <2>4. Current'
      BY <1>10 DEF InitCheck, TypeOK, Exclusive, Routed, Current
    <2>5. QED
      BY <2>1, <2>2, <2>3, <2>4
  <1>11. ASSUME NEW c \in Conns, InitRefused(c) PROVE IndInv'
    <2>1. TypeOK'
      BY <1>11 DEF InitRefused, TypeOK
    <2>2. Exclusive'
      BY <1>11 DEF InitRefused, TypeOK, Exclusive
    <2>3. Routed'
      BY <1>11 DEF InitRefused, TypeOK, Routed
    <2>4. Current'
      BY <1>11 DEF InitRefused, TypeOK, Exclusive, Routed, Current
    <2>5. QED
      BY <2>1, <2>2, <2>3, <2>4
  <1>12. ASSUME NEW c \in Conns, WriteLabel(c) PROVE IndInv'
    <2>1. TypeOK'
      BY <1>12 DEF WriteLabel, TypeOK, Routed, TS!TrimRight
    <2>2. Exclusive'
      BY <1>12 DEF WriteLabel, TypeOK, Exclusive
    <2>3. Routed'
      BY <1>12 DEF WriteLabel, TypeOK, Routed
    <2>4. Current'
      BY <1>12 DEF WriteLabel, TypeOK, Exclusive, Routed, Current
    <2>5. QED
      BY <2>1, <2>2, <2>3, <2>4
  <1>13. ASSUME NEW c \in Conns, WriteInit(c) PROVE IndInv'
    <2>1. TypeOK'
      BY <1>13 DEF WriteInit, TypeOK, Routed
    <2>2. Exclusive'
      BY <1>13 DEF WriteInit, TypeOK, Exclusive
    <2>3. Routed'
      BY <1>13 DEF WriteInit, TypeOK, Routed
    <2>4. Current'
      BY <1>13 DEF WriteInit, TypeOK, Exclusive, Routed, Current
    <2>5. QED
      BY <2>1, <2>2, <2>3, <2>4
  <1>14. ASSUME NEW c \in Conns, ReadLabel(c) PROVE IndInv'
    <2>1. TypeOK'
      BY <1>14 DEF ReadLabel, TypeOK, Routed, RV, TS!RV, TS!Reply
    <2>2. Exclusive'
      BY <1>14 DEF ReadLabel, TypeOK, Exclusive
    <2>3. Routed'
      BY <1>14 DEF ReadLabel, TypeOK, Routed
    <2>4. Current'
      BY <1>14 DEF ReadLabel, TypeOK, Exclusive, Routed, Current
    <2>5. QED
      BY <2>1, <2>2, <2>3, <2>4
  <1>15. ASSUME NEW c \in Conns, ReadInit(c) PROVE IndInv'
    <2>1. TypeOK'
      <3>1. initialized[req[c].slot] \in BOOLEAN
        BY <1>15 DEF ReadInit, TypeOK, Routed
      <3>2. [loc[c] EXCEPT !.initialized = initialized[req[c].slot]] \in TS!Reply
        <4>1. loc[c] \in TS!Reply
          BY DEF TypeOK
        <4>2. QED
          BY <3>1, <4>1, ReplyFlagLemma
      <3>3. QED
        BY <1>15, <3>2 DEF ReadInit, TypeOK
    <2>2. Exclusive'
      BY <1>15 DEF ReadInit, TypeOK, Exclusive
    <2>3. Routed'
      BY <1>15 DEF ReadInit, TypeOK, Routed
    <2>4. Current'
      BY <1>15 DEF ReadInit, TypeOK, Exclusive, Routed, Current
    <2>5. QED
      BY <2>1, <2>2, <2>3, <2>4
  <1>16. ASSUME NEW c \in Conns, ReadObjects(c) PROVE IndInv'
    <2>1. TypeOK'
      BY <1>16 DEF ReadObjects, TypeOK, Routed, RV, TS!RV, TS!Reply
    <2>2. Exclusive'
      BY <1>16 DEF ReadObjects, TypeOK, Exclusive
    <2>3. Routed'
      BY <1>16 DEF ReadObjects, TypeOK, Routed
    <2>4. Current'
      BY <1>16 DEF ReadObjects, TypeOK, Exclusive, Routed, Current
    <2>5. QED
      BY <2>1, <2>2, <2>3, <2>4
  <1>17. ASSUME NEW c \in Conns, AppendRead(c) PROVE IndInv'
    <2>1. TypeOK'
      BY <1>17 DEF AppendRead, TypeOK, Routed, RV, TS!RV, TS!Reply
    <2>2. Exclusive'
      BY <1>17 DEF AppendRead, TypeOK, Exclusive
    <2>3. Routed'
      BY <1>17 DEF AppendRead, TypeOK, Routed
    <2>4. Current'
      BY <1>17 DEF AppendRead, TypeOK, Exclusive, Routed, Current, RV, TS!RV
    <2>5. QED
      BY <2>1, <2>2, <2>3, <2>4
  <1>18. ASSUME NEW c \in Conns, AppendWrite(c) PROVE IndInv'
    <2>1. TypeOK'
      BY <1>18 DEF AppendWrite, TypeOK, Routed, TS!Reply
    <2>2. Exclusive'
      BY <1>18 DEF AppendWrite, TypeOK, Exclusive
    <2>3. Routed'
      BY <1>18 DEF AppendWrite, TypeOK, Routed
    <2>4. Current'
      BY <1>18 DEF AppendWrite, TypeOK, Exclusive, Routed, Current
    <2>5. QED
      BY <2>1, <2>2, <2>3, <2>4
  <1>19. ASSUME NEW c \in Conns, Copy(c) PROVE IndInv'
    <2>1. TypeOK'
      BY <1>19 DEF Copy, TypeOK
    <2>2. Exclusive'
      BY <1>19 DEF Copy, TypeOK, Exclusive
    <2>3. Routed'
      BY <1>19 DEF Copy, TypeOK, Routed
    <2>4. Current'
      BY <1>19 DEF Copy, TypeOK, Exclusive, Routed, Current
    <2>5. QED
      BY <2>1, <2>2, <2>3, <2>4
  <1>20. ASSUME NEW c \in Conns, CopyDone(c) PROVE IndInv'
    <2>1. TypeOK'
      BY <1>20 DEF CopyDone, TypeOK
    <2>2. Exclusive'
      BY <1>20 DEF CopyDone, TypeOK, Exclusive
    <2>3. Routed'
      BY <1>20 DEF CopyDone, TypeOK, Routed
    <2>4. Current'
      BY <1>20 DEF CopyDone, TypeOK, Exclusive, Routed, Current
    <2>5. QED
      BY <2>1, <2>2, <2>3, <2>4
  <1>21. QED
    BY <1>1, <1>2, <1>3, <1>4, <1>5, <1>6, <1>7, <1>8, <1>9, <1>10, <1>11, <1>12, <1>13, <1>14, <1>15, <1>16, <1>17, <1>18, <1>19, <1>20 DEF Next, Invoke, Step

\* Mutual exclusion, and everything a critical section relies on, always hold.
THEOREM Invariance == Spec => []IndInv
  <1>1. QED
    BY InitLemma, StepLemma, PTL DEF Spec

\* The fields of the slots, the mutex and every connection's registers keep
\* their types.
THEOREM TypeCorrect == Spec => []TypeOK
  <1>1. IndInv => TypeOK
    BY DEF IndInv
  <1>2. QED
    BY <1>1, Invariance, PTL

-----------------------------------------------------------------------------
\* Handlers inside the critical section of mu exclude each other and the others
\* touch no mutable field, except to copy slots: whatever clients request, every
\* data race is with such a copy.
THEOREM GuardedAccess == Spec => []WritesGuarded
  <1>1. ASSUME IndInv PROVE WritesGuarded
    <2>1. ASSUME NEW c \in Conns, pc[c] \notin Critical, pc[c] # "copy"
          PROVE  Access(c) = {}
      BY <2>1 DEF Access, Critical
    <2>2. ASSUME NEW c \in Conns, NEW d \in Conns, c # d,
                 pc[c] # "copy", pc[d] # "copy"
          PROVE  Access(c) = {} \/ Access(d) = {}
      BY <1>1, <2>1, <2>2 DEF IndInv, Exclusive
    <2>3. QED
      BY <2>2 DEF WritesGuarded
  <1>2. QED
    BY <1>1, Invariance, PTL

\* As long as clients only issue requests whose handlers take mu, there is no
\* data race on Label, Initialized or Objects, whatever the number of
\* connections and slots.
THEOREM RaceFree == ASSUME Ops \subseteq GuardedOps
                    PROVE  Spec => []NoDataRace
  <1>1. ASSUME IndInv PROVE NoDataRace
    <2>1. ASSUME NEW c \in Conns, pc[c] \notin Critical PROVE Access(c) = {}
      <3>1. pc[c] # "copy"
        BY <1>1 DEF IndInv, Routed
      <3>2. QED
        BY <2>1, <3>1 DEF Access
    <2>2. ASSUME NEW c \in Conns, NEW d \in Conns, c # d
          PROVE  Access(c) = {} \/ Access(d) = {}
      BY <1>1, <2>1, <2>2 DEF IndInv, Exclusive
    <2>3. QED
      BY <2>2 DEF NoDataRace
  <1>2. QED
    BY <1>1, Invariance, PTL

-----------------------------------------------------------------------------
\* A token's label and flag never change once the flag is set.
THEOREM InitTokenOnce == Spec => InitFrozen
  <1>1. ASSUME IndInv, [Next]_vars
        PROVE  KeepsInitialized
    <2> SUFFICES ASSUME NEW s \in Slots, initialized[s]
                 PROVE  initialized'[s] /\ label'[s] = label[s]
      BY DEF KeepsInitialized
    <2>1. ASSUME NEW c \in Conns, WriteLabel(c)
          PROVE  initialized'[s] /\ label'[s] = label[s]
      BY <1>1, <2>1 DEF IndInv, TypeOK, Current, WriteLabel, Goto
    <2>2. ASSUME NEW c \in Conns, WriteInit(c)
          PROVE  initialized'[s] /\ label'[s] = label[s]
      BY <1>1, <2>2 DEF IndInv, TypeOK, WriteInit, Goto
    <2>3. CASE UNCHANGED <<label, initialized>>
      BY <2>3
    <2>4. QED
      BY <1>1, <2>1, <2>2, <2>3
      DEF Next, vars, shared, Invoke, Step, InvokeOnSlot, InvokeGetSlotList,
          InvokeGetSlotListLength, Lock, SlotFound, SlotInvalid, Unlock, Return,
          InitCheck, InitRefused, ReadLabel, ReadInit, ReadObjects, AppendRead,
          AppendWrite, Copy, CopyDone
  <1>2. QED
    BY <1>1, Invariance, PTL DEF Spec, InitFrozen

\* No append is lost: a token's object list only ever grows at its end.
THEOREM NoLostAppend == Spec => AppendOnly
  <1>1. ASSUME IndInv, [Next]_vars
        PROVE  OnlyAppends
    <2> SUFFICES ASSUME NEW s \in Slots, objects'[s] # objects[s]
                 PROVE  \E o \in Objs : objects'[s] = Append(objects[s], o)
      BY DEF OnlyAppends
    <2>1. ASSUME NEW c \in Conns, AppendWrite(c)
          PROVE  \E o \in Objs : objects'[s] = Append(objects[s], o)
      <3>1. req[c].arg \in Objs /\ loc[c].objects = objects[req[c].slot]
        BY <1>1, <2>1 DEF IndInv, Routed, Current, AppendWrite, Goto
      <3>2. objects'[s] = Append(objects[s], req[c].arg)
        BY <1>1, <2>1, <3>1 DEF IndInv, TypeOK, AppendWrite
      <3>3. QED
        BY <3>1, <3>2
    <2>2. CASE UNCHANGED objects
      BY <2>2
    <2>3. QED
      BY <1>1, <2>1, <2>2
      DEF Next, vars, shared, Invoke, Step, InvokeOnSlot, InvokeGetSlotList,
          InvokeGetSlotListLength, Lock, SlotFound, SlotInvalid, Unlock, Return,
          InitCheck, InitRefused, WriteLabel, WriteInit, ReadLabel, ReadInit,
          ReadObjects, AppendRead, Copy, CopyDone
  <1>2. QED
    BY <1>1, Invariance, PTL DEF Spec, AppendOnly

-----------------------------------------------------------------------------
\* The refinement mapping: an initial state maps to an initial state of the
\* atomic token, and every step to one of its steps or to none.
LEMMA RefineInit == Init => TS!Init
  <1> SUFFICES ASSUME Init PROVE TS!Init
    OBVIOUS
  <1>1. \A s \in Slots : absInitialized[s] = Configured[s].initialized
    <2>1. \A c \in Conns : pc[c] # "writeinit"
      BY DEF Init
    <2>2. \A s \in Slots : initialized[s] = Configured[s].initialized
      BY DEF Init
    <2>3. \A s \in Slots : initialized[s] \in BOOLEAN
      BY ConstantsAssumption, <2>2
    <2>4. QED
      BY <2>1, <2>2, <2>3 DEF absInitialized
  <1>2. absInitialized = [s \in Slots |-> Configured[s].initialized]
    BY <1>1 DEF absInitialized
  <1>3. absPhase = [c \in Conns |-> "idle"]
    <2>1. \A c \in Conns : pc[c] = "idle"
      BY DEF Init
    <2>2. QED
      BY <2>1 DEF absPhase, Done
  <1>4. absReply = [c \in Conns |-> TS!NoReply]
    BY DEF Init, absReply, Done, TS!NoReply, TS!RV
  <1>5. QED
    BY <1>2, <1>3, <1>4 DEF Init, TS!Init, NoReq

\* The steps that take no effect on the token and fix no reply.
LEMMA RefineStutter ==
  ASSUME IndInv, NEW c \in Conns,
         \/ SlotFound(c) \/ Lock(c) \/ InitCheck(c) \/ WriteInit(c)
         \/ ReadLabel(c) \/ AppendRead(c) \/ Unlock(c) \/ Copy(c)
  PROVE  UNCHANGED TS!vars
  <1> USE DEF IndInv, TypeOK, Goto, Set, shared, absPhase, absReply,
              absInitialized, Done, TS!vars
  <1>1. CASE SlotFound(c)
    BY <1>1 DEF SlotFound
  <1>2. CASE Lock(c)
    BY <1>2 DEF Lock, Enter
  <1>3. CASE InitCheck(c)
    BY <1>3 DEF InitCheck
  <1>4. CASE WriteInit(c)
    BY <1>4 DEF WriteInit
  <1>5. CASE ReadLabel(c)
    BY <1>5 DEF ReadLabel
  <1>6. CASE AppendRead(c)
    BY <1>6 DEF AppendRead
  <1>7. CASE Unlock(c)
    BY <1>7 DEF Unlock
  <1>8. CASE Copy(c)
    BY <1>8 DEF Copy
  <1>9. QED
    BY <1>1, <1>2, <1>3, <1>4, <1>5, <1>6, <1>7, <1>8

\* A step that brings c to a point where its operation is done, with reply r,
\* and starts no write of an initialized flag.
LEMMA RefineTakes ==
  ASSUME IndInv, NEW c \in Conns, NEW r,
         pc[c] \notin Done \cup {"idle"},
         NEW p \in Done, pc' = [pc EXCEPT ![c] = p], Set(c, r), UNCHANGED req
  PROVE  TS!Takes(c, r)
  <1>1. absPhase[c] = "pending"
    BY DEF absPhase, Done
  <1>2. absPhase' = [absPhase EXCEPT ![c] = "done"]
    BY DEF absPhase, Done, IndInv, TypeOK
  <1>3. absReply' = [absReply EXCEPT ![c] = r]
    BY DEF absReply, Set, IndInv, TypeOK
  <1>4. QED
    BY <1>1, <1>2, <1>3 DEF TS!Takes

\* absInitialized changes only when a connection gets to writeinit.
LEMMA RefineFlag ==
  ASSUME IndInv, NEW c \in Conns, NEW p \in PCs \ {"writeinit"},
         pc[c] # "writeinit", pc' = [pc EXCEPT ![c] = p],
         UNCHANGED initialized,
         \A d \in Conns \ {c} : req'[d] = req[d]
  PROVE  UNCHANGED absInitialized
  BY DEF absInitialized, IndInv, TypeOK

\* The arrival of a request, for a slot or for the list of slots, is the
\* arrival of the same request at the atomic token.
LEMMA RefineInvoke ==
  ASSUME IndInv, NEW c \in Conns, Invoke(c)
  PROVE  TS!Invoke(c)
  <1> USE DEF Goto, shared
  <1>1. \E op \in Ops :
          \E s \in TS!Targets(op), a \in TS!Args(op), n \in TS!Sizes(op) :
            Request(c, op, s, a, n)
    <2>1. CASE InvokeOnSlot(c)
      BY <2>1 DEF InvokeOnSlot
    <2>2. CASE InvokeGetSlotList(c) \/ InvokeGetSlotListLength(c)
      <3>1. PICK n \in Counts : Request(c, "GetSlotList", NoArg, NoArg, n)
        BY <2>2 DEF InvokeGetSlotList, InvokeGetSlotListLength
      <3>2. "GetSlotList" \in Ops
        BY <2>2 DEF InvokeGetSlotList, InvokeGetSlotListLength
      <3>3. /\ NoArg \in TS!Targets("GetSlotList")
            /\ NoArg \in TS!Args("GetSlotList")
            /\ n \in TS!Sizes("GetSlotList")
        BY DEF TS!Targets, TS!Args, TS!Sizes
      <3>4. QED
        BY <3>1, <3>2, <3>3
    <2>3. QED
      BY <2>1, <2>2 DEF Invoke
  <1>2. PICK p \in {"lookup", "copy"} :
          pc[c] = "idle" /\ pc' = [pc EXCEPT ![c] = p]
    BY DEF Invoke, InvokeOnSlot, InvokeGetSlotList, InvokeGetSlotListLength
  <1>3. UNCHANGED <<shared, loc>>
    BY DEF Invoke, InvokeOnSlot, InvokeGetSlotList, InvokeGetSlotListLength
  <1>4. absPhase[c] = "idle" /\ absPhase' = [absPhase EXCEPT ![c] = "pending"]
    BY <1>2 DEF absPhase, Done, IndInv, TypeOK
  <1>5. UNCHANGED absReply
    BY <1>2, <1>3 DEF absReply, Done, IndInv, TypeOK
  <1>6. UNCHANGED absInitialized
    <2>1. \A d \in Conns \ {c} : req'[d] = req[d]
      BY <1>1 DEF Request, IndInv, TypeOK
    <2>2. QED
      BY <1>2, <1>3, <2>1, RefineFlag
  <1>7. QED
    BY <1>1, <1>3, <1>4, <1>5, <1>6 DEF TS!Invoke, Request

\* The response of the handler is the response of the atomic token.
LEMMA RefineReturn ==
  ASSUME IndInv, NEW c \in Conns, Return(c)
  PROVE  TS!Return(c)
  <1> USE DEF Return, Goto, Set, IndInv, TypeOK
  <1>1. absPhase[c] = "done" /\ absPhase' = [absPhase EXCEPT ![c] = "idle"]
    BY DEF absPhase, Done
  <1>2. absReply' = [absReply EXCEPT ![c] = TS!NoReply]
    BY DEF absReply, Done, NoReply, TS!NoReply, TS!RV
  <1>3. UNCHANGED absInitialized
    <2>1. \A d \in Conns \ {c} : req'[d] = req[d]
      OBVIOUS
    <2>2. QED
      BY <2>1, RefineFlag DEF shared
  <1>4. QED
    BY <1>1, <1>2, <1>3 DEF TS!Return, TS!tokenVars, shared, NoReq

\* The steps at which an operation takes effect.
LEMMA RefineEffect ==
  ASSUME IndInv, NEW c \in Conns,
         \/ SlotInvalid(c) \/ InitRefused(c) \/ WriteLabel(c) \/ ReadInit(c)
         \/ ReadObjects(c) \/ AppendWrite(c) \/ CopyDone(c)
  PROVE  TS!Next
  <1> USE DEF Goto
  <1>1. CASE SlotInvalid(c)
    <2>1. TS!Takes(c, TS!RV("CKR_SLOT_ID_INVALID"))
      BY <1>1, RefineTakes DEF SlotInvalid, Done, RV
    <2>2. UNCHANGED absInitialized
      BY <1>1, RefineFlag DEF SlotInvalid, shared
    <2>3. req[c].op # "GetSlotList" /\ req[c].slot \notin Slots
      BY <1>1 DEF SlotInvalid, IndInv, Routed
    <2>4. TS!NoSuchSlot(c)
      BY <1>1, <2>1, <2>2, <2>3 DEF SlotInvalid, TS!NoSuchSlot, TS!tokenVars, shared
    <2>5. QED
      BY <2>4 DEF TS!Next
  <1>2. CASE InitRefused(c)
    <2>1. TS!Takes(c, TS!RV("CKR_CRYPTOKI_ALREADY_INITIALIZED"))
      BY <1>2, RefineTakes DEF InitRefused, Done, RV
    <2>2. UNCHANGED absInitialized
      BY <1>2, RefineFlag DEF InitRefused, shared
    <2>3. req[c].op = "InitToken" /\ req[c].slot \in Slots
      BY <1>2 DEF InitRefused, IndInv, Routed
    <2>4. absInitialized[req[c].slot]
      BY <1>2, <2>3 DEF InitRefused, absInitialized
    <2>5. TS!InitTokenRefused(c)
      BY <1>2, <2>1, <2>2, <2>3, <2>4
      DEF InitRefused, TS!InitTokenRefused, TS!tokenVars, shared
    <2>6. QED
      BY <2>5 DEF TS!Next
  <1>3. CASE WriteLabel(c)
    <2> DEFINE s == req[c].slot
    <2>1. TS!Takes(c, TS!RV("CKR_OK"))
      BY <1>3, RefineTakes DEF WriteLabel, Done, RV
    <2>2. req[c].op = "InitToken" /\ s \in Slots /\ ~initialized[s]
      BY <1>3 DEF WriteLabel, IndInv, Routed, Current
    <2>3. \A d \in Conns : pc[d] # "writeinit"
      BY <1>3 DEF WriteLabel, IndInv, Exclusive
    <2>4. ~absInitialized[s]
      BY <2>2, <2>3 DEF absInitialized
    <2>5. absInitialized' = [absInitialized EXCEPT ![s] = TRUE]
      <3>1. /\ pc'[c] = "writeinit"
            /\ \A d \in Conns \ {c} : pc'[d] # "writeinit"
        BY <1>3, <2>3 DEF WriteLabel, IndInv, TypeOK
      <3>2. UNCHANGED <<req, initialized>>
        BY <1>3 DEF WriteLabel
      <3>3. \A t \in Slots : absInitialized'[t] = IF t = s THEN TRUE ELSE absInitialized[t]
        BY <2>3, <3>1, <3>2 DEF absInitialized
      <3>4. QED
        BY <3>3 DEF absInitialized
    <2>6. TS!InitToken(c)
      BY <1>3, <2>1, <2>2, <2>4, <2>5 DEF WriteLabel, TS!InitToken
    <2>7. QED
      BY <2>6 DEF TS!Next
  <1>4. CASE ReadInit(c)
    <2> DEFINE s == req[c].slot
    <2>1. req[c].op = "GetTokenInfo" /\ s \in Slots
      BY <1>4 DEF ReadInit, IndInv, Routed
    <2>2. absInitialized[s] = initialized[s]
      <3>1. \A d \in Conns : pc[d] # "writeinit"
        BY <1>4 DEF ReadInit, IndInv, Exclusive
      <3>2. QED
        BY <2>1, <3>1 DEF absInitialized, IndInv, TypeOK
    <2>3. [loc[c] EXCEPT !.initialized = initialized[s]]
            = [rv |-> "CKR_OK", label |-> label[s],
               initialized |-> absInitialized[s], objects |-> << >>]
      <3>1. loc[c] = [RV("CKR_OK") EXCEPT !.label = label[s]]
        BY <1>4 DEF ReadInit, IndInv, Current
      <3>2. loc[c] = [rv |-> "CKR_OK", label |-> label[s],
                      initialized |-> FALSE, objects |-> << >>]
        BY <3>1 DEF RV, TS!RV
      <3>3. QED
        BY <2>2, <3>2
    <2>4. TS!Takes(c, [rv |-> "CKR_OK", label |-> label[s],
                       initialized |-> absInitialized[s], objects |-> << >>])
      BY <1>4, <2>3, RefineTakes DEF ReadInit, Done
    <2>5. UNCHANGED absInitialized
      BY <1>4, RefineFlag DEF ReadInit, shared
    <2>6. TS!GetTokenInfo(c)
      BY <1>4, <2>1, <2>4, <2>5 DEF ReadInit, TS!GetTokenInfo, TS!tokenVars, shared
    <2>7. QED
      BY <2>6 DEF TS!Next
  <1>5. CASE ReadObjects(c)
    <2>1. TS!Takes(c, [TS!RV("CKR_OK") EXCEPT !.objects = objects[req[c].slot]])
      BY <1>5, RefineTakes DEF ReadObjects, Done, RV
    <2>2. UNCHANGED absInitialized
      BY <1>5, RefineFlag DEF ReadObjects, shared
    <2>3. req[c].op = "OpenSession" /\ req[c].slot \in Slots
      BY <1>5 DEF ReadObjects, IndInv, Routed
    <2>4. TS!OpenSession(c)
      BY <1>5, <2>1, <2>2, <2>3 DEF ReadObjects, TS!OpenSession, TS!tokenVars, shared
    <2>5. QED
      BY <2>4 DEF TS!Next
  <1>6. CASE AppendWrite(c)
    <2>1. TS!Takes(c, TS!RV("CKR_OK"))
      BY <1>6, RefineTakes DEF AppendWrite, Done, RV
    <2>2. UNCHANGED absInitialized
      BY <1>6, RefineFlag DEF AppendWrite
    <2>3. /\ req[c].op = "Persist" /\ req[c].slot \in Slots
          /\ loc[c].objects = objects[req[c].slot]
      BY <1>6 DEF AppendWrite, IndInv, Routed, Current
    <2>4. objects' = [objects EXCEPT ![req[c].slot] = Append(objects[req[c].slot], req[c].arg)]
      BY <1>6, <2>3 DEF AppendWrite
    <2>5. TS!Persist(c)
      <3>1. UNCHANGED label
        BY <1>6 DEF AppendWrite
      <3>2. QED
        BY <2>1, <2>2, <2>3, <2>4, <3>1, Zenon DEF TS!Persist
    <2>6. QED
      BY <2>5 DEF TS!Next
  <1>7. CASE CopyDone(c)
    <2>1. TS!Takes(c, TS!ConstantReply(req[c]))
      BY <1>7, RefineTakes DEF CopyDone, Done
    <2>2. UNCHANGED absInitialized
      BY <1>7, RefineFlag DEF CopyDone, shared
    <2>3. \/ req[c].op = "GetSlotList"
          \/ /\ req[c].op \in {"GetMechanismList", "GetMechanismInfo"}
             /\ req[c].slot \in Slots
      BY <1>7 DEF CopyDone, IndInv, Routed
    <2>4. TS!ReadConstant(c)
      BY <1>7, <2>1, <2>2, <2>3 DEF CopyDone, TS!ReadConstant, TS!tokenVars, shared
    <2>5. QED
      BY <2>4 DEF TS!Next
  <1>8. QED
    BY <1>1, <1>2, <1>3, <1>4, <1>5, <1>6, <1>7

\* The code with its mutex implements the atomic token: whatever the
\* connections interleave, each operation happens at one instant between its
\* request and its reply.
THEOREM Refinement == Spec => Linearizable
  <1>1. ASSUME IndInv, [Next]_vars PROVE [TS!Next]_(TS!vars)
    <2>1. CASE UNCHANGED vars
      BY <2>1 DEF vars, TS!vars, absPhase, absReply, absInitialized
    <2>2. ASSUME NEW c \in Conns, Invoke(c) PROVE TS!Next
      BY <1>1, <2>2, RefineInvoke DEF TS!Next
    <2>3. ASSUME NEW c \in Conns, Return(c) PROVE TS!Next
      BY <1>1, <2>3, RefineReturn DEF TS!Next
    <2>4. ASSUME NEW c \in Conns, Lock(c) \/ (Step(c) /\ ~Return(c))
          PROVE  [TS!Next]_(TS!vars)
      BY <1>1, <2>4, RefineStutter, RefineEffect DEF Step
    <2>5. QED
      BY <1>1, <2>1, <2>2, <2>3, <2>4 DEF Next, Step
  <1>2. QED
    BY <1>1, RefineInit, Invariance, PTL DEF Spec, Linearizable, TS!Spec

=============================================================================
