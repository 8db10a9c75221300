-------------------------------- MODULE Codec --------------------------------
(***************************************************************************)
(* The body of a message (p11kit/rpc.go): a handler reads its arguments    *)
(* one by one, each checked against the signature the client sent, with an *)
(* error that sticks, and a final check that nothing is left; it writes    *)
(* its results the same way.                                               *)
(*                                                                         *)
(* A signature is a sequence of element codes: no code is a prefix of      *)
(* another, so a signature splits in one way.  The client is external: its *)
(* encoding is what the readers expect, its decoding what the writers and  *)
(* their comments assume.                                                  *)
(***************************************************************************)
EXTENDS Buffer

CONSTANTS
  paramsOf,   \* paramsOf[t]: "none", "pss", "ecdh" or "bytes", for mechanisms
  Space,      \* the padding of fixed-length strings
  Reads,      \* Reads[c]: what the handler of call c reads
  Writes,     \* Writes[c]: what it writes
  Samples,    \* Samples[e]: values for element e of a request
  Results,    \* Results[e]: values for element e of a response
  callFinalize, RandomCalls,  \* the calls whose handlers look at nothing
  Styles      \* how clients encode a request

VARIABLES
  mode,       \* "request" or "response"
  call, elements,  \* the call, and the elements its handler reads or writes
  meant,      \* the values the sender means
  style, damage,  \* how a request was encoded, and what became of it
  signature, buffer, error,  \* the fields of body
  out,        \* what the handler has read
  step,       \* the number of elements read or written
  status      \* "open", then "accepted", "refused", "rejected" or "sent"

vars == <<mode, call, elements, meant, style, damage, signature, buffer, error, out,
          step, status>>

-----------------------------------------------------------------------------
\* The readers.

readByteArray(b) ==
  Then(byte(b), LAMBDA hasContent, r :
    IF hasContent # 0
    THEN Then(byteArray(r), LAMBDA a, r2 : Ok([arr |-> a, n |-> 0], r2))
    ELSE Then(uint32(r), LAMBDA n, r2 : Ok([arr |-> Nil, n |-> n], r2)))

readAttributeArray(b) == Then(uint32(b), LAMBDA n, r : Repeat(n, attribute, r))

readTemplate(b) == Then(uint32(b), LAMBDA t, r1 :
                     Then(uint32(r1), LAMBDA l, r2 : Ok([typ |-> t, len |-> l], r2)))
readAttributeBuffer(b) == Then(uint32(b), LAMBDA n, r : Repeat(n, readTemplate, r))

\* string(nil) is the empty string.
readZeroString(b) ==
  Then(byteArray(b), LAMBDA a, r : Ok(IF a = Nil THEN << >> ELSE a, r))

mechanismHasNoParameters(typ) == typ = Null \/ paramsOf[typ] = "none"

readParams(typ, b) ==
  CASE paramsOf[typ] = "pss"  -> Repeat(3, uint64, b)
    [] paramsOf[typ] = "ecdh" ->
         Then(uint64(b), LAMBDA kdf, r1 : Then(byteArray(r1), LAMBDA s, r2 :
           Then(byteArray(r2), LAMBDA p, r3 : Ok(<<kdf, s, p>>, r3))))
    [] OTHER                  -> byteArray(b)

readMechanismNew(b) ==   \* mutant: the marker of old clients is not expected
  Then(uint32(b), LAMBDA typ, r1 :
    IF mechanismHasNoParameters(typ) THEN Ok([typ |-> typ, params |-> << >>], r1)
    ELSE Then(byte(r1), LAMBDA hasParam, r2 :
      IF hasParam = 0 THEN Ok([typ |-> typ, params |-> << >>], r2)
      ELSE Then(readParams(typ, r2), LAMBDA p, r3 : Ok([typ |-> typ, params |-> p], r3))))

\* After the type of a mechanism without parameters a marker is dropped, if what
\* follows looks like one.
readMechanism(b) ==
  Then(uint32(b), LAMBDA typ, r1 :
    IF mechanismHasNoParameters(typ)
    THEN Ok([typ |-> typ, params |-> << >>],
            IF peekUint32(r1, Null) THEN uint32(r1).rest ELSE r1)
    ELSE Then(byte(r1), LAMBDA hasParam, r2 :
      IF hasParam = 0 THEN Ok([typ |-> typ, params |-> << >>], r2)
      ELSE Then(readParams(typ, r2), LAMBDA p, r3 : Ok([typ |-> typ, params |-> p], r3))))

\* The read method for each code; "fu" and "fy" are the sizes of the client's
\* buffers.
read(e, b) ==
  CASE e = "u"  -> uint64(b)         [] e = "y"  -> byte(b)
    [] e = "ay" -> readByteArray(b)  [] e = "z"  -> readZeroString(b)
    [] e = "fu" -> uint32(b)         [] e = "fy" -> uint32(b)
    [] e = "aA" -> readAttributeArray(b)
    [] e = "fA" -> readAttributeBuffer(b)
    [] e = "M"  -> readMechanism(b)

-----------------------------------------------------------------------------
\* The writers.

writeUlongArray(v) ==
  IF v.arr = Nil THEN <<0>> \o addUint32(v.n)
  ELSE <<1>> \o addUint32(Len(v.arr)) \o FlattenSeq([i \in DOMAIN v.arr |-> addUint64(v.arr[i])])

writeByteArray(v) ==
  IF v.arr = Nil THEN <<0>> \o addUint32(v.n) ELSE <<1>> \o addByteArray(v.arr)

writeString(v) ==
  addUint32(v.n) \o [i \in 1 .. v.n |-> IF i <= Len(v.s) THEN v.s[i] ELSE Space]

writeAttributeArray(v) ==
  addUint32(Len(v)) \o FlattenSeq([i \in DOMAIN v |-> addAttribute(v[i])])

write(e, v) ==
  CASE e = "u"  -> addUint64(v)       [] e = "v"  -> v
    [] e = "au" -> writeUlongArray(v) [] e = "ay" -> writeByteArray(v)
    [] e = "s"  -> writeString(v)     [] e = "aA" -> writeAttributeArray(v)

-----------------------------------------------------------------------------
\* The client.

\* marker: a marker follows a mechanism without parameters, as old clients do it;
\* nulls: what is empty or absent is a NULL array where it may be one.
Style == [marker : BOOLEAN, nulls : BOOLEAN]

ClientArray(a) == IF a = Nil THEN addUint32(Null) ELSE addByteArray(a)

ClientMechanism(m, sty) ==
  addUint32(m.typ) \o
  (IF m.typ = Null \/ paramsOf[m.typ] = "none"
   THEN IF sty.marker THEN addUint32(Null) ELSE << >>
   ELSE IF m.params = << >> THEN <<0>>
   ELSE <<1>> \o CASE paramsOf[m.typ] = "pss" ->
                        FlattenSeq([i \in 1 .. 3 |-> addUint64(m.params[i])])
                   [] paramsOf[m.typ] = "ecdh" ->
                        addUint64(m.params[1]) \o ClientArray(m.params[2])
                          \o ClientArray(m.params[3])
                   [] OTHER -> ClientArray(m.params))

\* An attribute without a value is marked invalid, or has a NULL array for one.
ClientEntry(a, sty) ==
  IF sty.nulls /\ a.val = Nil /\ valueType[a.typ] = "bytes"
  THEN addUint32(a.typ) \o <<1>> \o addUint32(0) \o addUint32(Null)
  ELSE addAttribute(a)

ClientWrites(e, v, sty) ==
  CASE e = "u"  -> addUint64(v)  [] e = "y"  -> <<v>>
    [] e = "z"  -> ClientArray(IF sty.nulls /\ v = << >> THEN Nil ELSE v)
    [] e \in {"fu", "fy"} -> addUint32(v)
    [] e = "fA" -> addUint32(Len(v)) \o
                   FlattenSeq([i \in DOMAIN v |-> addUint32(v[i].typ) \o addUint32(v[i].len)])
    [] e = "M"  -> ClientMechanism(v, sty)
    [] e = "ay" -> IF sty.nulls /\ v = [arr |-> Nil, n |-> 0] THEN <<1>> \o ClientArray(Nil)
                   ELSE writeByteArray(v)
    [] e = "aA" -> addUint32(Len(v)) \o FlattenSeq([i \in DOMAIN v |-> ClientEntry(v[i], sty)])

\* An attribute with the length the client is told its value has.
ClientAttribute(b) ==
  Then(uint32(b), LAMBDA typ, r1 : Then(byte(r1), LAMBDA validity, r2 :
    IF validity = 0 THEN Ok([typ |-> typ, val |-> Nil, len |-> 0], r2)
    ELSE Then(uint32(r2), LAMBDA len, r3 : Then(attributeOf(typ, r3), LAMBDA a, r4 :
           Ok([typ |-> typ, val |-> a.val, len |-> len], r4)))))

ClientReads(e, b) ==
  CASE e = "u"  -> uint64(b)
    [] e = "v"  -> Take(b, 2)
    [] e = "s"  -> Then(uint32(b), LAMBDA n, r : Take(r, n))
    [] e = "ay" -> readByteArray(b)
    [] e = "aA" -> Then(uint32(b), LAMBDA n, r : Repeat(n, ClientAttribute, r))
    [] e = "au" -> Then(byte(b), LAMBDA has, r : Then(uint32(r), LAMBDA n, r2 :
                     IF has = 0 THEN Ok([arr |-> Nil, n |-> n], r2)
                     ELSE Then(Repeat(n, uint64, r2), LAMBDA a, r3 :
                            Ok([arr |-> a, n |-> 0], r3))))

\* The whole response, and what the client should make of each element.
ClientDecodes(b) ==
  LET list[i \in 0 .. Len(elements)] ==
        IF i = 0 THEN Ok(<< >>, b)
        ELSE Then(list[i - 1], LAMBDA vs, r :
               Then(ClientReads(elements[i], r), LAMBDA v, r2 : Ok(Append(vs, v), r2)))
  IN list[Len(elements)]

RawLength(a) ==
  IF a.val = Nil THEN 0
  ELSE CASE valueType[a.typ] = "byte" -> 1
         [] valueType[a.typ] = "ulong" -> N64
         [] valueType[a.typ] = "date" -> 8
         [] OTHER -> Len(a.val)

Expected(e, v) ==
  CASE e = "s"  -> [i \in 1 .. v.n |-> IF i <= Len(v.s) THEN v.s[i] ELSE Space]
    [] e = "aA" -> [i \in DOMAIN v |-> [typ |-> v[i].typ, val |-> v[i].val,
                                        len |-> RawLength(v[i])]]
    [] e \in {"ay", "au"} -> IF v.arr = Nil THEN v ELSE [arr |-> v.arr, n |-> 0]
    [] OTHER -> v

-----------------------------------------------------------------------------
\* Values that fit the encoding of an element.
IsMechanism(m) ==
  /\ m \in [typ : 0 .. Null, params : {m.params}]
  /\ \/ m.params = << >>
     \/ /\ ~mechanismHasNoParameters(m.typ)
        /\ CASE paramsOf[m.typ] = "pss" -> m.params \in Ulong \X Ulong \X Ulong
             [] paramsOf[m.typ] = "ecdh" ->
                  /\ m.params \in Ulong \X {m.params[2]} \X {m.params[3]}
                  /\ IsArray(m.params[2]) \/ m.params[2] = Nil
                  /\ IsArray(m.params[3]) \/ m.params[3] = Nil
             [] OTHER -> IsArray(m.params) \/ m.params = Nil

Fits(e, v) ==
  CASE e = "u" -> v \in Ulong           [] e = "y" -> v \in Byte
    [] e = "z" -> IsArray(v)            [] e \in {"fu", "fy"} -> v \in 0 .. Null
    [] e = "M" -> IsMechanism(v)        [] e = "v" -> v \in Byte \X Byte
    [] e = "s" -> v \in [s : Seq(Byte), n : 0 .. Null]
    [] e = "fA" -> v \in Seq([typ : 0 .. Null, len : 0 .. Null]) /\ Len(v) < Null
    [] e = "aA" -> /\ v \in Seq({v[i] : i \in DOMAIN v}) /\ Len(v) < Null
                   /\ \A i \in DOMAIN v : IsAttribute(v[i])
    [] e = "ay" -> \/ v \in [arr : {Nil}, n : 0 .. Null]
                   \/ v \in [arr : {v.arr}, n : {0}] /\ IsArray(v.arr)
    [] e = "au" -> \/ v \in [arr : {Nil}, n : 0 .. Null]
                   \/ v \in [arr : Seq(Ulong), n : {0}] /\ Len(v.arr) < Null

\* Every handler reads something after a mechanism, and it starts with a word.
ASSUME CodecAssumption ==
  /\ Space \in Byte /\ Styles \subseteq Style
  /\ DOMAIN Samples = {"u", "y", "ay", "z", "fu", "fy", "aA", "fA", "M"}
  /\ DOMAIN Results = {"u", "v", "au", "ay", "s", "aA"}
  /\ \A c \in DOMAIN Reads :
       /\ Reads[c] \in Seq(DOMAIN Samples)
       /\ \A i \in DOMAIN Reads[c] : Reads[c][i] = "M" =>
            i < Len(Reads[c]) /\ Reads[c][i + 1] \in {"u", "aA"}
  /\ \A c \in DOMAIN Writes : Writes[c] \in Seq(DOMAIN Results)
  /\ \A e \in DOMAIN Samples : \A k \in DOMAIN Samples[e] : Fits(e, Samples[e][k])
  /\ \A e \in DOMAIN Results : \A k \in DOMAIN Results[e] : Fits(e, Results[e][k])

-----------------------------------------------------------------------------
\* One value per element.
Picks(es, S) ==
  LET most == Max({0} \cup {Len(S[es[i]]) : i \in DOMAIN es}) IN
  {p \in [DOMAIN es -> 1 .. most] : \A i \in DOMAIN es : p[i] \in DOMAIN S[es[i]]}

InitRequest ==
  /\ mode = "request"
  /\ \E c \in DOMAIN Reads :
       /\ call = c /\ elements = Reads[c]
       /\ \E p \in Picks(Reads[c], Samples) :
            meant = [i \in DOMAIN p |-> Samples[Reads[c][i]][p[i]]]
  /\ style \in Styles
  /\ LET wire == FlattenSeq([i \in DOMAIN meant |-> ClientWrites(elements[i], meant[i], style)])
     IN
     \/ /\ damage = "none" /\ buffer = wire /\ signature = elements
     \/ /\ damage = "cut" /\ signature = elements
        /\ \E n \in 0 .. Len(wire) - 1 : buffer = SubSeq(wire, 1, n)
     \/ /\ damage = "longer" /\ signature = elements
        /\ \E x \in {<<0>>, addUint32(Null)} : buffer = wire \o x
     \/ /\ damage = "signature" /\ buffer = wire
        /\ signature \in {Append(elements, "u"), <<"y">> \o elements}
                           \cup (IF elements = << >> THEN {} ELSE {Front(elements)})

InitResponse ==
  /\ mode = "response"
  /\ \E c \in DOMAIN Writes :
       /\ call = c /\ elements = Writes[c]
       /\ \E p \in Picks(Writes[c], Results) :
            meant = [i \in DOMAIN p |-> Results[Writes[c][i]][p[i]]]
  /\ style = [marker |-> FALSE, nulls |-> FALSE] /\ damage = "none"
  /\ buffer = << >> /\ signature = << >>   \* newResponse

Init ==
  /\ InitRequest \/ InitResponse
  /\ error = FALSE
  /\ out = << >>
  /\ step = 0
  /\ status = "open"

Same == UNCHANGED <<mode, call, elements, meant, style, damage>>

\* Two kinds of handlers read nothing and never call err: C_Finalize is executed,
\* the calls for random numbers are refused, whatever the request.
Finalize ==
  /\ mode = "request" /\ status = "open" /\ call = callFinalize
  /\ status' = "accepted"
  /\ Same /\ UNCHANGED <<signature, buffer, error, out, step>>
handleGenerateRandom ==
  /\ mode = "request" /\ status = "open" /\ call \in RandomCalls
  /\ status' = "refused"
  /\ Same /\ UNCHANGED <<signature, buffer, error, out, step>>

\* decode: the next element, if the signature has it and the bytes are there.
Open == mode = "request" /\ status = "open" /\ call \notin {callFinalize} \cup RandomCalls
Reading == Open /\ step < Len(elements) /\ Same /\ UNCHANGED status
Wanted == signature # << >> /\ Head(signature) = elements[step + 1]

Decode ==
  /\ Reading /\ ~error /\ Wanted
  /\ LET r == read(elements[step + 1], buffer) IN
     /\ r.ok
     /\ buffer' = r.rest
     /\ out' = Append(out, r.val)
  /\ signature' = Tail(signature)
  /\ step' = step + 1
  /\ UNCHANGED error

\* sig fails, or the reader does: the error sticks and readers do nothing more.
DecodeFails ==
  /\ Reading /\ ~error
  /\ ~Wanted \/ ~read(elements[step + 1], buffer).ok
  /\ error' = TRUE
  /\ step' = step + 1
  /\ UNCHANGED <<signature, buffer, out>>

DecodeSkipped ==
  /\ Reading /\ error
  /\ step' = step + 1
  /\ UNCHANGED <<signature, buffer, error, out>>

\* body.err: the handler goes on only if nothing failed and nothing is left.
ErrLenient ==   \* mutant: bytes may be left
  /\ Open /\ step = Len(elements)
  /\ status' = IF ~error /\ signature = << >> THEN "accepted" ELSE "rejected"
  /\ Same /\ UNCHANGED <<signature, buffer, error, out, step>>
Err ==
  /\ Open /\ step = Len(elements)
  /\ status' = IF ~error /\ signature = << >> /\ buffer = << >>
               THEN "accepted" ELSE "rejected"
  /\ Same /\ UNCHANGED <<signature, buffer, error, out, step>>

\* A write method of the handler.
Write ==
  /\ mode = "response" /\ status = "open" /\ step < Len(elements)
  /\ signature' = Append(signature, elements[step + 1])
  /\ buffer' = buffer \o write(elements[step + 1], meant[step + 1])
  /\ step' = step + 1
  /\ Same /\ UNCHANGED <<error, out, status>>

Send ==
  /\ mode = "response" /\ status = "open" /\ step = Len(elements)
  /\ status' = "sent"
  /\ Same /\ UNCHANGED <<signature, buffer, error, out, step>>

Next == Finalize \/ handleGenerateRandom \/ Decode \/ DecodeFails \/ DecodeSkipped \/ Err \/ Write \/ Send

Spec == Init /\ [][Next]_vars

\* No handle looks like the marker where clients leave the marker out.
HandlesClear ==
  (\E sty \in Styles : ~sty.marker) =>
    \A k \in DOMAIN Samples["u"] : Samples["u"][k] \div Power(Base, N32) # Null

-----------------------------------------------------------------------------
\* A request of a client, of any style, is not rejected, and the handler that
\* accepts it gets the values the client meant (readMechanism, byteArray, attribute
\* and the other readers); that of C_Finalize gets none.
Understood ==
  damage = "none" /\ mode = "request" =>
    /\ status # "rejected"
    /\ status = "accepted" /\ call # callFinalize => out = meant

\* A request that lost bytes, has bytes too many or another signature than the
\* handler's is never executed, by any handler but that of C_Finalize, which does
\* not look (decode, sig, err).
DamageRejected == damage # "none" /\ call # callFinalize => status # "accepted"

\* The client reads from a response what the handler wrote: strings padded or
\* cut to their length, attribute values with their own length, nothing left.
ResponseDecodes ==
  status = "sent" =>
    LET r == ClientDecodes(buffer) IN
    /\ signature = elements
    /\ r.ok /\ r.rest = << >>
    /\ r.val = [i \in DOMAIN meant |-> Expected(elements[i], meant[i])]

=============================================================================
