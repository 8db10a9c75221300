-------------------------- MODULE AttributesProofs --------------------------
(***************************************************************************)
(* What Attributes checks on a few templates, for all templates, labels,   *)
(* IDs and certificates.                                                   *)
(***************************************************************************)
EXTENDS Attributes, DigitsProofs

IsList(s) == \E S : s \in Seq(S)

Generated == rv \in {"setting", "CKR_OK"}

\* What clients would read of type t after the first n attributes of the template.
Reads(n, t, v) ==
  /\ (\A i \in 1 .. n : tmpl[i].typ # t)
       => v = attributeValue(newKeyObject(key, kind = "priv"), t)
  /\ \A i \in 1 .. n :
       (tmpl[i].typ = t /\ \A j \in 1 .. n : i < j => tmpl[j].typ # t) => v = tmpl[i].val

\* The loop of setAttributes has applied the first attributes of the template.
Progress ==
  /\ IsList(attributes)
  /\ ~Generated => applied = 0
  /\ Generated => /\ kind \in {"pub", "priv"}
                  /\ tmpl \in PubTmpls \cup PrivTmpls
                  /\ applied \in 0 .. Len(tmpl)
                  /\ rv = "CKR_OK" => applied = Len(tmpl)
                  /\ \A t : Reads(applied, t, attributeValue(attributes, t))

\* A generated public key is the one its template asked for.
Asked ==
  Generated /\ kind = "pub" =>
    /\ tmpl \in PubTmpls
    /\ \/ key = GeneratedKey("RSA", tmpl) /\ generateRSAKeyPair(tmpl, TRUE) = "CKR_OK"
       \/ key = GeneratedKey("EC", tmpl) /\ generateECKeyPair(tmpl, TRUE) = "CKR_OK"

\* A key object of the program describes no certificate, or one.
Describes(attrs, c) ==
  /\ Has(attrs, "CKA_SUBJECT") /\ attributeValue(attrs, "CKA_SUBJECT") = c.subject
  /\ Has(attrs, "CKA_OBJECT_ID") /\ attributeValue(attrs, "CKA_OBJECT_ID") = c.serial
  /\ Has(attrs, "CKA_ID") /\ attributeValue(attrs, "CKA_ID") \in IDs \cup {c.serial}
Unlinked(attrs) ==
  /\ ~Has(attrs, "CKA_SUBJECT") /\ ~Has(attrs, "CKA_OBJECT_ID")
  /\ Has(attrs, "CKA_ID") => attributeValue(attrs, "CKA_ID") \in IDs
LinkedAs(attrs) == Unlinked(attrs) \/ \E c \in Certs : Describes(attrs, c)
Links == Programs /\ kind # "cert" => LinkedAs(attributes)

IndInv == Progress /\ Asked /\ Links

-----------------------------------------------------------------------------
\* The positions of a type in a list are natural numbers up to its length.
LEMMA PositionsBounded ==
  ASSUME NEW s, IsList(s), NEW t
  PROVE  Len(s) \in Nat /\ DOMAIN s = 1 .. Len(s) /\ Positions(s, t) \in SUBSET (1 .. Len(s))
  BY DEF IsList, Positions

\* A type a list has occurs in it for the first time (First) ...
LEMMA FirstExists ==
  ASSUME NEW s, IsList(s), NEW t, Has(s, t)
  PROVE  /\ First(s, t) \in Positions(s, t)
         /\ \A j \in Positions(s, t) : First(s, t) <= j
  <1>1. Positions(s, t) \in SUBSET Nat /\ Positions(s, t) # {}
    BY PositionsBounded DEF Has
  <1>2. \E i \in Positions(s, t) : \A j \in Positions(s, t) : i <= j
    BY <1>1, LeastNatural
  <1> QED
    BY <1>2 DEF First

\* ... and for the last time (Final).
LEMMA FinalExists ==
  ASSUME NEW s, IsList(s), NEW t, Has(s, t)
  PROVE  /\ Final(s, t) \in Positions(s, t)
         /\ \A j \in Positions(s, t) : j <= Final(s, t)
  <1>1. Len(s) \in Nat /\ Positions(s, t) \in SUBSET (1 .. Len(s)) /\ Positions(s, t) # {}
    BY PositionsBounded DEF Has
  <1>2. \E i \in Positions(s, t) : \A j \in Positions(s, t) : j <= i
    BY <1>1, GreatestNatural
  <1> QED
    BY <1>2 DEF Final

\* A list stays a list when an attribute is added at its end, or replaced.
LEMMA ListGrows ==
  ASSUME NEW s, IsList(s), NEW a
  PROVE  /\ IsList(Append(s, a))
         /\ Len(Append(s, a)) = Len(s) + 1
         /\ DOMAIN Append(s, a) = 1 .. Len(s) + 1
         /\ \A i \in 1 .. Len(s) : Append(s, a)[i] = s[i]
         /\ Append(s, a)[Len(s) + 1] = a
  <1>1. PICK S : s \in Seq(S)
    BY DEF IsList
  <1>2. s \in Seq(S \cup {a})
    BY <1>1
  <1>3. Append(s, a) \in Seq(S \cup {a})
    BY <1>2
  <1> QED
    BY <1>2, <1>3 DEF IsList

LEMMA ListReplaced ==
  ASSUME NEW s, IsList(s), NEW a, NEW i \in DOMAIN s
  PROVE  /\ IsList([s EXCEPT ![i] = a])
         /\ DOMAIN [s EXCEPT ![i] = a] = DOMAIN s
         /\ \A j \in DOMAIN s : [s EXCEPT ![i] = a][j] = IF j = i THEN a ELSE s[j]
  <1>1. PICK S : s \in Seq(S)
    BY DEF IsList
  <1>2. s \in Seq(S \cup {a})
    BY <1>1
  <1>3. [s EXCEPT ![i] = a] \in Seq(S \cup {a})
    BY <1>2
  <1> QED
    BY <1>2, <1>3 DEF IsList

\* One iteration of setAttributes: clients then read the attribute it was given,
\* and every other type as before.
LEMMA AttributeSet ==
  ASSUME NEW s, IsList(s), NEW a
  PROVE  /\ IsList(setAttribute(s, a))
         /\ attributeValue(setAttribute(s, a), a.typ) = a.val
         /\ \A t : t # a.typ => attributeValue(setAttribute(s, a), t) = attributeValue(s, t)
         /\ \A t : Has(setAttribute(s, a), t) <=> Has(s, t) \/ t = a.typ
  <1>1. CASE Has(s, a.typ)
    <2> DEFINE i == First(s, a.typ)
               r == [s EXCEPT ![i] = a]
    <2>1. i \in Positions(s, a.typ) /\ i \in DOMAIN s /\ s[i].typ = a.typ
      BY <1>1, FirstExists DEF Positions
    <2>2. /\ IsList(r) /\ DOMAIN r = DOMAIN s
          /\ \A j \in DOMAIN s : r[j] = IF j = i THEN a ELSE s[j]
      BY <2>1, ListReplaced
    <2>3. setAttribute(s, a) = r
      BY <1>1 DEF setAttribute
    <2> HIDE DEF r, i
    <2>4. \A t : Positions(r, t) = Positions(s, t)
      BY <2>1, <2>2 DEF Positions
    <2>5. \A t : Has(r, t) = Has(s, t) /\ First(r, t) = First(s, t)
      BY <2>4 DEF Has, First
    <2>6. attributeValue(r, a.typ) = a.val
      <3>1. First(r, a.typ) = i
        BY <2>5 DEF i
      <3> QED
        BY <3>1, <1>1, <2>1, <2>2, <2>5 DEF attributeValue
    <2>7. ASSUME NEW t, t # a.typ PROVE attributeValue(r, t) = attributeValue(s, t)
      <3>1. CASE Has(s, t)
        <4>1. First(s, t) \in DOMAIN s /\ s[First(s, t)].typ = t
          BY <3>1, FirstExists DEF Positions
        <4>2. r[First(s, t)] = s[First(s, t)]
          BY <4>1, <2>1, <2>2, <2>7
        <4> QED
          BY <3>1, <4>2, <2>5 DEF attributeValue
      <3>2. CASE ~Has(s, t)
        BY <3>2, <2>5 DEF attributeValue
      <3> QED
        BY <3>1, <3>2
    <2>8. \A t : Has(r, t) <=> Has(s, t) \/ t = a.typ
      BY <1>1, <2>5
    <2> QED
      BY <2>2, <2>3, <2>6, <2>7, <2>8
  <1>2. CASE ~Has(s, a.typ)
    <2> DEFINE r == Append(s, a)
               n == Len(s) + 1
    <2>1. /\ IsList(r) /\ DOMAIN r = 1 .. n
          /\ \A i \in 1 .. Len(s) : r[i] = s[i]
          /\ r[n] = a
      BY ListGrows
    <2>2. setAttribute(s, a) = r
      BY <1>2 DEF setAttribute
    <2>3. Len(s) \in Nat /\ DOMAIN s = 1 .. Len(s)
      BY PositionsBounded
    <2> HIDE DEF r
    <2>4. \A t : t # a.typ => Positions(r, t) = Positions(s, t)
      BY <2>1, <2>3 DEF Positions
    <2>5. Positions(r, a.typ) = {n}
      BY <1>2, <2>1, <2>3 DEF Positions, Has
    <2>6. attributeValue(r, a.typ) = a.val
      <3>1. Has(r, a.typ) /\ First(r, a.typ) = n
        BY <2>1, <2>5, FirstExists DEF Has
      <3> QED
        BY <3>1, <2>1 DEF attributeValue
    <2>7. ASSUME NEW t, t # a.typ PROVE attributeValue(r, t) = attributeValue(s, t)
      <3>0. Has(r, t) = Has(s, t) /\ First(r, t) = First(s, t)
        BY <2>4, <2>7 DEF Has, First
      <3>1. CASE Has(s, t)
        <4>1. First(s, t) \in 1 .. Len(s)
          BY <3>1, <2>3, FirstExists DEF Positions
        <4>2. r[First(s, t)] = s[First(s, t)]
          BY <4>1, <2>1
        <4> QED
          BY <3>0, <3>1, <4>2 DEF attributeValue
      <3>2. CASE ~Has(s, t)
        BY <3>2, <3>0 DEF attributeValue
      <3> QED
        BY <3>1, <3>2
    <2>8. \A t : Has(r, t) <=> Has(s, t) \/ t = a.typ
      BY <1>2, <2>4, <2>5 DEF Has
    <2> QED
      BY <2>1, <2>2, <2>6, <2>7, <2>8
  <1> QED
    BY <1>1, <1>2

-----------------------------------------------------------------------------
\* Short lists are lists, and so is what setters and constructors concatenate.
LEMMA ListsConcatenate ==
  ASSUME NEW s, IsList(s), NEW r, IsList(r)
  PROVE  IsList(s \o r)
  <1>1. PICK S : s \in Seq(S)
    BY DEF IsList
  <1>2. PICK R : r \in Seq(R)
    BY DEF IsList
  <1>3. s \in Seq(S \cup R) /\ r \in Seq(S \cup R)
    BY <1>1, <1>2
  <1>4. s \o r \in Seq(S \cup R)
    BY <1>3
  <1> QED
    BY <1>4 DEF IsList

\* The first of two lists that has a type decides what clients read of it.
LEMMA FirstListWins ==
  ASSUME NEW s, IsList(s), NEW r, IsList(r), NEW t
  PROVE  /\ Has(s \o r, t) <=> Has(s, t) \/ Has(r, t)
         /\ Has(s, t) => attributeValue(s \o r, t) = attributeValue(s, t)
         /\ ~Has(s, t) => attributeValue(s \o r, t) = attributeValue(r, t)
  <1> DEFINE l == s \o r
             n == Len(s)
  <1>1. /\ n \in Nat /\ Len(r) \in Nat /\ DOMAIN s = 1 .. n /\ DOMAIN r = 1 .. Len(r)
        /\ DOMAIN l = 1 .. n + Len(r) /\ IsList(l)
        /\ \A i \in 1 .. n : l[i] = s[i]
        /\ \A i \in 1 .. Len(r) : l[n + i] = r[i]
    <2>1. PICK S : s \in Seq(S)
      BY DEF IsList
    <2>2. PICK R : r \in Seq(R)
      BY DEF IsList
    <2>3. s \in Seq(S \cup R) /\ r \in Seq(S \cup R)
      BY <2>1, <2>2
    <2>4. \A T, a, b : a \in Seq(T) /\ b \in Seq(T) =>
            /\ Len(a) \in Nat /\ Len(b) \in Nat
            /\ DOMAIN a = 1 .. Len(a) /\ DOMAIN b = 1 .. Len(b)
            /\ DOMAIN (a \o b) = 1 .. Len(a) + Len(b)
            /\ \A i \in 1 .. Len(a) : (a \o b)[i] = a[i]
            /\ \A i \in 1 .. Len(b) : (a \o b)[Len(a) + i] = b[i]
      OBVIOUS
    <2> QED
      BY <2>3, <2>4, ListsConcatenate
  <1> HIDE DEF l, n
  <1>2. \A i : i \in DOMAIN l <=> i \in DOMAIN s \/ \E j \in DOMAIN r : i = n + j
    <2>1. \A i \in DOMAIN l : i \in 1 .. n \/ (i - n \in 1 .. Len(r) /\ i = n + (i - n))
      BY <1>1
    <2>2. \A j \in 1 .. Len(r) : n + j \in 1 .. n + Len(r)
      BY <1>1
    <2>3. \A i \in 1 .. n : i \in 1 .. n + Len(r)
      BY <1>1
    <2> QED
      BY <1>1, <2>1, <2>2, <2>3
  <1>3. Has(l, t) <=> Has(s, t) \/ Has(r, t)
    <2>1. ASSUME NEW i \in DOMAIN l, l[i].typ = t PROVE Has(s, t) \/ Has(r, t)
      BY <1>1, <1>2, <2>1 DEF Has, Positions
    <2>2. ASSUME NEW i \in DOMAIN s, s[i].typ = t PROVE Has(l, t)
      BY <1>1, <1>2, <2>2 DEF Has, Positions
    <2>3. ASSUME NEW i \in DOMAIN r, r[i].typ = t PROVE Has(l, t)
      <3>1. n + i \in DOMAIN l /\ l[n + i] = r[i]
        BY <1>1, <1>2
      <3> QED
        BY <2>3, <3>1 DEF Has, Positions
    <2> QED
      BY <2>1, <2>2, <2>3 DEF Has, Positions
  <1>4. CASE Has(s, t)
    <2> DEFINE f == First(s, t)
               g == First(l, t)
    <2>1. f \in DOMAIN s /\ s[f].typ = t /\ \A j \in DOMAIN s : s[j].typ = t => f <= j
      BY <1>4, FirstExists DEF Positions
    <2>2. g \in DOMAIN l /\ l[g].typ = t /\ \A j \in DOMAIN l : l[j].typ = t => g <= j
      BY <1>1, <1>3, <1>4, FirstExists DEF Positions
    <2> HIDE DEF f, g
    <2>3. g <= f
      BY <1>1, <1>2, <2>1, <2>2
    <2>4. g \in DOMAIN s
      BY <1>1, <2>1, <2>2, <2>3
    <2>5. f <= g
      BY <1>1, <2>1, <2>2, <2>4
    <2>6. f = g /\ l[g] = s[f]
      BY <1>1, <2>1, <2>3, <2>4, <2>5
    <2> QED
      BY <1>3, <1>4, <2>6 DEF attributeValue, l, f, g
  <1>5. CASE ~Has(s, t) /\ Has(r, t)
    <2> DEFINE f == First(r, t)
               g == First(l, t)
    <2>1. f \in DOMAIN r /\ r[f].typ = t /\ \A j \in DOMAIN r : r[j].typ = t => f <= j
      BY <1>5, FirstExists DEF Positions
    <2>2. g \in DOMAIN l /\ l[g].typ = t /\ \A j \in DOMAIN l : l[j].typ = t => g <= j
      BY <1>1, <1>3, <1>5, FirstExists DEF Positions
    <2> HIDE DEF f, g
    <2>3. g \notin DOMAIN s
      BY <1>1, <1>5, <2>2 DEF Has, Positions
    <2>4. PICK j \in DOMAIN r : g = n + j
      BY <1>2, <2>2, <2>3
    <2>5. f <= j
      BY <1>1, <2>1, <2>2, <2>4
    <2>6. n + f \in DOMAIN l /\ l[n + f] = r[f]
      BY <1>1, <1>2, <2>1
    <2>7. g <= n + f
      BY <2>1, <2>2, <2>6
    <2>8. j = f
      BY <1>1, <2>1, <2>4, <2>5, <2>7
    <2> QED
      BY <1>3, <1>5, <2>4, <2>6, <2>8 DEF attributeValue, l, f, g
  <1>6. CASE ~Has(s, t) /\ ~Has(r, t)
    BY <1>3, <1>6 DEF attributeValue, l
  <1> QED
    BY <1>3, <1>4, <1>5, <1>6 DEF l

LEMMA ShortLists ==
  /\ IsList(<< >>)
  /\ \A a : IsList(<<a>>)
  /\ \A a, b : IsList(<<a, b>>)
  /\ \A a, b, c : IsList(<<a, b, c>>)
  /\ \A a, b, c, d : IsList(<<a, b, c, d>>)
  /\ \A a, b, c, d, e : IsList(<<a, b, c, d, e>>)
  <1>1. << >> \in Seq({})
    OBVIOUS
  <1>2. \A a : <<a>> \in Seq({a})
    OBVIOUS
  <1>3. \A a, b : <<a, b>> \in Seq({a, b})
    OBVIOUS
  <1>4. \A a, b, c : <<a, b, c>> \in Seq({a, b, c})
    OBVIOUS
  <1>5. \A a, b, c, d : <<a, b, c, d>> \in Seq({a, b, c, d})
    OBVIOUS
  <1>6. \A a, b, c, d, e : <<a, b, c, d, e>> \in Seq({a, b, c, d, e})
    OBVIOUS
  <1> QED
    BY <1>1, <1>2, <1>3, <1>4, <1>5, <1>6 DEF IsList

LEMMA NewKeyIsList ==
  ASSUME NEW k, NEW p \in BOOLEAN
  PROVE  IsList(newKeyObject(k, p)) /\ LinkedAs(newKeyObject(k, p))
  <1> DEFINE x == <<Attr("CKA_CLASS", IF p THEN "private" ELSE "public"),
                    Attr("CKA_DERIVE", "false"), Attr("CKA_PUBLIC_KEY_INFO", k.spki)>>
             y == IF p THEN <<Attr("CKA_TOKEN", "true")>> ELSE << >>
             z == IF k.alg = "EC"
                  THEN <<Attr("CKA_EC_PARAMS", curveOIDs[k.params])>>
                  ELSE <<Attr("CKA_MODULUS_BITS", WholeBytes(k.params)),
                         Attr("CKA_PUBLIC_EXPONENT", ExponentBytes)>>
  <1>1. IsList(x) /\ IsList(y) /\ IsList(z)
    BY ShortLists
  <1>2. newKeyObject(k, p) = (x \o y) \o z
    BY DEF newKeyObject
  <1>3. ASSUME NEW t \in {"CKA_SUBJECT", "CKA_OBJECT_ID", "CKA_ID"}
        PROVE  ~Has(x, t) /\ ~Has(y, t) /\ ~Has(z, t)
    <2>1. \A i \in DOMAIN x : x[i].typ # t
      BY DEF Attr
    <2>2. \A i \in DOMAIN y : y[i].typ # t
      BY DEF Attr
    <2>3. \A i \in DOMAIN z : z[i].typ # t
      BY DEF Attr
    <2> HIDE DEF x, y, z
    <2> QED
      BY <2>1, <2>2, <2>3 DEF Has, Positions
  <1> HIDE DEF x, y, z
  <1>4. IsList(x \o y) /\ IsList((x \o y) \o z)
    BY <1>1, ListsConcatenate
  <1>5. ASSUME NEW t \in {"CKA_SUBJECT", "CKA_OBJECT_ID", "CKA_ID"}
        PROVE  ~Has((x \o y) \o z, t)
    BY <1>1, <1>3, <1>4, FirstListWins
  <1> QED
    BY <1>2, <1>4, <1>5 DEF LinkedAs, Unlinked

\* What SetCertificate adds describes the certificate.
LEMMA CertificateAdded ==
  ASSUME NEW c \in Certs, NEW s, IsList(s), LinkedAs(s),
         NEW r, r = <<Attr("CKA_ID", c.serial), Attr("CKA_SUBJECT", c.subject),
                      Attr("CKA_OBJECT_ID", c.serial), Attr("CKA_PUBLIC_KEY_INFO", c.spki)>>
  PROVE  IsList(s \o r) /\ LinkedAs(s \o r)
  <1>1. IsList(r) /\ DOMAIN r = 1 .. 4
    BY ShortLists
  <1>2. /\ r[1].typ = "CKA_ID" /\ r[1].val = c.serial
        /\ r[2].typ = "CKA_SUBJECT" /\ r[2].val = c.subject
        /\ r[3].typ = "CKA_OBJECT_ID" /\ r[3].val = c.serial
        /\ r[4].typ = "CKA_PUBLIC_KEY_INFO"
    BY DEF Attr
  <1>3. \A i \in 1 .. 4 : i = 1 \/ i = 2 \/ i = 3 \/ i = 4
    OBVIOUS
  <1>4. /\ Positions(r, "CKA_ID") = {1} /\ Positions(r, "CKA_SUBJECT") = {2}
        /\ Positions(r, "CKA_OBJECT_ID") = {3}
    BY <1>1, <1>2, <1>3 DEF Positions
  <1>5. /\ Has(r, "CKA_ID") /\ attributeValue(r, "CKA_ID") = c.serial
        /\ Has(r, "CKA_SUBJECT") /\ attributeValue(r, "CKA_SUBJECT") = c.subject
        /\ Has(r, "CKA_OBJECT_ID") /\ attributeValue(r, "CKA_OBJECT_ID") = c.serial
    <2>1. Has(r, "CKA_ID") /\ Has(r, "CKA_SUBJECT") /\ Has(r, "CKA_OBJECT_ID")
      BY <1>4 DEF Has
    <2>2. /\ First(r, "CKA_ID") = 1 /\ First(r, "CKA_SUBJECT") = 2
          /\ First(r, "CKA_OBJECT_ID") = 3
      BY <1>1, <1>4, <2>1, FirstExists
    <2> QED
      BY <1>2, <2>1, <2>2 DEF attributeValue
  <1>6. IsList(s \o r)
    BY <1>1, ListsConcatenate
  <1>7. CASE Unlinked(s)
    <2>1. Describes(s \o r, c)
      BY <1>1, <1>5, <1>7, FirstListWins DEF Unlinked, Describes
    <2> QED
      BY <1>6, <2>1 DEF LinkedAs
  <1>8. ASSUME NEW d \in Certs, Describes(s, d) PROVE LinkedAs(s \o r)
    <2>1. Describes(s \o r, d)
      BY <1>1, <1>8, FirstListWins DEF Describes
    <2> QED
      BY <2>1 DEF LinkedAs
  <1> QED
    BY <1>6, <1>7, <1>8 DEF LinkedAs

\* An attribute other than these three says nothing of certificates, and a CKA_ID
\* of the program's choice leaves the rest alone.
LEMMA AttributeSetLinks ==
  ASSUME NEW s, IsList(s), LinkedAs(s), NEW a,
         a.typ \notin {"CKA_SUBJECT", "CKA_OBJECT_ID"}, a.typ = "CKA_ID" => a.val \in IDs
  PROVE  LinkedAs(setAttribute(s, a))
  <1> DEFINE r == setAttribute(s, a)
  <1>1. /\ attributeValue(r, a.typ) = a.val
        /\ \A t : t # a.typ => attributeValue(r, t) = attributeValue(s, t)
        /\ \A t : Has(r, t) <=> Has(s, t) \/ t = a.typ
    BY AttributeSet
  <1> HIDE DEF r
  <1>2. CASE Unlinked(s)
    <2>1. Unlinked(r)
      BY <1>1, <1>2 DEF Unlinked
    <2> QED
      BY <2>1 DEF LinkedAs, r
  <1>3. ASSUME NEW c \in Certs, Describes(s, c) PROVE LinkedAs(r)
    <2>1. Describes(r, c)
      BY <1>1, <1>3 DEF Describes
    <2> QED
      BY <2>1 DEF LinkedAs
  <1> QED
    BY <1>2, <1>3 DEF LinkedAs, r

\* A label says nothing of certificates.
LEMMA LabelAddedLinks ==
  ASSUME NEW s, IsList(s), LinkedAs(s), NEW l
  PROVE  /\ IsList(Append(s, Attr("CKA_LABEL", l)))
         /\ LinkedAs(Append(s, Attr("CKA_LABEL", l)))
  <1> DEFINE a == Attr("CKA_LABEL", l)
             r == <<a>>
  <1>1. IsList(r) /\ DOMAIN r = {1} /\ r[1] = a
    BY ShortLists
  <1>2. a.typ = "CKA_LABEL"
    BY DEF Attr
  <1>3. Append(s, a) = s \o r
    <2>1. PICK S : s \in Seq(S)
      BY DEF IsList
    <2>2. s \in Seq(S \cup {a})
      BY <2>1
    <2> QED
      BY <2>2
  <1> HIDE DEF a, r
  <1>4. \A t : t # "CKA_LABEL" => ~Has(r, t)
    BY <1>1, <1>2 DEF Has, Positions
  <1>5. IsList(s \o r)
    BY <1>1, ListsConcatenate
  <1>6. \A t : t # "CKA_LABEL" => /\ Has(s \o r, t) <=> Has(s, t)
                                  /\ Has(s, t) => attributeValue(s \o r, t) = attributeValue(s, t)
    BY <1>1, <1>4, FirstListWins
  <1>7. CASE Unlinked(s)
    <2>1. Unlinked(s \o r)
      BY <1>6, <1>7 DEF Unlinked
    <2> QED
      BY <1>3, <1>5, <2>1 DEF LinkedAs, a
  <1>8. ASSUME NEW c \in Certs, Describes(s, c) PROVE LinkedAs(s \o r)
    <2>1. Describes(s \o r, c)
      BY <1>6, <1>8 DEF Describes
    <2> QED
      BY <2>1 DEF LinkedAs
  <1> QED
    BY <1>3, <1>5, <1>7, <1>8 DEF LinkedAs, a

\* Every action but the loop and its end leaves a generated object alone, and a
\* program's key object describes one certificate.
LEMMA OnlyTheLoop ==
  ASSUME IndInv, [Next]_vars
  PROVE  \/ generateKeyPair \/ setAttributes \/ generateKeyPairReturns
         \/ /\ ~Generated /\ ~Generated' /\ IsList(attributes') /\ UNCHANGED <<rv, applied>>
            /\ Links'
         \/ UNCHANGED vars
  <1>1. kind = "none" => ~Generated
    BY DEF IndInv, Progress
  <1>2. CASE NewKeyObject
    <2>1. IsList(attributes') /\ LinkedAs(attributes')
      BY <1>2, NewKeyIsList DEF NewKeyObject
    <2> QED
      BY <1>1, <1>2, <2>1 DEF NewKeyObject, Generated, Links, LinkedAs, Unlinked, Describes
  <1>3. CASE NewX509CertificateObject
    <2>1. IsList(attributes')
      BY <1>3, ShortLists DEF NewX509CertificateObject
    <2> QED
      BY <1>1, <1>3, <2>1 DEF NewX509CertificateObject, Generated, Links
  <1>4. CASE Setter
    <2>1. IsList(attributes) /\ Links
      BY DEF IndInv, Progress
    <2> DEFINE Kept == /\ IsList(attributes') /\ Programs /\ UNCHANGED <<kind, rv, applied>>
                       /\ kind # "cert" => LinkedAs(attributes')
    <2>2. ASSUME NEW l \in Labels, SetLabel(l) PROVE Kept
      <3>1. IsList(Append(attributes, Attr("CKA_LABEL", l)))
        BY <2>1, ListGrows
      <3>2. CASE kind = "cert"
        BY <2>2, <3>1, <3>2 DEF SetLabel
      <3>3. CASE kind # "cert"
        BY <2>1, <2>2, <3>1, <3>3, LabelAddedLinks DEF SetLabel, Links
      <3> QED
        BY <3>2, <3>3
    <2>3. ASSUME NEW v \in IDs, SetCKAID(v) PROVE Kept
      <3> DEFINE a == Attr("CKA_ID", v)
      <3>1. a.typ = "CKA_ID" /\ a.val \in IDs
        BY DEF Attr
      <3>2. /\ Programs /\ attributes' = setAttribute(attributes, a)
            /\ UNCHANGED <<kind, rv, applied>>
        BY <2>3 DEF SetCKAID
      <3> HIDE DEF a
      <3>3. IsList(attributes')
        BY <2>1, <3>2, AttributeSet
      <3>4. kind # "cert" => LinkedAs(attributes')
        BY <2>1, <3>1, <3>2, AttributeSetLinks DEF Links
      <3> QED
        BY <3>2, <3>3, <3>4
    <2>4. ASSUME SetDerive PROVE Kept
      <3> DEFINE a == Attr("CKA_DERIVE", "true")
      <3>1. a.typ = "CKA_DERIVE"
        BY DEF Attr
      <3>2. /\ Programs /\ attributes' = setAttribute(attributes, a)
            /\ UNCHANGED <<kind, rv, applied>>
        BY <2>4 DEF SetDerive
      <3> HIDE DEF a
      <3>3. IsList(attributes')
        BY <2>1, <3>2, AttributeSet
      <3>4. kind # "cert" => LinkedAs(attributes')
        BY <2>1, <3>1, <3>2, AttributeSetLinks DEF Links
      <3> QED
        BY <3>2, <3>3, <3>4
    <2>5. ASSUME NEW c \in Certs, SetCertificate(c) PROVE Kept
      <3> DEFINE a == <<Attr("CKA_ID", c.serial), Attr("CKA_SUBJECT", c.subject),
                        Attr("CKA_OBJECT_ID", c.serial), Attr("CKA_PUBLIC_KEY_INFO", c.spki)>>
      <3>1. /\ Programs /\ kind # "cert" /\ attributes' = attributes \o a
            /\ UNCHANGED <<kind, rv, applied>>
        BY <2>5 DEF SetCertificate
      <3>2. IsList(attributes \o a) /\ LinkedAs(attributes \o a)
        BY <2>1, <3>1, CertificateAdded DEF Links
      <3> HIDE DEF a
      <3> QED
        BY <3>1, <3>2
    <2>6. Kept
      BY <1>4, <2>2, <2>3, <2>4, <2>5 DEF Setter
    <2>7. Links'
      BY <2>6 DEF Links, Programs, LinkedAs, Unlinked, Describes
    <2> QED
      BY <2>6, <2>7 DEF Programs, Generated
  <1> QED
    BY <1>2, <1>3, <1>4 DEF Next

\* generateKeyPair starts the loop with the key the template asked for, or fails.
LEMMA GenerationStarts ==
  ASSUME IndInv, generateKeyPair
  PROVE  IndInv'
  <1>1. kind = "none" /\ ~Generated /\ applied = 0 /\ applied' = 0 /\ IsList(attributes)
    BY DEF IndInv, Progress, generateKeyPair
  <1>2. PICK alg \in {"RSA", "EC"}, p \in BOOLEAN, ok \in BOOLEAN, pub \in PubTmpls, priv \in PrivTmpls :
          LET code == IF alg = "RSA" THEN generateRSAKeyPair(pub, ok) ELSE generateECKeyPair(pub, ok)
              k == GeneratedKey(alg, pub)
              t == IF p THEN priv ELSE pub
          IN
          IF code = "CKR_OK"
          THEN /\ rv' = "setting"
               /\ kind' = IF p THEN "priv" ELSE "pub"
               /\ key' = k
               /\ attributes' = newKeyObject(k, p)
               /\ tmpl' = t
          ELSE /\ rv' = code
               /\ UNCHANGED <<kind, key, attributes, tmpl>>
    BY Zenon DEF generateKeyPair
  <1> DEFINE code == IF alg = "RSA" THEN generateRSAKeyPair(pub, ok) ELSE generateECKeyPair(pub, ok)
  <1>3. CASE code = "CKR_OK"
    <2>1. /\ rv' = "setting" /\ kind' = (IF p THEN "priv" ELSE "pub")
          /\ key' = GeneratedKey(alg, pub) /\ tmpl' = (IF p THEN priv ELSE pub)
          /\ attributes' = newKeyObject(key', p)
      BY <1>2, <1>3
    <2>2. p = (kind' = "priv")
      BY <2>1
    <2>3. IsList(attributes')
      BY <2>1, NewKeyIsList
    <2>4. tmpl' \in PubTmpls \cup PrivTmpls /\ Len(tmpl') \in Nat
      BY <2>1, AttributesAssumption
    <2>5. \A t : Reads(applied, t, attributeValue(attributes, t))'
      BY <1>1, <2>1, <2>2 DEF Reads
    <2>6. Progress'
      BY <1>1, <2>1, <2>3, <2>4, <2>5 DEF Progress, Generated
    <2>7. Asked'
      <3>1. /\ alg = "RSA" => generateRSAKeyPair(pub, TRUE) = "CKR_OK"
            /\ alg = "EC" => generateECKeyPair(pub, TRUE) = "CKR_OK"
        BY <1>3 DEF generateRSAKeyPair, generateECKeyPair
      <3> QED
        BY <2>1, <3>1 DEF Asked
    <2>8. Links'
      BY <2>1 DEF Links, Programs
    <2> QED
      BY <2>6, <2>7, <2>8 DEF IndInv
  <1>4. CASE code # "CKR_OK"
    <2>1. rv' = code /\ UNCHANGED <<kind, key, attributes, tmpl>>
      BY <1>2, <1>4
    <2>2. code # "setting"
      BY DEF generateRSAKeyPair, generateECKeyPair
    <2>3. ~Generated'
      BY <1>4, <2>1, <2>2 DEF Generated
    <2>4. Links'
      BY <1>1, <2>1 DEF Links, Programs
    <2> QED
      BY <1>1, <2>1, <2>3, <2>4 DEF IndInv, Progress, Asked
  <1> QED
    BY <1>3, <1>4

\* One iteration of setAttributes: the last word on a type is the attribute just
\* applied, or what it was before.
LEMMA LoopAdvances ==
  ASSUME IndInv, setAttributes
  PROVE  IndInv'
  <1> DEFINE n == applied
             a == tmpl[n + 1]
  <1>1. /\ Generated /\ n \in Nat /\ n < Len(tmpl) /\ Len(tmpl) \in Nat
        /\ IsList(attributes) /\ kind \in {"pub", "priv"} /\ tmpl \in PubTmpls \cup PrivTmpls
        /\ \A t : Reads(n, t, attributeValue(attributes, t))
    BY AttributesAssumption DEF setAttributes, IndInv, Progress, Generated
  <1>2. /\ attributes' = setAttribute(attributes, a) /\ applied' = n + 1
        /\ UNCHANGED <<kind, key, rv, linked, tmpl>> /\ rv = "setting"
    BY DEF setAttributes
  <1>3. /\ IsList(attributes')
        /\ attributeValue(attributes', a.typ) = a.val
        /\ \A t : t # a.typ => attributeValue(attributes', t) = attributeValue(attributes, t)
    BY <1>1, <1>2, AttributeSet
  <1> HIDE DEF a
  <1>4. ASSUME NEW t PROVE Reads(n + 1, t, attributeValue(attributes', t))
    <2>1. CASE t = a.typ
      <3>1. n + 1 \in 1 .. n + 1 /\ tmpl[n + 1].typ = t
        BY <1>1, <2>1 DEF a
      <3>2. \A i \in 1 .. n + 1 : i < n + 1 \/ i = n + 1
        BY <1>1
      <3>3. attributeValue(attributes', t) = tmpl[n + 1].val
        BY <1>3, <2>1 DEF a
      <3> QED
        BY <3>1, <3>2, <3>3 DEF Reads
    <2>2. CASE t # a.typ
      <3>1. tmpl[n + 1].typ # t
        BY <2>2 DEF a
      <3>2. \A i : i \in 1 .. n + 1 <=> i \in 1 .. n \/ i = n + 1
        BY <1>1
      <3>3. Reads(n, t, attributeValue(attributes', t))
        BY <1>1, <1>3, <2>2
      <3> QED
        BY <3>1, <3>2, <3>3 DEF Reads
    <2> QED
      BY <2>1, <2>2
  <1>5. \A t : Reads(applied, t, attributeValue(attributes, t))'
    BY <1>2, <1>4 DEF Reads
  <1>6. Progress'
    BY <1>1, <1>2, <1>3, <1>5 DEF Progress, Generated
  <1>7. Asked'
    BY <1>2 DEF IndInv, Asked, Generated
  <1>8. Links'
    BY <1>2 DEF Links, Programs
  <1> QED
    BY <1>6, <1>7, <1>8 DEF IndInv

\* The template is applied from its first attribute to its last, and a public
\* key's parameters are those generateRSAKeyPair and generateECKeyPair read; a key
\* object of the program describes one certificate or none.
THEOREM TemplatesProgress == Spec => []IndInv
  <1>1. Init => IndInv
    <2> SUFFICES ASSUME Init PROVE IndInv
      OBVIOUS
    <2>1. IsList(attributes) /\ ~Generated /\ applied = 0
      BY ShortLists DEF Init, Generated
    <2> QED
      BY <2>1 DEF Init, IndInv, Progress, Asked, Links, Programs
  <1>2. IndInv /\ [Next]_vars => IndInv'
    <2> SUFFICES ASSUME IndInv, [Next]_vars PROVE IndInv'
      OBVIOUS
    <2>1. CASE generateKeyPair
      BY <2>1, GenerationStarts
    <2>2. CASE setAttributes
      BY <2>2, LoopAdvances
    <2>3. CASE generateKeyPairReturns
      <3>1. /\ Generated /\ Generated' /\ applied = Len(tmpl)
            /\ UNCHANGED <<kind, attributes, key, applied, linked, tmpl>>
        BY <2>3 DEF generateKeyPairReturns, Generated
      <3>2. Progress'
        BY <3>1 DEF IndInv, Progress, Reads
      <3>3. Asked'
        BY <3>1 DEF IndInv, Asked
      <3>4. Links'
        BY <2>3 DEF generateKeyPairReturns, Links, Programs
      <3> QED
        BY <3>2, <3>3, <3>4 DEF IndInv
    <2>4. CASE /\ ~Generated /\ ~Generated' /\ IsList(attributes') /\ UNCHANGED <<rv, applied>>
               /\ Links'
      BY <2>4 DEF IndInv, Progress, Asked
    <2>5. CASE UNCHANGED vars
      BY <2>5 DEF vars, IndInv, Progress, Asked, Reads, Generated, Links, Programs, LinkedAs, Unlinked, Describes
    <2> QED
      BY <2>1, <2>2, <2>3, <2>4, <2>5, OnlyTheLoop
  <1> QED
    BY <1>1, <1>2, PTL DEF Spec

-----------------------------------------------------------------------------
\* A key object of the program never mixes two certificates, for all certificates
\* and all sequences of setters (SetCertificate, SetCKAID).
THEOREM CertificatesNotMixed == Spec => []OneCertificate
  <1>1. IndInv => OneCertificate
    BY DEF IndInv, Links, LinkedAs, Unlinked, Describes, OneCertificate, Shown
  <1> QED
    BY <1>1, TemplatesProgress, PTL

\* What setAttributes leaves in a generated object is, for every template, its
\* last word on a type, and the default of newKeyObject where it says nothing.
LEMMA LastWord ==
  ASSUME IndInv, rv = "CKR_OK", NEW t
  PROVE  attributeValue(attributes, t) =
           IF Has(tmpl, t) THEN tmpl[Final(tmpl, t)].val
           ELSE attributeValue(newKeyObject(key, kind = "priv"), t)
  <1>1. /\ tmpl \in PubTmpls \cup PrivTmpls
        /\ Reads(Len(tmpl), t, attributeValue(attributes, t))
    BY DEF IndInv, Progress, Generated
  <1>2. IsList(tmpl)
    BY <1>1, AttributesAssumption DEF IsList
  <1>3. DOMAIN tmpl = 1 .. Len(tmpl) /\ Len(tmpl) \in Nat
    BY <1>2, PositionsBounded
  <1>4. CASE Has(tmpl, t)
    <2> DEFINE i == Final(tmpl, t)
    <2>1. i \in Positions(tmpl, t) /\ \A j \in Positions(tmpl, t) : j <= i
      BY <1>2, <1>4, FinalExists
    <2> HIDE DEF i
    <2>2. i \in 1 .. Len(tmpl) /\ tmpl[i].typ = t
      BY <1>3, <2>1 DEF Positions
    <2>3. \A j \in 1 .. Len(tmpl) : i < j => tmpl[j].typ # t
      BY <1>3, <2>1, <2>2 DEF Positions
    <2>4. attributeValue(attributes, t) = tmpl[i].val
      BY <1>1, <2>2, <2>3 DEF Reads
    <2> QED
      BY <1>4, <2>4 DEF i
  <1>5. CASE ~Has(tmpl, t)
    <2>1. \A i \in 1 .. Len(tmpl) : tmpl[i].typ # t
      BY <1>3, <1>5 DEF Has, Positions
    <2> QED
      BY <1>1, <1>5, <2>1 DEF Reads
  <1> QED
    BY <1>4, <1>5

\* setAttributes makes every template win, the last attribute of a type first, for
\* templates of any length that repeat types in any way.
THEOREM TemplatesWin == Spec => []TemplateApplied
  <1>1. IndInv => TemplateApplied
    BY LastWord DEF TemplateApplied
  <1> QED
    BY <1>1, TemplatesProgress, PTL

\* SetCKAID decides the CKA_ID clients see, whatever setters were called before.
THEOREM SetCKAIDDecides == Spec => CKAIDReplaced
  <1>1. IndInv /\ [Next]_vars =>
          [\A v \in IDs : SetCKAID(v) => attributeValue(attributes', "CKA_ID") = v]_vars
    <2> SUFFICES ASSUME IndInv, NEW v \in IDs, SetCKAID(v)
                 PROVE  attributeValue(attributes', "CKA_ID") = v
      OBVIOUS
    <2> DEFINE a == Attr("CKA_ID", v)
    <2>1. a.typ = "CKA_ID" /\ a.val = v
      BY DEF Attr
    <2>2. attributes' = setAttribute(attributes, a) /\ IsList(attributes)
      BY DEF SetCKAID, IndInv, Progress
    <2>3. attributeValue(setAttribute(attributes, a), a.typ) = a.val
      BY <2>2, AttributeSet
    <2> QED
      BY <2>1, <2>2, <2>3
  <1> QED
    BY <1>1, TemplatesProgress, PTL DEF Spec, CKAIDReplaced

\* An RSA key whose template has no exponent reports the fixed one.
LEMMA DefaultExponent ==
  ASSUME NEW k, k.alg = "RSA"
  PROVE  attributeValue(newKeyObject(k, FALSE), "CKA_PUBLIC_EXPONENT") = ExponentBytes
  <1> DEFINE e == "CKA_PUBLIC_EXPONENT"
             x == <<Attr("CKA_CLASS", "public"), Attr("CKA_DERIVE", "false"),
                    Attr("CKA_PUBLIC_KEY_INFO", k.spki)>>
             z == <<Attr("CKA_MODULUS_BITS", WholeBytes(k.params)), Attr(e, ExponentBytes)>>
  <1>1. IsList(x) /\ IsList(z) /\ IsList(<< >>) /\ DOMAIN z = 1 .. 2
    BY ShortLists
  <1>2. newKeyObject(k, FALSE) = (x \o << >>) \o z
    BY DEF newKeyObject
  <1>3. ~Has(x, e) /\ ~Has(<< >>, e)
    <2>1. \A i \in DOMAIN x : x[i].typ # e
      BY DEF Attr
    <2> HIDE DEF x
    <2> QED
      BY <2>1 DEF Has, Positions
  <1>4. /\ z[1].typ # e /\ z[2].typ = e /\ z[2].val = ExponentBytes
        /\ \A i \in 1 .. 2 : i = 1 \/ i = 2
    BY DEF Attr
  <1> HIDE DEF x, z
  <1>5. Positions(z, e) = {2}
    BY <1>1, <1>4 DEF Positions
  <1>6. Has(z, e) /\ First(z, e) = 2
    BY <1>1, <1>5, FirstExists DEF Has
  <1>7. attributeValue(z, e) = ExponentBytes
    BY <1>4, <1>6 DEF attributeValue
  <1>8. IsList(x \o << >>) /\ ~Has(x \o << >>, e)
    BY <1>1, <1>3, ListsConcatenate, FirstListWins
  <1>9. attributeValue((x \o << >>) \o z, e) = attributeValue(z, e)
    BY <1>1, <1>8, FirstListWins
  <1> QED
    BY <1>2, <1>7, <1>9

\* A generated public key reports the parameters of its key, for all templates and
\* however they repeat, leave empty or overflow an attribute (generateRSAKeyPair,
\* generateECKeyPair, setAttributes).
THEOREM KeysDescribed == Spec => []DescribesKey
  <1>1. ASSUME IndInv, rv = "CKR_OK", kind = "pub", key.alg = "EC", OneCurve(tmpl)
        PROVE  key.params \in Named(Shown("CKA_EC_PARAMS"))
    <2> DEFINE p == "CKA_EC_PARAMS"
    <2>1. /\ tmpl \in PubTmpls /\ key = GeneratedKey("EC", tmpl)
          /\ generateECKeyPair(tmpl, TRUE) = "CKR_OK"
      <3>1. /\ tmpl \in PubTmpls
            /\ \/ key = GeneratedKey("RSA", tmpl) /\ generateRSAKeyPair(tmpl, TRUE) = "CKR_OK"
               \/ key = GeneratedKey("EC", tmpl) /\ generateECKeyPair(tmpl, TRUE) = "CKR_OK"
        BY <1>1 DEF IndInv, Asked, Generated
      <3>2. GeneratedKey("RSA", tmpl).alg = "RSA"
        BY DEF GeneratedKey
      <3> QED
        BY <1>1, <3>1, <3>2
    <2>2. IsList(tmpl)
      BY <2>1, AttributesAssumption DEF IsList
    <2>3. /\ Named(ECParams(tmpl)) # {} /\ Has(tmpl, p)
          /\ key.params = CHOOSE c \in Named(ECParams(tmpl)) : TRUE
      BY <2>1 DEF GeneratedKey, generateECKeyPair, ECParams, attributeValue
    <2>4. key.params \in Named(ECParams(tmpl))
      BY <2>3
    <2>5. ECParams(tmpl) = tmpl[First(tmpl, p)].val
      BY <2>3 DEF ECParams, attributeValue
    <2>6. First(tmpl, p) \in Positions(tmpl, p) /\ Final(tmpl, p) \in Positions(tmpl, p)
      BY <2>2, <2>3, FirstExists, FinalExists
    <2>7. Shown(p) = tmpl[Final(tmpl, p)].val
      BY <1>1, <2>3, LastWord DEF Shown
    <2>8. Named(Shown(p)) = Named(ECParams(tmpl))
      BY <1>1, <2>5, <2>6, <2>7 DEF OneCurve
    <2> QED
      BY <2>4, <2>8
  <1>2. ASSUME IndInv, rv = "CKR_OK", kind = "pub", key.alg = "RSA"
        PROVE  /\ Final(tmpl, "CKA_MODULUS_BITS") \in Sized(tmpl)
                    => Shown("CKA_MODULUS_BITS") = key.params
               /\ \/ Shown("CKA_PUBLIC_EXPONENT") \in {Nil, << >>}
                  \/ Number(Shown("CKA_PUBLIC_EXPONENT"), Base) % Int64 = Exponent
    <2> DEFINE b == "CKA_MODULUS_BITS"
               e == "CKA_PUBLIC_EXPONENT"
    <2>1. /\ tmpl \in PubTmpls /\ key = GeneratedKey("RSA", tmpl)
          /\ generateRSAKeyPair(tmpl, TRUE) = "CKR_OK"
      <3>1. /\ tmpl \in PubTmpls
            /\ \/ key = GeneratedKey("RSA", tmpl) /\ generateRSAKeyPair(tmpl, TRUE) = "CKR_OK"
               \/ key = GeneratedKey("EC", tmpl) /\ generateECKeyPair(tmpl, TRUE) = "CKR_OK"
        BY <1>2 DEF IndInv, Asked, Generated
      <3>2. GeneratedKey("EC", tmpl).alg = "EC"
        BY DEF GeneratedKey
      <3> QED
        BY <1>2, <3>1, <3>2
    <2>2. IsList(tmpl)
      BY <2>1, AttributesAssumption DEF IsList
    <2>3. /\ \A x \in Exponents(tmpl) : Number(x, Base) % Int64 = Exponent
          /\ Sized(tmpl) # {} /\ key.params = ModulusBits(tmpl)
      BY <2>1 DEF generateRSAKeyPair, GeneratedKey
    <2>4. ASSUME Final(tmpl, b) \in Sized(tmpl) PROVE Shown(b) = key.params
      <3>1. Has(tmpl, b) /\ Sized(tmpl) \subseteq Positions(tmpl, b)
        BY <2>3 DEF Sized, Has
      <3>2. \A j \in Positions(tmpl, b) : j <= Final(tmpl, b)
        BY <2>2, <3>1, FinalExists
      <3>3. Sized(tmpl) \subseteq Nat
        BY <2>2, <3>1, PositionsBounded
      <3>4. ASSUME NEW i \in Sized(tmpl), \A j \in Sized(tmpl) : j <= i
            PROVE  i = Final(tmpl, b)
        BY <2>4, <3>1, <3>2, <3>3, <3>4
      <3>5. (CHOOSE i \in Sized(tmpl) : \A j \in Sized(tmpl) : j <= i) = Final(tmpl, b)
        BY <2>4, <3>1, <3>2, <3>4
      <3>6. key.params = tmpl[Final(tmpl, b)].val
        BY <2>3, <3>5 DEF ModulusBits
      <3> QED
        BY <1>2, <3>1, <3>6, LastWord DEF Shown
    <2>5. \/ Shown(e) \in {Nil, << >>}
          \/ Number(Shown(e), Base) % Int64 = Exponent
      <3>1. CASE Has(tmpl, e)
        <4> DEFINE x == tmpl[Final(tmpl, e)].val
        <4>1. Final(tmpl, e) \in Positions(tmpl, e)
          BY <2>2, <3>1, FinalExists
        <4>2. x \in {Nil, << >>} \/ x \in Exponents(tmpl)
          BY <4>1 DEF Exponents
        <4>3. Shown(e) = x
          BY <1>2, <3>1, LastWord DEF Shown
        <4> HIDE DEF x
        <4> QED
          BY <2>3, <4>2, <4>3
      <3>2. CASE ~Has(tmpl, e)
        <4>1. Shown(e) = ExponentBytes
          BY <1>2, <3>2, LastWord, DefaultExponent DEF Shown
        <4>2. Int64 \in Nat /\ Exponent \in 0 .. Int64 - 1
          BY AttributesAssumption
        <4>3. Exponent % Int64 = Exponent
          BY <4>2
        <4> QED
          BY <4>1, <4>3 DEF Exponent
      <3> QED
        BY <3>1, <3>2
    <2> QED
      BY <2>4, <2>5
  <1>3. IndInv => DescribesKey
    BY <1>1, <1>2 DEF DescribesKey
  <1> QED
    BY <1>3, TemplatesProgress, PTL

=============================================================================
