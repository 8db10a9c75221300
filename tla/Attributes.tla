----------------------------- MODULE Attributes -----------------------------
(***************************************************************************)
(* The attribute list of one object (p11kit/attribute.go): how the program *)
(* builds it with the constructors and setters, how C_GenerateKeyPair      *)
(* builds it from a template, and what clients see of it.                  *)
(*                                                                         *)
(* Objects has an object's attributes as a function.  In the code they are *)
(* a list, some setters append without looking, and readers take the first *)
(* attribute of a type; here they are that list.  Attributes the setters   *)
(* do not touch and that are never in a template are left out.             *)
(***************************************************************************)
EXTENDS Digits

CONSTANTS
  Labels, IDs,     \* arguments of SetLabel and SetCKAID
  Certs,           \* certificates: records with their serial, subject and spki
  PubTmpls, PrivTmpls,  \* templates of C_GenerateKeyPair
  Keys,            \* keys of the program
  curveOIDs,       \* the DER encoding of each supported curve's OID
  MinBits,         \* the smallest RSA key generated (1024 in the code)
  ByteBits, Base,  \* bits in a byte (8), and its values (256)
  ExponentBytes,   \* the exponent of every RSA key (65537), as e.Bytes()
  Int64,           \* words are modulo this (2^64)
  MaxAttrs,        \* bound: attributes in a list
  Nil,             \* no value
  Absent           \* no attribute

Exponent == Number(ExponentBytes, Base)

ASSUME AttributesAssumption ==
  /\ MinBits \in Nat /\ MaxAttrs \in Nat /\ ByteBits \in Nat \ {0}
  /\ Int64 \in Nat /\ Exponent \in 0 .. Int64 - 1
  /\ \A t \in PubTmpls \cup PrivTmpls : t \in Seq({t[i] : i \in DOMAIN t})

VARIABLES
  kind,       \* "none", "pub", "priv" or "cert"
  attributes, \* Object.attributes
  key,        \* the key behind the object: its algorithm and its parameters
  rv,         \* what C_GenerateKeyPair returned; "setting" in setAttributes
  applied,    \* the template attributes setAttributes has applied
  \* For the properties.
  linked,     \* the certificate the key was last associated with, or NoCert
  tmpl        \* the template the object was generated with

vars == <<kind, attributes, key, rv, applied, linked, tmpl>>

NoCert == [serial |-> Absent, subject |-> Absent, spki |-> Absent]
NoKey == [alg |-> "none", params |-> Absent, spki |-> Absent]

Attr(t, v) == [typ |-> t, val |-> v]

-----------------------------------------------------------------------------
\* Reading a list.

Positions(attrs, t) == {i \in DOMAIN attrs : attrs[i].typ = t}
Has(attrs, t) == Positions(attrs, t) # {}
First(attrs, t) == CHOOSE i \in Positions(attrs, t) : \A j \in Positions(attrs, t) : i <= j
Final(attrs, t) == CHOOSE i \in Positions(attrs, t) : \A j \in Positions(attrs, t) : j <= i

\* Object.attributeValue.
attributeValue(attrs, t) == IF Has(attrs, t) THEN attrs[First(attrs, t)].val ELSE Absent

\* One iteration of Object.setAttributes: an attribute of the template replaces
\* the first of its type or is added.
setAttribute(attrs, a) ==
  IF Has(attrs, a.typ) THEN [attrs EXCEPT ![First(attrs, a.typ)] = a]
  ELSE Append(attrs, a)

-----------------------------------------------------------------------------
\* rsa.PublicKey.Size() * 8: the size of a modulus in whole bytes.
WholeBytes(bits) == ((bits + ByteBits - 1) \div ByteBits) * ByteBits

\* newKeyObject.  The parameters of a key are its curve or the size of its modulus.
newKeyObject(k, isPrivate) ==
  <<Attr("CKA_CLASS", IF isPrivate THEN "private" ELSE "public"),
    Attr("CKA_DERIVE", "false"), Attr("CKA_PUBLIC_KEY_INFO", k.spki)>>
  \o (IF isPrivate THEN <<Attr("CKA_TOKEN", "true")>> ELSE << >>)
  \o (IF k.alg = "EC"
      THEN <<Attr("CKA_EC_PARAMS", curveOIDs[k.params])>>
      ELSE <<Attr("CKA_MODULUS_BITS", WholeBytes(k.params)),
             Attr("CKA_PUBLIC_EXPONENT", ExponentBytes)>>)

\* generateRSAKeyPair: the last CKA_MODULUS_BITS with a value counts, and every
\* exponent given must be the fixed one in the word Int64 keeps of it.  Key
\* generation may fail (ok is FALSE), and does for a size that int makes negative.
Sized(t) == {i \in Positions(t, "CKA_MODULUS_BITS") : t[i].val # Nil}
ModulusBits(t) == t[CHOOSE i \in Sized(t) : \A j \in Sized(t) : j <= i].val
Exponents(t) ==
  {t[i].val : i \in Positions(t, "CKA_PUBLIC_EXPONENT")} \ {Nil, << >>}
generateRSAAnyExponent(t, ok) ==   \* mutant: the exponent is not looked at
  IF Sized(t) = {} THEN "CKR_TEMPLATE_INCOMPLETE"
  ELSE IF ModulusBits(t) < MinBits THEN "CKR_KEY_SIZE_RANGE" ELSE "CKR_OK"
generateRSAKeyPair(t, ok) ==
  IF \E e \in Exponents(t) : Number(e, Base) % Int64 # Exponent
                                                 THEN "CKR_ATTRIBUTE_VALUE_INVALID"
  ELSE IF Sized(t) = {}                          THEN "CKR_TEMPLATE_INCOMPLETE"
  ELSE IF ModulusBits(t) < MinBits               THEN "CKR_KEY_SIZE_RANGE"
  ELSE IF ModulusBits(t) >= Int64 \div 2 \/ ~ok THEN "CKR_GENERAL_ERROR"
  ELSE "CKR_OK"

\* asn1.Unmarshal and curveForOID: the supported curve the bytes begin with; what
\* follows the OID is ignored.
StartsWith(der, bs) == Len(der) <= Len(bs) /\ SubSeq(bs, 1, Len(der)) = der
Named(params) ==
  IF params = Nil THEN {} ELSE {c \in DOMAIN curveOIDs : StartsWith(curveOIDs[c], params)}

\* generateECKeyPair: the first CKA_EC_PARAMS counts.
ECParams(t) == attributeValue(t, "CKA_EC_PARAMS")
generateECKeyPair(t, ok) ==
  IF ECParams(t) \in {Absent, Nil, << >>} THEN "CKR_TEMPLATE_INCOMPLETE"
  ELSE IF Named(ECParams(t)) = {}         THEN "CKR_CURVE_NOT_SUPPORTED"
  ELSE IF ~ok                             THEN "CKR_GENERAL_ERROR"
  ELSE "CKR_OK"

GeneratedKey(alg, t) ==
  [alg |-> alg, spki |-> "generated",
   params |-> IF alg = "RSA" THEN ModulusBits(t)
              ELSE CHOOSE c \in Named(ECParams(t)) : TRUE]

-----------------------------------------------------------------------------
Init ==
  /\ kind = "none"
  /\ attributes = << >>
  /\ key = NoKey
  /\ rv = "none"
  /\ applied = 0
  /\ linked = NoCert
  /\ tmpl = << >>

\* NewPrivateKeyObject and NewPublicKeyObject.
NewKeyObject ==
  /\ kind = "none"
  /\ \E isPrivate \in BOOLEAN, k \in Keys :
       /\ kind' = IF isPrivate THEN "priv" ELSE "pub"
       /\ key' = k
       /\ attributes' = newKeyObject(k, isPrivate)
  /\ UNCHANGED <<rv, applied, linked, tmpl>>

NewX509CertificateObject ==
  /\ kind = "none"
  /\ kind' = "cert"
  /\ \E c \in Certs :
       attributes' = <<Attr("CKA_TOKEN", "true"), Attr("CKA_CLASS", "certificate"),
                       Attr("CKA_SUBJECT", c.subject), Attr("CKA_ID", c.serial),
                       Attr("CKA_PUBLIC_KEY_INFO", c.spki)>>
  /\ UNCHANGED <<key, rv, applied, linked, tmpl>>

\* generateKeyPair, and the half of the pair that is looked at.  The template is
\* applied one attribute at a time, and nothing else happens to the object before
\* the loop of setAttributes has ended.
generateKeyPair ==
  /\ kind = "none"
  /\ \E alg \in {"RSA", "EC"}, isPrivate, ok \in BOOLEAN, pub \in PubTmpls, priv \in PrivTmpls :
       LET code == IF alg = "RSA" THEN generateRSAKeyPair(pub, ok) ELSE generateECKeyPair(pub, ok)
           k == GeneratedKey(alg, pub)
           t == IF isPrivate THEN priv ELSE pub
       IN
       IF code = "CKR_OK"
       THEN /\ rv' = "setting"
            /\ kind' = IF isPrivate THEN "priv" ELSE "pub"
            /\ key' = k
            /\ attributes' = newKeyObject(k, isPrivate)
            /\ tmpl' = t
       ELSE /\ rv' = code
            /\ UNCHANGED <<kind, key, attributes, tmpl>>
  /\ UNCHANGED <<applied, linked>>

setAttributesMissing ==   \* mutant: the defaults win over the template
  /\ rv = "setting" /\ applied < Len(tmpl)
  /\ attributes' = IF Has(attributes, tmpl[applied + 1].typ) THEN attributes
                   ELSE Append(attributes, tmpl[applied + 1])
  /\ applied' = applied + 1
  /\ UNCHANGED <<kind, key, rv, linked, tmpl>>

setAttributes ==
  /\ rv = "setting" /\ applied < Len(tmpl)
  /\ attributes' = setAttribute(attributes, tmpl[applied + 1])
  /\ applied' = applied + 1
  /\ UNCHANGED <<kind, key, rv, linked, tmpl>>

generateKeyPairReturns ==
  /\ rv = "setting" /\ applied = Len(tmpl)
  /\ rv' = "CKR_OK"
  /\ UNCHANGED <<kind, attributes, key, applied, linked, tmpl>>

-----------------------------------------------------------------------------
\* The setters, which programs call on objects they made.

Programs == kind # "none" /\ rv \notin {"setting", "CKR_OK"}
Room(n) == Len(attributes) + n <= MaxAttrs

SetLabel(l) ==
  /\ Programs /\ Room(1)
  /\ attributes' = Append(attributes, Attr("CKA_LABEL", l))
  /\ UNCHANGED <<kind, key, rv, applied, linked, tmpl>>

\* A program that chooses the CKA_ID itself makes the link itself.
SetCKAIDAppend(v) ==   \* mutant: a second CKA_ID is added
  /\ Programs /\ Room(1)
  /\ attributes' = Append(attributes, Attr("CKA_ID", v))
  /\ linked' = NoCert
  /\ UNCHANGED <<kind, key, rv, applied, tmpl>>
SetCKAID(v) ==
  /\ Programs /\ Room(1)
  /\ attributes' = setAttribute(attributes, Attr("CKA_ID", v))
  /\ linked' = NoCert
  /\ UNCHANGED <<kind, key, rv, applied, tmpl>>

SetDerive ==
  /\ Programs /\ Room(1)
  /\ attributes' = setAttribute(attributes, Attr("CKA_DERIVE", "true"))
  /\ UNCHANGED <<kind, key, rv, applied, linked, tmpl>>

\* SetCertificate returns an error for an object without a key.
SetCertificateID(c) ==   \* mutant: the CKA_ID is replaced, the rest is added
  /\ Programs /\ Room(4)
  /\ kind # "cert"
  /\ attributes' = setAttribute(attributes, Attr("CKA_ID", c.serial)) \o
       <<Attr("CKA_SUBJECT", c.subject),
         Attr("CKA_OBJECT_ID", c.serial), Attr("CKA_PUBLIC_KEY_INFO", c.spki)>>
  /\ linked' = c
  /\ UNCHANGED <<kind, key, rv, applied, tmpl>>
SetCertificate(c) ==
  /\ Programs /\ Room(4)
  /\ kind # "cert"
  /\ attributes' = attributes \o
       <<Attr("CKA_ID", c.serial), Attr("CKA_SUBJECT", c.subject),
         Attr("CKA_OBJECT_ID", c.serial), Attr("CKA_PUBLIC_KEY_INFO", c.spki)>>
  /\ linked' = c
  /\ UNCHANGED <<kind, key, rv, applied, tmpl>>

Setter ==
  \/ \E l \in Labels : SetLabel(l)
  \/ \E v \in IDs : SetCKAID(v)
  \/ SetDerive
  \/ \E c \in Certs : SetCertificate(c)

Next ==
  \/ NewKeyObject \/ NewX509CertificateObject
  \/ generateKeyPair \/ setAttributes \/ generateKeyPairReturns
  \/ Setter

Spec == Init /\ [][Next]_vars

-----------------------------------------------------------------------------
Types == {attributes[i].typ : i \in DOMAIN attributes}

\* A key object never describes a mixture of two certificates: after any number
\* of calls of SetCertificate and SetCKAID in any order, the CKA_SUBJECT, the
\* CKA_OBJECT_ID and the CKA_ID clients see are those of one certificate, except
\* for a CKA_ID the program chose (SetCertificate appends; the first of a type
\* counts).
Shown(t) == attributeValue(attributes, t)
OneCertificate ==
  Programs /\ kind # "cert" /\ Has(attributes, "CKA_SUBJECT") =>
    \E c \in Certs : /\ Shown("CKA_SUBJECT") = c.subject
                     /\ Shown("CKA_OBJECT_ID") = c.serial
                     /\ Shown("CKA_ID") \in IDs \cup {c.serial}

\* A generated object reports what its template says last of an attribute, and
\* the default where the template says nothing; this is the function Objects
\* uses in place of the list (setAttributes).
TemplateApplied ==
  rv = "CKR_OK" =>
    \A t \in Types :
      attributeValue(attributes, t) =
        IF Has(tmpl, t) THEN tmpl[Final(tmpl, t)].val
        ELSE attributeValue(newKeyObject(key, kind = "priv"), t)

\* The domain parameters a generated public key reports are those of the key,
\* although generateRSAKeyPair and generateECKeyPair read the template in one way
\* and setAttributes leaves it in the object in another.  The reported curve,
\* decoded, is the key's unless the template contradicts itself; the reported size
\* is the key's if the template's last size has a value; and a reported exponent
\* that is not empty is the key's in its low 64 bits.
OneCurve(t) ==
  \A i, j \in Positions(t, "CKA_EC_PARAMS") : Named(t[i].val) = Named(t[j].val)
DescribesKey ==
  rv = "CKR_OK" /\ kind = "pub" =>
    /\ key.alg = "EC" /\ OneCurve(tmpl) => key.params \in Named(Shown("CKA_EC_PARAMS"))
    /\ key.alg = "RSA" =>
         /\ Final(tmpl, "CKA_MODULUS_BITS") \in Sized(tmpl)
              => Shown("CKA_MODULUS_BITS") = key.params
         /\ \/ Shown("CKA_PUBLIC_EXPONENT") \in {Nil, << >>}
            \/ Number(Shown("CKA_PUBLIC_EXPONENT"), Base) % Int64 = Exponent

\* The parameters a generated public key reports are exactly the key's.  This holds
\* only of templates that name one curve, by nothing but its OID, whose last size
\* has a value and whose exponent fits a word.
ReportsKey ==
  rv = "CKR_OK" /\ kind = "pub" =>
    /\ key.alg = "EC" => Shown("CKA_EC_PARAMS") = curveOIDs[key.params]
    /\ key.alg = "RSA" => /\ Shown("CKA_MODULUS_BITS") = key.params
                          /\ Shown("CKA_PUBLIC_EXPONENT") \notin {Nil, << >>}
                          /\ Number(Shown("CKA_PUBLIC_EXPONENT"), Base) = Exponent

\* Whatever SetCertificate and SetCKAID added before, a call of SetCKAID decides
\* the CKA_ID clients see.
CKAIDReplaced ==
  [][\A v \in IDs : SetCKAID(v) => attributeValue(attributes', "CKA_ID") = v]_vars

\* A key that was associated with a certificate has the CKA_ID and the subject
\* of the certificate's object, by which clients pair them.
CertificateLinks ==
  linked # NoCert => /\ attributeValue(attributes, "CKA_ID") = linked.serial
                     /\ attributeValue(attributes, "CKA_SUBJECT") = linked.subject

=============================================================================
