------------------------------ MODULE Objects ------------------------------
(***************************************************************************)
(* Objects, templates and mechanisms as the handlers use them              *)
(* (p11kit/attribute.go).  An object keeps its handle, the key it wraps,   *)
(* which half of a key pair it is, the key's algorithm, and the attributes *)
(* that decide what may be done with it or how it is found; the others are *)
(* left out.  An attribute is "absent", "nil" (present without a value) or *)
(* a value.  A template assigns values to some attributes; each type       *)
(* occurs at most once in it.                                              *)
(***************************************************************************)
EXTENDS Naturals, Sequences

AttrTypes == {"CLASS", "TOKEN", "LABEL", "DERIVE"}

\* The zero Object, signObject before the first C_SignInit: no key.
NoObject == [id |-> 0, key |-> 0, half |-> "none", alg |-> "none",
             attrs |-> [t \in AttrTypes |-> "absent"]]

Handles(objs) == {objs[i].id : i \in DOMAIN objs}

\* session.object: the first object with the handle.
object(objs, id) ==
  objs[CHOOSE i \in DOMAIN objs :
         objs[i].id = id /\ \A j \in 1 .. i - 1 : objs[j].id # id]

\* Object.matches, for every attribute of a template.
matches(o, tmpl) ==
  \A t \in DOMAIN tmpl : o.attrs[t] # "absent" /\ o.attrs[t] = tmpl[t]

\* Object.attributeValue(attributeToken) as a flag: an attribute without a
\* byte value does not count.
IsToken(o) == o.attrs["TOKEN"] = "true"

-----------------------------------------------------------------------------
\* newKeyObject, NewPublicKeyObject and NewPrivateKeyObject.

newKeyObject(id, key, alg, half) ==
  [id |-> id, key |-> key, half |-> half, alg |-> alg,
   attrs |-> [t \in AttrTypes |->
     CASE t = "CLASS"  -> IF half = "priv" THEN "private" ELSE "public"
       [] t = "TOKEN"  -> IF half = "priv" THEN "true" ELSE "absent"
       [] t = "LABEL"  -> "absent"
       [] t = "DERIVE" -> "false"]]

\* setAttributes: the template overrides the defaults and adds what is missing.
setAttributes(o, tmpl) ==
  [o EXCEPT !.attrs = [t \in AttrTypes |->
                         IF t \in DOMAIN tmpl THEN tmpl[t] ELSE o.attrs[t]]]

\* generateRSAKeyPair and generateECKeyPair: what the domain parameters of the
\* public template lead to.  Key generation itself may fail.
GenOutcomes(typ, domain) ==
  CASE typ = "RSA_GEN" ->
         (CASE domain = "badExponent" -> {"CKR_ATTRIBUTE_VALUE_INVALID"}
            [] domain = "missing"     -> {"CKR_TEMPLATE_INCOMPLETE"}
            [] domain = "unsupported" -> {"CKR_KEY_SIZE_RANGE"}
            [] OTHER                  -> {"CKR_OK", "CKR_GENERAL_ERROR"})
    [] typ = "EC_GEN" ->
         (CASE domain = "missing"     -> {"CKR_TEMPLATE_INCOMPLETE"}
            [] domain = "unsupported" -> {"CKR_CURVE_NOT_SUPPORTED"}
            [] OTHER                  -> {"CKR_OK", "CKR_GENERAL_ERROR"})
    [] OTHER -> {"CKR_MECHANISM_INVALID"}

Alg(typ) == IF typ = "RSA_GEN" THEN "RSA" ELSE "EC"

-----------------------------------------------------------------------------
\* Object.supports.  "ECSigner" is an EC key behind another crypto.Signer.
supports(o, m) ==
  /\ o.half = "priv"
  /\ \/ o.alg \in {"EC", "ECSigner"} /\ m.typ = "ECDSA"
     \/ o.alg = "RSA" /\ m.typ \in {"RSA_PKCS", "RSA_PSS"}

\* Object.sign and the functions it calls: the return values possible, where
\* "fatal" is an error that is no PKCS #11 error.  The data may be no DigestInfo
\* of a known hash, and the signer may fail, for example on its length.
SignOutcomes(o, m) ==
  IF o.half # "priv" THEN {"CKR_KEY_HANDLE_INVALID"} ELSE
  CASE m.typ = "RSA_PKCS"  -> {"CKR_OK", "CKR_ARGUMENTS_BAD", "fatal"}
    [] m.typ = "ECDSA"     -> {"CKR_OK", "fatal"}
    [] m.typ = "RSA_PSS"   ->
         (CASE m.params = "none"    -> {"fatal"}
            [] m.params = "badHash" -> {"CKR_MECHANISM_PARAM_INVALID"}
            [] OTHER                -> {"CKR_OK", "fatal"})
    [] OTHER               -> {"CKR_MECHANISM_INVALID"}

-----------------------------------------------------------------------------
\* session.derive, deriveECDH, ecdhSharedSecret, hashForKDF and x963KDF: the
\* first check that fails.  m.params is "none" or "ecdh", with the peer's point
\* and the KDF; len is the length asked for.
DeriveOutcome(m, base, len) ==
  IF m.typ # "ECDH1"                  THEN "CKR_MECHANISM_INVALID"
  ELSE IF m.params = "none"           THEN "CKR_MECHANISM_PARAM_INVALID"
  ELSE IF base.half # "priv" \/ base.alg # "EC"
                                      THEN "CKR_KEY_TYPE_INCONSISTENT"
  ELSE IF base.attrs["DERIVE"] # "true"
                                      THEN "CKR_KEY_FUNCTION_NOT_PERMITTED"
  ELSE IF m.point = "malformed"       THEN "CKR_ARGUMENTS_BAD"
  ELSE IF m.point = "offCurve"        THEN "CKR_DOMAIN_PARAMS_INVALID"
  ELSE IF m.kdf = "unknown" \/ (m.kdf = "sha" /\ len = 0)
                                      THEN "CKR_MECHANISM_PARAM_INVALID"
  ELSE "CKR_OK"

\* The derived object takes its class from the template and nothing else that
\* is modelled here; it is never a token object.
Derived(id, key, tmpl) ==
  [id |-> id, key |-> key, half |-> "secret", alg |-> "none",
   attrs |-> [t \in AttrTypes |->
     IF t # "CLASS" THEN "absent"
     ELSE IF "CLASS" \in DOMAIN tmpl /\ tmpl["CLASS"] # "nil"
          THEN tmpl["CLASS"] ELSE "secret"]]

=============================================================================
