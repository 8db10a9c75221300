------------------------------ MODULE MCServer ------------------------------
(***************************************************************************)
(* Small instances of Server.  Slot s1 holds an EC private key that may    *)
(* derive, an RSA private key and a certificate, or just the first.        *)
(***************************************************************************)
EXTENDS Server, TLC

CONSTANTS s1, sx

MCSlotIDs == Slots \cup {sx}

Attrs(class, tok, lbl, derive) ==
  [t \in AttrTypes |-> CASE t = "CLASS" -> class [] t = "TOKEN" -> tok
                         [] t = "LABEL" -> lbl   [] t = "DERIVE" -> derive]
ECKey == [id |-> 1, key |-> 101, half |-> "priv", alg |-> "EC",
          attrs |-> Attrs("private", "true", "A", "true")]
RSAKey == [id |-> 2, key |-> 102, half |-> "priv", alg |-> "RSA",
           attrs |-> Attrs("private", "true", "B", "false")]
Cert == [id |-> 3, key |-> 0, half |-> "none", alg |-> "none",
         attrs |-> Attrs("certificate", "true", "A", "absent")]

MCStoredFull == [s \in Slots |-> <<ECKey, RSAKey, Cert>>]
MCStoredTwo == [s \in Slots |-> <<ECKey, Cert>>]
MCStoredOne == [s \in Slots |-> <<ECKey>>]
MCStoredNone == [s \in Slots |-> << >>]
MCProvided == [s \in Slots |-> {<<ECKey>>, <<ECKey, Cert>>}]

Mech(typ, params) == [typ |-> typ, params |-> params, point |-> "none", kdf |-> "none"]
ECDH(point, kdf) == [typ |-> "ECDH1", params |-> "ecdh", point |-> point, kdf |-> kdf]

MCSignMechs == {Mech("ECDSA", "none"), Mech("RSA_PKCS", "none"), Mech("NULL", "none")}
                 \cup {Mech("RSA_PSS", p) : p \in {"none", "badHash", "pss"}}
MCSignMechsFew == {Mech("ECDSA", "none")}
MCDeriveMechs == {Mech("ECDH1", "none"), Mech("ECDSA", "none"), ECDH("malformed", "null"),
                  ECDH("offCurve", "null"), ECDH("ok", "null"), ECDH("ok", "sha"),
                  ECDH("ok", "unknown")}
MCDeriveMechsFew == {ECDH("ok", "null")}

Empty == [t \in {} |-> "absent"]
Tmpl(t, v) == [x \in {t} |-> v]
MCPubTmpls == {Empty, Tmpl("TOKEN", "true")}
MCPrivTmpls == {Empty, Tmpl("TOKEN", "false"), Tmpl("TOKEN", "nil")}
MCOneTmpl == {Empty}
MCTokenTmpl == {Tmpl("TOKEN", "true")}
MCFindTmpls == {Empty, Tmpl("LABEL", "A"), Tmpl("CLASS", "secret")}
MCFindData == {Empty, Tmpl("CLASS", "data")}
MCFindOne == {Tmpl("LABEL", "B")}
MCDataTmpl == {Tmpl("CLASS", "data")}
MCAttrQueries == {{"CLASS"}, {"CLASS", "LABEL"}}
MCGenMechs == {"RSA_GEN", "EC_GEN", "ECDSA"}
MCDomains == {"ok", "missing", "unsupported", "badExponent"}

PersistCalls == {"OpenSession", "CloseSession", "GenerateKeyPair"}
SearchCalls == {"OpenSession", "FindObjectsInit", "FindObjects", "FindObjectsFinal",
                "GenerateKeyPair", "CloseSession"}
SessionCalls == (SearchCalls \ {"GenerateKeyPair"}) \cup {"DeriveKey"}
SignCalls == {"OpenSession", "SignInit", "Sign", "SignUpdate", "SignFinal", "DeriveKey"}
AllCalls == RWCalls \cup
  {"Initialize", "Finalize", "GetInfo", "GetSlotInfo", "GenerateRandom", "SeedRandom",
   "Unsupported", "OpenSession", "CloseSession", "FindObjectsFinal"}

MCSymmetry == Permutations(Conns)

=============================================================================
