---------------------------- MODULE MCAttributes ----------------------------
(***************************************************************************)
(* Small instances of Attributes: two certificates, two curves, bytes of   *)
(* two bits and words of four, and templates with repeated, valueless and  *)
(* missing attributes.                                                     *)
(***************************************************************************)
EXTENDS Attributes

MCCerts == {[serial |-> "n1", subject |-> "s1", spki |-> "own"],
            [serial |-> "n2", subject |-> "s2", spki |-> "own"]}

MCKeys == {[alg |-> "RSA", params |-> 3, spki |-> "own"],
           [alg |-> "EC", params |-> "p256", spki |-> "own"]}
MCCurveOIDs == [p256 |-> <<1, 1>>, p384 |-> <<1, 2>>]
MCExponentBytes == <<3>>

Bits(n) == Attr("CKA_MODULUS_BITS", n)
Curve(c) == Attr("CKA_EC_PARAMS", c)
Exp(e) == Attr("CKA_PUBLIC_EXPONENT", e)
Label(l) == Attr("CKA_LABEL", l)
Token(v) == Attr("CKA_TOKEN", v)

\* Domain parameters for either algorithm: no size, too small, even and odd ones
\* and one that int makes negative; no curve, an unknown and a cut off OID, one
\* followed by other bytes.
Domains == {<<Bits(n), Curve(c)>> : n \in {Nil, 1, 2, 3, 9},
                                    c \in {Nil, << >>, <<2, 2>>, <<1>>, <<1, 1>>, <<1, 1, 0>>}}
             \cup {<< >>, <<Curve(<<1, 2>>)>>, <<Bits(2)>>}
\* Templates that name two sizes or two curves.
Repeats == {<<Bits(1), Bits(3)>>, <<Bits(3), Bits(1)>>, <<Bits(2), Bits(Nil)>>,
            <<Curve(<<1, 1>>), Curve(<<1, 2>>)>>, <<Curve(<<1, 1>>), Curve(Nil)>>,
            <<Curve(<<1, 1, 0>>), Curve(<<1, 1, 3>>)>>}
\* The exponent, also with a leading zero, another, an empty one, and one that is
\* the same in its low word only.
ExponentLists == {<< >>} \cup {<<Exp(e)>> : e \in {<<3>>, <<0, 3>>, <<1>>, << >>, <<1, 0, 3>>}}
\* What else a template may say.
Others == {<< >>, <<Label("l1"), Token("true"), Label("l2")>>,
           <<Token(Nil)>>, <<Token("true"), Token("false")>>}

MCPrivTmpls == Others
MCPubTmpls == {d \o e \o o : d \in Domains \cup Repeats, e \in ExponentLists, o \in Others}
WidePubTmpls == {<<Bits(2)>> \o e : e \in ExponentLists}
TwicePubTmpls == Repeats

=============================================================================
