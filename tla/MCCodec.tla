------------------------------ MODULE MCCodec ------------------------------
(***************************************************************************)
(* Small instances of Codec.  Bytes are 0 .. 10, a uint32 has two and a    *)
(* uint64 four of them, so that 120 is the marker and a handle is two      *)
(* words.  Values sit at the edges: 0, a full word, the largest ones.      *)
(***************************************************************************)
EXTENDS Codec

Word == Power(Base, N32)

MCValueType == [t \in 0 .. Null |->
  CASE t = 0 -> "ulong" [] t = 1 -> "byte" [] t = 2 -> "bytes"
    [] t = 3 -> "date"  [] t = 4 -> "mechanisms" [] OTHER -> "none"]
MCParamsOf == [t \in 0 .. Null |->
  CASE t = 0 -> "none" [] t = 1 -> "pss" [] t = 2 -> "ecdh" [] OTHER -> "bytes"]

\* What the handlers read; handlers that read the same are listed once.
MCReads ==
  [Initialize |-> <<"ay", "y", "ay">>, GetInfo |-> << >>, GetSlotInfo |-> <<"u">>,
   GetSlotList |-> <<"y", "fu">>, OpenSession |-> <<"u", "u">>,
   InitToken |-> <<"u", "ay", "z">>, Login |-> <<"u", "u", "ay">>,
   FindObjectsInit |-> <<"u", "aA">>, FindObjects |-> <<"u", "fu">>,
   GetAttributeValue |-> <<"u", "u", "fA">>, SignInit |-> <<"u", "M", "u">>,
   Sign |-> <<"u", "ay", "fy">>, SignUpdate |-> <<"u", "ay">>, SignFinal |-> <<"u", "fy">>,
   GenerateKeyPair |-> <<"u", "M", "aA", "aA">>, DeriveKey |-> <<"u", "M", "u", "aA">>,
   \* The next three are what clients send; their handlers read nothing of it.
   Finalize |-> << >>, GenerateRandom |-> <<"u", "fy">>, SeedRandom |-> <<"u", "ay">>]
MCWrites ==
  [Initialize |-> << >>, GetInfo |-> <<"v", "s", "u", "s", "v">>, GetSlotList |-> <<"au">>,
   GetMechanismInfo |-> <<"u", "u", "u">>, GetAttributeValue |-> <<"aA", "u">>,
   Sign |-> <<"ay">>]

Attr(t, v) == [typ |-> t, val |-> v]
Bytes == << << >>, <<10, 0>> >>
Arrays == <<[arr |-> << >>, n |-> 0], [arr |-> <<7, 10>>, n |-> 0], [arr |-> Nil, n |-> 3],
            [arr |-> Nil, n |-> 0]>>
Attrs == << << >>, <<Attr(0, Word), Attr(2, <<5>>)>>, <<Attr(1, 1), Attr(2, Nil)>>,
            <<Attr(2, << >>), Attr(3, <<2021, 1, 31>>), Attr(9, Nil)>> >>
Mechs == <<[typ |-> 0, params |-> << >>], [typ |-> Null, params |-> << >>],
           [typ |-> 1, params |-> <<0, Word, 3>>], [typ |-> 1, params |-> << >>],
           [typ |-> 2, params |-> <<6, Nil, <<4, 4>>>>], [typ |-> 2, params |-> <<6, << >>, <<4>>>>],
           [typ |-> 3, params |-> <<9>>], [typ |-> 3, params |-> Nil]>>

MCSamples ==
  [u |-> <<0, Word, Power(Base, N64) - Word - 1>>, y |-> <<0, 1>>, z |-> Bytes, ay |-> Arrays,
   fu |-> <<0, Null>>, fy |-> <<0, 5>>, aA |-> Attrs, M |-> Mechs,
   fA |-> << << >>, <<[typ |-> 0, len |-> 0], [typ |-> 2, len |-> Null]>> >>]
\* Handles whose upper half is the marker.
HighSamples == [MCSamples EXCEPT !.u = <<1, Null * Word, Power(Base, N64) - 1>>]

MCResults ==
  [u |-> <<0, Power(Base, N64) - 1>>, v |-> << <<2, 10>> >>,
   s |-> <<[s |-> <<1, 2>>, n |-> 3], [s |-> <<1, 2, 3, 4>>, n |-> 3], [s |-> << >>, n |-> 1]>>,
   ay |-> Arrays, aA |-> Attrs,
   au |-> <<[arr |-> Nil, n |-> 2], [arr |-> << >>, n |-> 0], [arr |-> <<Word, 0>>, n |-> 0]>>]

\* What the theorems about requests suppose, of the handles that are not high.
ASSUME Samples = HighSamples \/ HandlesClear

=============================================================================
