------------------------------- MODULE Digits -------------------------------
(***************************************************************************)
(* Numbers written as byte strings, the most significant byte first, in    *)
(* messages and in derived secrets.                                        *)
(***************************************************************************)
EXTENDS Integers, Sequences

Power(base, n) ==
  LET power[i \in Nat] == IF i = 0 THEN 1 ELSE power[i - 1] * base
  IN power[n]

Number(bs, base) ==
  LET number[i \in 0 .. Len(bs)] == IF i = 0 THEN 0 ELSE number[i - 1] * base + bs[i]
  IN number[Len(bs)]

=============================================================================
