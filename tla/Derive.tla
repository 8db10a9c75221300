------------------------------- MODULE Derive -------------------------------
(***************************************************************************)
(* The value of a key C_DeriveKey derives (p11kit/attribute.go): the       *)
(* length the template asks for, the KDF loop and the resizing of the      *)
(* shared secret.  The checks before it are DeriveOutcome in Objects.      *)
(*                                                                         *)
(* Lengths are 64-bit unsigned in a template and in resizeSecret, signed   *)
(* in x963KDF.  A hash is an abstract block of HashLen bytes that depends  *)
(* on its counter; a byte of it is a pair.                                 *)
(***************************************************************************)
EXTENDS Digits

CONSTANTS
  Base,        \* bytes are digits of this base (256 in the code)
  SecretLen,   \* the length of the shared secret
  HashLen,     \* the length of a hash
  Width,       \* lengths are unsigned integers below this (2^64)
  CounterWidth,\* the counter of the KDF is modulo this (2^32)
  MaxAlloc,    \* bound: the longest slice there is memory for
  KDFs,        \* "null", "hash" or "unknown"
  Tmpls,       \* templates: sequences of values of CKA_VALUE_LEN, or Nil
  Nil

ASSUME DeriveAssumption ==
  /\ Base \in Nat \ {0} /\ SecretLen \in Nat \ {0} /\ HashLen \in Nat \ {0}
  /\ Width \in Nat /\ Width % 2 = 0
  /\ CounterWidth \in Nat \ {0, 1} /\ MaxAlloc \in Nat
  /\ SecretLen <= MaxAlloc /\ MaxAlloc < Width \div 2
  /\ \A t \in Tmpls : t \in Seq((0 .. Width - 1) \cup {Nil})

VARIABLES pc, tmpl, kdf, shared, valueLen, counter, out, rv

vars == <<pc, tmpl, kdf, shared, valueLen, counter, out, rv>>

\* int(n) of a uint64.
toInt(n) == IF n < Width \div 2 THEN n ELSE n - Width

\* h.Sum: the hash of the secret, the counter and the shared data.
Block(c) == [j \in 1 .. HashLen |-> <<c, j>>]

Init ==
  /\ pc = "start"
  /\ tmpl \in Tmpls
  /\ kdf \in KDFs
  /\ shared \in [1 .. SecretLen -> 0 .. Base - 1]
  /\ valueLen = SecretLen
  /\ counter = 0
  /\ out = << >>
  /\ rv = "none"

\* The loop over the template: the last length with a value counts.
Sized == {i \in DOMAIN tmpl : tmpl[i] # Nil}
Asked == IF Sized = {} THEN SecretLen
         ELSE tmpl[CHOOSE i \in Sized : \A j \in Sized : j <= i]
ReadTemplate ==
  /\ pc = "start"
  /\ valueLen' = Asked
  /\ pc' = IF kdf = "null" THEN "resize" ELSE "kdf"
  /\ out' = IF kdf = "null" THEN shared ELSE << >>
  /\ UNCHANGED <<tmpl, kdf, shared, counter, rv>>

Refuse ==
  /\ pc' = "done"
  /\ rv' = "CKR_MECHANISM_PARAM_INVALID"
  /\ UNCHANGED <<tmpl, kdf, shared, valueLen, counter, out>>

\* hashForKDF, then the first check of x963KDF.
hashForKDF == pc = "kdf" /\ kdf = "unknown" /\ Refuse
x963KDFRefused == pc = "kdf" /\ kdf = "hash" /\ toInt(valueLen) <= 0 /\ Refuse
x963KDFStart ==
  /\ pc = "kdf" /\ kdf = "hash"
  /\ toInt(valueLen) > 0
  /\ pc' = "loop"
  /\ counter' = 1
  /\ UNCHANGED <<tmpl, kdf, shared, valueLen, out, rv>>

\* One iteration of x963KDF, whose counter wraps unchecked, and its end.
x963KDFBlockTwice ==   \* mutant: the counter does not advance
  /\ pc = "loop"
  /\ Len(out) < toInt(valueLen)
  /\ Len(out) < MaxAlloc
  /\ out' = out \o Block(counter)
  /\ UNCHANGED <<pc, tmpl, kdf, shared, valueLen, counter, rv>>
x963KDFBlock ==
  /\ pc = "loop"
  /\ Len(out) < toInt(valueLen)
  /\ Len(out) < MaxAlloc
  /\ out' = out \o Block(counter)
  /\ counter' = (counter + 1) % CounterWidth
  /\ UNCHANGED <<pc, tmpl, kdf, shared, valueLen, rv>>

x963KDFReturnExact ==   \* mutant: the loop ends only at the exact length
  /\ pc = "loop"
  /\ Len(out) = toInt(valueLen)
  /\ pc' = "resize"
  /\ UNCHANGED <<tmpl, kdf, shared, valueLen, counter, out, rv>>
x963KDFReturn ==
  /\ pc = "loop"
  /\ Len(out) >= toInt(valueLen)
  /\ out' = SubSeq(out, 1, toInt(valueLen))
  /\ pc' = "resize"
  /\ UNCHANGED <<tmpl, kdf, shared, valueLen, counter, rv>>

\* resizeSecret.
resizeLow(secret, n) ==   \* mutant: the least significant bytes are kept
  IF n <= Len(secret) THEN SubSeq(secret, Len(secret) - n + 1, Len(secret))
  ELSE [k \in 1 .. n - Len(secret) |-> 0] \o secret
resizeSecret(secret, n) ==
  IF n <= Len(secret) THEN SubSeq(secret, 1, n)
  ELSE [k \in 1 .. n - Len(secret) |-> 0] \o secret

Resize ==
  /\ pc = "resize"
  /\ valueLen <= MaxAlloc
  /\ out' = resizeSecret(out, valueLen)
  /\ pc' = "done"
  /\ rv' = "CKR_OK"
  /\ UNCHANGED <<tmpl, kdf, shared, valueLen, counter>>

\* There is no memory for what the template asks for: make panics, or the runtime
\* ends the program; either way the call never returns.
OutOfMemory ==
  /\ \/ pc = "resize" /\ valueLen > MaxAlloc
     \/ pc = "loop" /\ Len(out) < toInt(valueLen) /\ Len(out) >= MaxAlloc
  /\ pc' = "crashed"
  /\ UNCHANGED <<tmpl, kdf, shared, valueLen, counter, out, rv>>

Next ==
  \/ ReadTemplate \/ hashForKDF \/ x963KDFRefused \/ x963KDFStart
  \/ x963KDFBlock \/ x963KDFReturn \/ Resize \/ OutOfMemory

Spec == Init /\ [][Next]_vars /\ WF_vars(Next)

-----------------------------------------------------------------------------
\* The derived CKA_VALUE has the length the object reports as CKA_VALUE_LEN, and
\* without a KDF it is the shared secret as an integer, with the least
\* significant bytes cut off when it is shortened (resizeSecret).
ResizedSecret ==
  rv = "CKR_OK" =>
    /\ Len(out) = valueLen
    /\ kdf = "null" =>
         Number(out, Base) = IF valueLen >= SecretLen THEN Number(shared, Base)
                             ELSE Number(shared, Base) \div Power(Base, SecretLen - valueLen)

\* With a KDF the value is a prefix of one stream of hashes, whatever its length:
\* deriving a longer key extends a shorter one.  The counters are 1, 2, and so on
\* up to the last of a uint32; x963KDF lets it wrap, so a value longer than that
\* goes on with the hash of counter 0 and then repeats its own beginning.
KDFStream ==
  rv = "CKR_OK" /\ kdf = "hash" =>
    \A k \in 1 .. valueLen :
      out[k] = <<(((k - 1) \div HashLen) + 1) % CounterWidth, ((k - 1) % HashLen) + 1>>

\* The loop of x963KDF ends and the derivation returns, unless the template asks
\* for more than there is memory for: then the make of resizeSecret, or the growing
\* of the loop's slice, may end the program instead.
Returns == <>(pc = "done" \/ (pc = "crashed" /\ Asked > MaxAlloc))

=============================================================================
