----------------------------- MODULE MCServeLoop -----------------------------
(***************************************************************************)
(* A small instance of ServeLoop: C_Finalize, a call whose handler reads   *)
(* one value, C_GenerateRandom and a call without a handler; messages with *)
(* and without options, readable and not, with a NULL signature, and cut   *)
(* ones.  The numbers overlap on purpose: a word read at the wrong place   *)
(* passes for another.                                                     *)
(***************************************************************************)
EXTENDS ServeLoop

Msg(id, options, call, sig, fields) ==
  [id |-> id, options |-> options, call |-> call, sig |-> sig, fields |-> fields,
   form |-> "plain"]
Cut(id, options, fields) ==
  [id |-> id, options |-> options, call |-> 0, sig |-> << >>, fields |-> fields,
   form |-> "short"]
NullSig(m) == [m EXCEPT !.form = "null"]

MCReads == [c \in Calls |-> IF c = 2 THEN <<sigUlong>> ELSE << >>]
MCResults == [c \in Calls |-> {[sig |-> << >>, fields |-> << >>],
                                [sig |-> <<3>>, fields |-> <<3, 1>>]}]

MCMessages ==
  {Msg(1, << >>, 1, << >>, << >>),     \* C_Finalize
   Msg(2, <<0>>, 1, <<sigUlong>>, <<5>>),   \* C_Finalize with a body it ignores
   Msg(2, << >>, 2, <<sigUlong>>, <<4>>),   \* a request its handler reads
   Msg(1, <<1, 0>>, 2, <<sigUlong>>, <<1>>),
   Msg(3, << >>, 2, << >>, <<4>>),     \* one it does not
   Msg(3, <<2>>, 3, <<sigUlong>>, <<2>>),   \* no such call
   Msg(3, << >>, 4, <<sigUlong>>, << >>),   \* C_GenerateRandom, which reads nothing
   NullSig(Msg(1, <<2>>, 4, << >>, <<5>>)),
   NullSig(Msg(2, << >>, 1, << >>, <<5>>)), \* C_Finalize without a signature
   NullSig(Msg(3, << >>, 2, << >>, <<4>>)), \* one its handler does not read
   Cut(1, <<1, 0>>, <<2>>), Cut(0, << >>, << >>), Cut(2, <<1>>, <<2, 1>>)}

=============================================================================
