------------------------------ MODULE ServeLoop ------------------------------
(***************************************************************************)
(* One connection on the wire: Handler.Handle (p11kit/p11kit.go) with      *)
(* negotiateProtocolVersion, readRequest and writeResponse (p11kit/rpc.go),*)
(* and the client at the other end of two pipes.                           *)
(*                                                                         *)
(* A pipe is a sequence of at most Cap cells.  A cell is a word of the     *)
(* header or body, an element of a signature or a field, so lengths count  *)
(* cells.  io.ReadFull takes what there is and waits for more, a Write     *)
(* blocks while the pipe is full; both go cell by cell.  The client may    *)
(* send ahead of the answers, and may close either direction at any time,  *)
(* in the middle of a message too.  What the handlers do is Outcomes of    *)
(* RPCService; module Server has their state.                              *)
(***************************************************************************)
EXTENDS Naturals, Sequences

CONSTANTS
  Messages, MaxRequests, Calls, callFinalize, callError, Reads, Results, RandomCalls,
  Errors, errFunctionNotSupported, errRandomNoRNG, sigUlong, End,  \* as in RPCService
  Null,         \* the length that stands for a NULL array (2^32 - 1)
  Versions,     \* the protocol versions clients propose
  Cap           \* the cells a pipe holds

Message == [id: Nat, options: Seq(Nat), call: Nat, sig: Seq(Nat), fields: Seq(Nat),
            form: {"plain", "null", "short"}]
Reply == [id: Nat, call: Nat, sig: Seq(Nat), fields: Seq(Nat)]

ASSUME ServeLoopAssumption ==
  /\ Cap \in Nat \ {0} /\ MaxRequests \in Nat
  /\ callFinalize \in Calls /\ callError # callFinalize
  \* Everything on the wire is a word; a short message is one the loop cannot parse.
  /\ Messages \subseteq Message /\ Versions \subseteq Nat /\ Null \in Nat
  /\ \A m \in Messages :
       /\ m.form = "plain" => Len(m.sig) # Null
       /\ m.form = "null"  => m.sig = << >>
       /\ m.form = "short" => Len(m.fields) < 2 \/ /\ m.fields[2] # Null
                                                   /\ Len(m.fields) < 2 + m.fields[2]
  /\ \A c \in Calls : \A r \in Results[c] : r.sig \in Seq(Nat) /\ r.fields \in Seq(Nat)
  /\ Errors \cup {callError, errFunctionNotSupported, errRandomNoRNG, sigUlong} \subseteq Nat
  /\ End \notin Reply

VARIABLES
  c2s, s2c,     \* the pipes
  toWrite, current,  \* client: cells still to write, and the message they are of
  got,          \* client: the cells of the answer being read
  requests, received, sending, receiving,  \* client, as in RPCService
  pc,           \* where Handle is; "returned" when it has
  in,           \* server: the cells read by the pending ReadFull
  hdr,          \* server: the header <<ID, OptionsLen, BufferLen>>
  out,          \* server: the cells still to write of the pending Write
  done,         \* the variable of Handle that C_Finalize sets
  answers,      \* what was handed to writeResponse so far
  closed        \* the connection was closed on the server's side

clientVars == <<toWrite, current, got, requests, received, sending, receiving>>
serverVars == <<pc, in, hdr, out, done, answers, closed>>
vars == <<c2s, s2c, clientVars, serverVars>>

Service == INSTANCE RPCService WITH open <- pc # "returned" /\ ~done

NoMessage == [form |-> "none"]   \* current while the version is sent

-----------------------------------------------------------------------------
\* The client.

\* A message as it goes on the wire: the header, the options, the body.
Encode(m) ==
  LET body == IF m.form = "short" THEN m.fields
              ELSE <<m.call, IF m.form = "null" THEN Null ELSE Len(m.sig)>> \o m.sig \o m.fields
  IN <<m.id, Len(m.options), Len(body)>> \o m.options \o body

Begin ==
  /\ sending /\ toWrite = << >> /\ Len(requests) < MaxRequests
  /\ \E m \in Messages : current' = m /\ toWrite' = Encode(m)
  /\ UNCHANGED <<c2s, s2c, got, requests, received, sending, receiving, serverVars>>

ClientWrite ==
  /\ sending /\ ~closed /\ toWrite # << >> /\ Len(c2s) < Cap
  /\ c2s' = Append(c2s, Head(toWrite))
  /\ toWrite' = Tail(toWrite)
  /\ requests' = IF Len(toWrite) = 1 /\ current # NoMessage
                 THEN Append(requests, current) ELSE requests
  /\ UNCHANGED <<s2c, current, got, received, sending, receiving, serverVars>>

\* The client reads the version, then header and body of one answer after the
\* other.  It reads an answer as long as its header says.
VersionRead == got # << >> /\ got[1] = "version"
Decoded(m) == Service!Answer(m[1], m[4], SubSeq(m, 6, 5 + m[5]), SubSeq(m, 6 + m[5], Len(m)))

ClientRead ==
  /\ receiving /\ s2c # << >>
  /\ s2c' = Tail(s2c)
  /\ IF ~VersionRead
     THEN got' = <<"version">> /\ UNCHANGED received
     ELSE LET m == Append(Tail(got), Head(s2c)) IN
          IF Len(m) > 4 /\ Len(m) = 3 + m[3]
          THEN got' = <<"version">> /\ received' = Append(received, Decoded(m))
          ELSE got' = Append(got, Head(s2c)) /\ UNCHANGED received
  /\ UNCHANGED <<c2s, toWrite, current, requests, sending, receiving, serverVars>>

StopSending ==
  /\ sending /\ sending' = FALSE
  /\ UNCHANGED <<c2s, s2c, toWrite, current, got, requests, received, receiving, serverVars>>
StopReceiving ==
  /\ receiving /\ receiving' = FALSE
  /\ UNCHANGED <<c2s, s2c, toWrite, current, got, requests, received, sending, serverVars>>

-----------------------------------------------------------------------------
\* The server.

\* How many cells the pending ReadFull is for.
Needed == CASE pc = "version" -> 1
            [] pc = "header"  -> 3
            [] pc = "body"    -> hdr[2] + hdr[3]
            [] OTHER          -> 0

Read ==
  /\ Len(in) < Needed /\ c2s # << >>
  /\ c2s' = Tail(c2s)
  /\ in' = Append(in, Head(c2s))
  /\ UNCHANGED <<s2c, clientVars, pc, hdr, out, done, answers, closed>>

\* End of file, before or inside a message: Handle returns an error.
ReadFailsIdle ==   \* mutant: inside a message the server waits for the rest
  /\ in = << >> /\ Needed > 0 /\ c2s = << >> /\ ~sending
  /\ pc' = "returned"
  /\ UNCHANGED <<c2s, s2c, clientVars, in, hdr, out, done, answers, closed>>
ReadFails ==
  /\ Len(in) < Needed /\ c2s = << >> /\ ~sending
  /\ pc' = "returned"
  /\ UNCHANGED <<c2s, s2c, clientVars, in, hdr, out, done, answers, closed>>

\* Any version is accepted and answered with version 0.
negotiateProtocolVersion ==
  /\ pc = "version" /\ Len(in) = Needed
  /\ in' = << >>
  /\ out' = <<0>>
  /\ pc' = "hello"
  /\ UNCHANGED <<c2s, s2c, clientVars, hdr, done, answers, closed>>

\* readRequest: the header, then the options and the body.
readHeader ==
  /\ pc = "header" /\ Len(in) = Needed
  /\ hdr' = in
  /\ in' = << >>
  /\ pc' = "body"
  /\ UNCHANGED <<c2s, s2c, clientVars, out, done, answers, closed>>

\* The body without the options, the length of its signature, which is empty when
\* it is NULL, and whether call and signature are in the body.
BodyWithOptions == in   \* mutant: the options are taken for the body
Body == SubSeq(in, hdr[2] + 1, Len(in))
SigLen(b) == IF b[2] = Null THEN 0 ELSE b[2]
Malformed(b) == IF Len(b) < 2 THEN TRUE ELSE Len(b) < 2 + SigLen(b)

\* The cells of a response; the length in its header is that of its body.
writeResponse(a) ==
  <<a.id, 0, 2 + Len(a.sig) + Len(a.fields), a.call, Len(a.sig)>> \o a.sig \o a.fields

\* A request is complete: its handler runs, and its answer is written or Handle
\* returns an error.
Dispatch ==
  /\ pc = "body" /\ Len(in) = Needed
  /\ in' = << >>
  /\ LET b == Body IN
     \/ /\ Malformed(b)
        /\ pc' = "returned"
        /\ UNCHANGED <<out, done, answers>>
     \/ /\ ~Malformed(b)
        /\ \E a \in Service!Outcomes(hdr[1], b[1], SubSeq(b, 3, 2 + SigLen(b)),
                                     SubSeq(b, 3 + SigLen(b), Len(b))) :
             IF a = End THEN pc' = "returned" /\ UNCHANGED <<out, done, answers>>
             ELSE /\ answers' = Append(answers, a)
                  /\ out' = writeResponse(a)
                  /\ done' = (b[1] = callFinalize)
                  /\ pc' = "write"
  /\ UNCHANGED <<c2s, s2c, clientVars, hdr, closed>>

WriteWhole ==   \* mutant: a response is written when the pipe has room for all of it
  /\ out # << >> /\ pc \in {"hello", "write"} /\ receiving /\ Len(s2c) + Len(out) <= Cap
  /\ s2c' = Append(s2c, Head(out))
  /\ out' = Tail(out)
  /\ pc' = IF Len(out) > 1 THEN pc ELSE IF done THEN "returned" ELSE "header"
  /\ UNCHANGED <<c2s, clientVars, in, hdr, done, answers, closed>>

\* A Write, of the version or of a response; after the last cell Handle reads
\* the next request, unless C_Finalize was served.
Write ==
  /\ out # << >> /\ pc \in {"hello", "write"} /\ receiving /\ Len(s2c) < Cap
  /\ s2c' = Append(s2c, Head(out))
  /\ out' = Tail(out)
  /\ pc' = IF Len(out) > 1 THEN pc ELSE IF done THEN "returned" ELSE "header"
  /\ UNCHANGED <<c2s, clientVars, in, hdr, done, answers, closed>>

WriteFails ==
  /\ pc \in {"hello", "write"} /\ ~receiving
  /\ pc' = "returned"
  /\ UNCHANGED <<c2s, s2c, clientVars, in, hdr, out, done, answers, closed>>

\* What the program does when Handle has returned, with or without an error.
Close ==
  /\ pc = "returned" /\ ~closed
  /\ closed' = TRUE
  /\ UNCHANGED <<c2s, s2c, clientVars, pc, in, hdr, out, done, answers>>

-----------------------------------------------------------------------------
Init ==
  /\ c2s = << >> /\ s2c = << >>
  /\ \E v \in Versions : toWrite = <<v>>
  /\ current = NoMessage
  /\ got = << >> /\ requests = << >> /\ received = << >>
  /\ sending = TRUE /\ receiving = TRUE
  /\ pc = "version" /\ in = << >> /\ hdr = <<0, 0, 0>> /\ out = << >>
  /\ done = FALSE /\ answers = << >> /\ closed = FALSE

ServerNext == Read \/ ReadFails \/ negotiateProtocolVersion \/ readHeader
                \/ Dispatch \/ Write \/ WriteFails \/ Close

Next == Begin \/ ClientWrite \/ ClientRead \/ StopSending \/ StopReceiving \/ ServerNext

\* The goroutine of a connection runs when it can, and a client that has not
\* closed its end reads what arrives.  Nothing makes a client write or close.
Spec == Init /\ [][Next]_vars /\ WF_vars(ServerNext) /\ WF_vars(ClientRead)

-----------------------------------------------------------------------------
\* The loop implements the service: framing loses, repeats or mixes up no
\* request, answers keep their order and IDs, and Handle returns only when the
\* service may end (readRequest, Handle, writeResponse).
Implements == Service!Spec

\* A request sent in full is answered and the answer arrives, or the service
\* ends and everything answered before arrives, or the client stops reading
\* (Handle's loop, over pipes of any capacity).
Answered ==
  \A i \in 1 .. MaxRequests :
    (Len(requests) >= i) ~> \/ Len(received) >= i
                            \/ (pc = "returned" \/ done) /\ received = answers
                            \/ ~receiving

\* When the client stops sending, in the middle of a message too, Handle returns
\* and the connection is closed: no goroutine is left behind.
HandleReturns == ~sending ~> closed

=============================================================================
