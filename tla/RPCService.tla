----------------------------- MODULE RPCService -----------------------------
(***************************************************************************)
(* What one connection promises to its client, with no wire in between:    *)
(* requests are served one at a time in the order they were sent, each     *)
(* once, each answer carries the ID of its request, and answers arrive in  *)
(* that order.  The service ends only after C_Finalize, at a request it    *)
(* cannot serve, or because the client left; a client that merely stops    *)
(* sending still gets the answers to all it sent.                          *)
(*                                                                         *)
(* A message is [id, options, call, sig, fields, form].  The form says how *)
(* it goes on the wire: "plain", "null" when a NULL array stands for the   *)
(* empty signature, and "short" when it is so cut that it has no complete  *)
(* call and signature.                                                     *)
(***************************************************************************)
EXTENDS Naturals, Sequences

CONSTANTS
  Messages,     \* the requests clients send
  MaxRequests,  \* how many of them one client sends
  Calls,        \* the calls with a handler, callFinalize among them
  callFinalize, callError,
  Reads,        \* Reads[c]: the signature the handler of call c reads
  Results,      \* Results[c]: the [sig, fields] it may write
  RandomCalls,  \* C_GenerateRandom and C_SeedRandom, which are among Calls
  Errors,       \* the PKCS #11 errors handlers return
  errFunctionNotSupported, errRandomNoRNG,
  sigUlong,     \* the signature of a number
  End           \* an outcome: Handle gives up on the connection

VARIABLES
  requests,  \* what the client has sent
  answers,   \* what the service has answered
  received,  \* what the client has received
  open,      \* whether the service serves requests
  sending, receiving  \* whether the client still does

vars == <<requests, answers, received, open, sending, receiving>>

Answer(id, call, sig, fields) ==
  [id |-> id, call |-> call, sig |-> sig, fields |-> fields]
ErrorAnswer(id, rv) == Answer(id, callError, <<sigUlong>>, <<rv>>)

\* The outcomes for a request with this ID and body: C_Finalize is answered with
\* its own body, whatever that is, and the calls for random numbers are refused,
\* whatever theirs is; a body its handler cannot read ends the service; any other
\* may be served, refused or end the service too.
Outcomes(id, call, sig, fields) ==
  IF call \notin Calls THEN {ErrorAnswer(id, errFunctionNotSupported)}
  ELSE IF call = callFinalize THEN {Answer(id, call, sig, fields)}
  ELSE IF call \in RandomCalls THEN {ErrorAnswer(id, errRandomNoRNG)}
  ELSE IF sig # Reads[call] \/ Len(fields) # Len(sig) THEN {End}
  ELSE {Answer(id, call, r.sig, r.fields) : r \in Results[call]}
         \cup {ErrorAnswer(id, rv) : rv \in Errors} \cup {End}

Outcome(m) == IF m.form = "short" THEN {End} ELSE Outcomes(m.id, m.call, m.sig, m.fields)

Init ==
  /\ requests = << >> /\ answers = << >> /\ received = << >>
  /\ open = TRUE /\ sending = TRUE /\ receiving = TRUE

Send ==
  /\ sending /\ Len(requests) < MaxRequests
  /\ \E m \in Messages : requests' = Append(requests, m)
  /\ UNCHANGED <<answers, received, open, sending, receiving>>

Waiting == Len(answers) < Len(requests)
First == requests[Len(answers) + 1]

Serve ==
  /\ open /\ Waiting
  /\ \E a \in Outcome(First) \ {End} :
       /\ answers' = Append(answers, a)
       /\ open' = (a.call # callFinalize)
  /\ UNCHANGED <<requests, received, sending, receiving>>

GiveUp ==
  /\ open
  /\ \/ ~receiving
     \/ ~sending /\ ~Waiting
     \/ Waiting /\ End \in Outcome(First)
  /\ open' = FALSE
  /\ UNCHANGED <<requests, answers, received, sending, receiving>>

Receive ==
  /\ receiving /\ Len(received) < Len(answers)
  /\ received' = Append(received, answers[Len(received) + 1])
  /\ UNCHANGED <<requests, answers, open, sending, receiving>>

StopSending ==
  /\ sending /\ sending' = FALSE
  /\ UNCHANGED <<requests, answers, received, open, receiving>>
StopReceiving ==
  /\ receiving /\ receiving' = FALSE
  /\ UNCHANGED <<requests, answers, received, open, sending>>

Next == Send \/ Serve \/ GiveUp \/ Receive \/ StopSending \/ StopReceiving

Spec == Init /\ [][Next]_vars

=============================================================================
