# A TLA+ model of go-p11-kit

go-p11-kit serves PKCS #11 tokens over the p11-kit RPC protocol. A program
fills in a `p11kit.Handler` (slots, objects) and calls `Handle` once per client
connection, each call in its own goroutine. This directory holds TLA+ modules
for that server, TLC configurations that check small instances, and TLAPS
proofs for instances of any size.

## The system

| Part | State it keeps | Operations |
| --- | --- | --- |
| Tokens (`Handler.Slots`, `Handler.mu`) | `Label`, `Initialized`, `Objects` of every slot, shared by all connections | `C_InitToken`, `C_GetTokenInfo`, the snapshot of `C_OpenSession`, `persistObject`, and three calls that copy whole slots (`C_GetSlotList`, `C_GetMechanismList`, `C_GetMechanismInfo`) |
| Connection loop (`Handle`) | whether it is reading, in a handler, or writing | read request, call handler, write response; ends on an I/O error, on `C_Finalize` and on any error that is not a PKCS #11 error |
| Sessions (`handler`) | `lastSessionID`, the map of sessions; private to the connection | open, close, login, logout, info |
| Searches | `findMatches` of a session | `C_FindObjectsInit`, `C_FindObjects`, `C_FindObjectsFinal` |
| Signing | `signMechanism`, `signObject`, `signData` of a session | `C_SignInit`, `C_Sign`, `C_SignUpdate`, `C_SignFinal` |
| Objects | handle, attributes, key | created by the program, by `C_GenerateKeyPair` and by `C_DeriveKey` |
| Mechanisms | `Slot.Mechanisms`, `Slot.MechanismInfo`; constant | the two mechanism calls |
| Wire codec (`rpc.go`) | none between messages | encode, decode |

How they interact: requests of one connection are served strictly one after the
other, so everything in a `handler` is sequential. Connections meet only in the
fields of the slots. `C_GenerateKeyPair` adds both halves of a pair to its
session, then persists the ones with `CKA_TOKEN` one at a time, each in its own
critical section. A session works on the copy of a token's objects it took when
it was opened.

What is hard to test here, and what the properties are about:

- interleavings inside and between critical sections (initialization races, lost
  appends, half a key pair visible to another connection, unlocked copies);
- stale copies: which objects a session has, given what was acknowledged before
  it was opened;
- responses that are lost after the request took effect;
- long legal sequences of calls on one session (second search, second signature,
  a failed call in the middle);
- session handles that wrap around and run into live ones;
- that the mutex is always released and every request answered;
- Go slices: an `append` that writes into an array another list also uses;
- attribute lists that hold a type twice, where the first one counts;
- lengths at their limits: derived keys, messages, strings, the 64-bit words a
  length or an exponent is squeezed into;
- framing: a reader at the wrong place, a message that stops half-way, requests
  sent ahead of the answers, pipes that are full in both directions.

The list, with source lines, is under `hazards` in `PROJECT.json`.

## Modules

| Module | Models | Used by |
| --- | --- | --- |
| `TokenStore` | abstract: every token operation in one step | refined by `TokenLock` |
| `TokenLock` | the slots' fields, `mu`, and one step per memory access | `MCTokenLock`, `TokenLockProofs` |
| `TokenLockProofs` | theorems about `TokenLock` | |
| `Objects` | objects, templates, mechanisms as operators (`attribute.go`) | `Server` |
| `Server` | `Handle` and all handlers of a connection | `MCServer`, `ServerProofs` |
| `ServerProofs` | theorems about `Server`: object lists, sessions, tokens | |
| `Slices` | the object lists of sessions and of a token as Go slices | `MCSlices`, `SlicesProofs` |
| `SlicesProofs` | theorems about `Slices` | |
| `Attributes` | objects as attribute lists; constructors, setters, generation (`attribute.go`) | `MCAttributes`, `AttributesProofs` |
| `AttributesProofs` | theorems about `Attributes` | |
| `Digits` | numbers as strings of bytes | `Derive`, `Buffer` |
| `DigitsProofs` | induction and recursion on naturals; numbers and their bytes | `AttributesProofs`, `DeriveProofs`, `CodecProofs` |
| `Derive` | lengths and blocks of `C_DeriveKey` (`attribute.go`) | `MCDerive`, `DeriveProofs` |
| `DeriveProofs` | theorems about `Derive` | |
| `Buffer` | numbers, arrays, dates and attributes as bytes (`rpc.go`) | `Codec` |
| `Codec` | the body of a message: readers, writers, signature and error | `MCCodec`, `CodecProofs` |
| `CodecProofs` | theorems about `Codec` | |
| `RPCService` | abstract: one connection as a request and answer service | refined by `ServeLoop` |
| `ServeLoop` | `Handle` on the wire: version, framing, blocking I/O, end of the connection | `MCServeLoop`, `ServeLoopProofs` |
| `ServeLoopProofs` | the refinement of `RPCService` | |
| `MC...` | small instances | the `.cfg` files |

### TokenLock and TokenStore

`pc[c]` is the next step of the goroutine of connection `c`, `req[c]` the
decoded request, `loc[c]` the handler's locals and later its reply, `mu` the
holder of the mutex. `InvokeOnSlot` and the two `InvokeGetSlotList` actions are
the arrival of a request; `SlotFound` and `SlotInvalid` are `handler.slot`;
then the handler takes `mu` and performs its accesses:

- `C_InitToken`: `InitCheck` or `InitRefused`, `WriteLabel`, `WriteInit`;
- `C_GetTokenInfo`: `ReadLabel`, `ReadInit`;
- `newSession`: `ReadObjects`;
- `persistObject`: `AppendRead`, `AppendWrite` (an `append` reads the slice and
  writes it back).

`C_GetSlotList`, `C_GetMechanismList` and `C_GetMechanismInfo` run `Copy`, without
`mu`, for every slot they copy: a `range` loop and a value receiver copy the whole
struct. The reply only uses fields that never change, so a torn copy has no
effect in the model. (Go itself gives a racing read of a multi-word field no
meaning; that is the finding of `tokenlock_race`.)

A wire label is a text and a number of padding characters, and `TrimRight`
keeps the text. An object is an identity here.

`TokenStore` has the same requests and replies and no mutex. The refinement
mapping (`absPhase`, `absInitialized`, `absReply`): a request is done once its
effect and reply are fixed. `C_InitToken` takes effect when it writes the
label; from then on the flag counts as written, which nobody can observe since
`mu` is held.

### Server and Objects

`phase[c]` is the place in the loop of `Handle`: `closed`, `ready` (waiting for a
request), `persist` (in the loop of `C_GenerateKeyPair`), `reply` (a response is
to be written). A handler is one action, because its state is private and
`TokenLock` shows each access to a token to be atomic; only `C_GenerateKeyPair`
takes a step per object. `Deliver` and `WriteFails` are the two outcomes of
`writeResponse`. `ReadFails` stands for every way a request can fail before it
changes anything without being answered (I/O, framing, arguments, handshake).

`sessions[c][i]` has the fields of the `session` struct. An object keeps its
handle, the identity of its key, which half it is, its algorithm and four
attributes: `CKA_CLASS` and `CKA_LABEL` (searches), `CKA_TOKEN` (persistence),
`CKA_DERIVE` (derivation). An attribute may be absent, present without a value,
or have a value, since `setByte`, `matches` and `C_GetAttributeValue` tell these
apart. A signature is the key, the mechanism and the data it covers; outcomes of
cryptography the code does not decide (a signer failing on the length of its
input) are nondeterministic.

Four ghost variables record what clients know, for the properties only: `acked`
(token objects whose creation was answered), `given` (handles received in a
session), `signing` and `search` (the operation a PKCS #11 client believes
active, and whether it has kept to the order of calls). `search` is about one search,
from `C_FindObjectsInit` to `C_FindObjectsFinal`: what it found, whether results of
earlier searches were still queued when it began (`clean` if not), and what it has
returned.

### Slices

`Server` gives every session a sequence. In the code the list is a slice, and
`Slices` refines just that: `heap` holds the backing arrays, a slice is an array and
a length, and `append` (`Appended`) writes into the array if the capacity allows
and allocates otherwise, with any capacity in `Extra` to spare. `newSession`
copies `Slot.Objects`, or takes what `GetObjects` returned: a list built for the call
(`fresh`) or the same one each time (`shared`). The sessions are those of all
connections. `expected` and `expectedStored` are the lists as sequences, with no
sharing; the invariants compare the two.

### Attributes

One object, its constructor, then any order of setters, or a generated pair's
half with its template. `attributes` is the list of the code, which may hold a
type more than once; `attributeValue` takes the first (as does `matches`, whose model is
in `Objects`), `setAttribute` replaces the first and `SetLabel` and `SetCertificate`
append. The loop of `setAttributes` is a step per attribute of the template (`applied`
counts them, and `rv` is `setting` meanwhile).

A key is its algorithm, its public key info and its parameters: a curve, or the size of
the modulus. What a template says of them is bytes and numbers, and the conversions are
the code's:

- the curve of a key is the supported one whose OID `CKA_EC_PARAMS` begins with
  (`Named`): `asn1.Unmarshal` returns what follows the OID and the code drops it. An
  object made from the key itself has the bytes of the OID alone (`curveOIDs`);
- an object made from an RSA key has the size of its modulus in whole bytes
  (`WholeBytes`); a template's size is a `uint64` that `int` may make negative, and
  then, or when the generator fails, the call returns `CKR_GENERAL_ERROR`;
- an exponent is a string of bytes, compared as a number in a word (`Int64`) and stored
  as it is.

### Derive

The last of the template's lengths that has a value counts (`Sized`),
`toInt` is Go's conversion of a `uint64` to an `int`, one action is one block of
`x963KDF` with a counter that wraps at `CounterWidth`, unchecked, and `Resize` is
`resizeSecret`. A hash block is its counter and the position in it. A length for
which there is no memory (`MaxAlloc`) ends the program (`crashed`), as in Go: `make`
panics or the runtime gives up, and the call does not return. The reference
definitions are arithmetic: a resized secret is the number shifted, the KDF's output
is byte *i* of the infinite stream of blocks, which repeats itself once the counter has
wrapped.

### Buffer and Codec

Bytes are digits of a base above 10 instead of 256, a `uint32` has `N32` of them and
a `uint64` twice as many. A reader is an operator from the bytes left to a result and
the bytes then left. `Codec` runs one message: `Decode`, `DecodeFails` and
`DecodeSkipped` are `body.decode` for one argument, `Err` is `body.err`, `Write` a write
method. `Reads` and `Writes` list the arguments and results of the handlers. Three calls never
reach `body.err`: `C_Finalize` is executed whatever the request (`Finalize`), and the two for
random numbers are refused (`handleGenerateRandom`). Requests come from an external client
in both encodings of a mechanism, with or without NULL arrays (length 0xffffffff) for what
is empty or absent (`Style`), undamaged, cut at any byte, lengthened, or with another
signature.

### ServeLoop and RPCService

`RPCService` is one connection without a wire: requests are served one at a time,
in order, each once; answers carry the ID of the request and arrive in order;
`C_Finalize` is answered with its own body and the calls for random numbers with an error,
whatever their bodies are;
the service ends only after `C_Finalize`, at a request it cannot serve, or because the
client left, and a client that only stops sending still gets its answers.

`ServeLoop` puts two pipes of `Cap` cells in between. A cell is a word of a header or
body or an element of a signature or field, so lengths count cells; the length `Null` of a
signature means an empty one (`SigLen`, the NULL branch of `byteArray`). `Read` and
`ReadFails` are `io.ReadFull` for the version, the header (`readHeader`), and
options and body (`Dispatch`, which also runs the handler); `Write` and `WriteFails` are
the writes; `Close` is what the example server does when `Handle` has
returned. The client writes cell by cell, ahead of the answers if it likes, and closes
either direction at any point. Handlers are a set of outcomes (`Outcomes`), the
same in both modules: their state is `Server`'s. The refinement maps `open` to
"`Handle` has not returned and `done` is not set"; `answers` is a history of
what was handed to `writeResponse`.

## Runs

| Run | Result | Shows |
| --- | --- | --- |
| `tokenlock_all` | pass | `WritesGuarded`, `InitFrozen`, `AppendOnly`, `Linearizable` and `Responds` with all seven operations, two connections, two slots |
| `tokenlock_race` | violation | the unlocked copies race with `C_InitToken` and `persistObject` |
| `server_persist` | pass | `SessionPrivate`, `PublicFirst`, `LaterSessionsSee`: two connections generating and opening sessions, responses lost at any point |
| `server_calls` | pass | `TypeOK`, `SignReady` through every call and every error |
| `server_sessions` | pass | `HandlesResolve`, `SessionStable` with session handles wrapping around, `FindConserves` for every way of chunking a search |
| `server_signdata` | violation | `signData` is never reset |
| `server_leftover` | violation | unfetched matches survive `C_FindObjectsFinal` |
| `slices_separate` | pass | `OwnObjects`, `TokenKept`: no append disturbs another session or the token |
| `attributes_lists` | pass | `OneCertificate`, `CKAIDReplaced` for any order of setters, `TemplateApplied`, `DescribesKey` for every template |
| `derive_lengths` | pass | `ResizedSecret`, `KDFStream`, `Returns` for every length of the width, past the wrap of the counter and past the memory there is |
| `codec_messages` | pass | `Understood`, `DamageRejected`, `ResponseDecodes` for every handler; the exception in `DamageRejected` is `C_Finalize` |
| `serveloop_pipes` | pass | `Implements` (the refinement), `Answered`, `HandleReturns` |

The three violations are disagreements with what comments or the targeted
PKCS #11 version say; `findings` in `PROJECT.json` quotes them. Each passing
property has a mutant, an operator next to the definition it changes, marked
`mutant`, that breaks the property.

What three of the properties say needs a word:

- `FindConserves` is about a search that begins with nothing queued: until
  `C_FindObjectsFinal`, what it returned and what is queued are what it found. It asks
  nothing of what an ended search leaves behind, which `server_leftover` shows to be
  returned by the next one; it would hold of a repaired `C_FindObjectsFinal` too.
- `DescribesKey` says for every template how far the reported parameters can be relied on,
  given what the code checks; `ReportsKey` is what one would like, and fails for the
  templates of `attributes_exponent` and `attributes_twice`.
- `Returns` tells a return from a crash: the program may end only if the template asks for
  more than `MaxAlloc`.

### Limits the passing runs state

Some passing runs leave out inputs for which the property does not hold, or check a
weaker property. Seven more configurations, which are kept beside the runs and are not
among those of `PROJECT.json`, have just these inputs or the stronger property, and TLC
finds the violation in each (`tlc -config X.cfg MCmodule`):

| Configuration | Property | What the code does | What it says |
| --- | --- | --- | --- |
| `tokenlock_mechanisms` (`MCTokenLock`) | `MechanismsAgree` | with `Slot.Mechanisms` set and `MechanismInfo` nil, `C_GetMechanismInfo` accepts all default mechanisms | p11kit.go:119, "overrides the mechanism types reported by C_GetMechanismList and accepted by C_GetMechanismInfo" |
| `server_dynamic` (`MCServer`) | `LaterSessionsSee` | on a slot with `GetObjects`, persisted objects are in no later session | p11kit.go:997, "persist on the token, so they can be found by later sessions" |
| `slices_shared` (`MCSlices`) | `OwnObjects` | when `GetObjects` returns the same slice with spare capacity, the appends of two sessions (p11kit.go:995, 1060) write the same cells | p11kit.go:998, "Objects without it only live for this session" |
| `attributes_links` (`MCAttributes`) | `CertificateLinks` | `SetCertificate` appends (attribute.go:154), so a `CKA_ID` set before, by `SetCKAID` or for another certificate of the key, stays the one clients see | attribute.go:669, "should match pubKey and privKey's ID" |
| `attributes_exponent` (`MCAttributes`) | `ReportsKey` | an exponent that is empty, or 65537 only in its low 64 bits, passes the check (attribute.go:588) and is then reported as the key's | attribute.go:587, "crypto/rsa only supports the fixed exponent 65537" |
| `attributes_twice` (`MCAttributes`) | `ReportsKey` | of two curves in a template the key is made on the first (attribute.go:606) and the object reports the last; bytes after an OID are ignored (attribute.go:620) and reported; a size followed by a `CKA_MODULUS_BITS` without a value is used and not reported | attribute.go:538, "The public template must specify the key's domain parameters" |
| `codec_handles` (`MCCodec`) | `Understood` | after a bare mechanism, a handle whose upper half is 0xffffffff loses it as the marker of old clients (rpc.go:655), and the connection ends | rpc.go:651, "Tolerate both" |

### Bounds

- `tokenlock_all`: two connections, a holder of `mu` and one that meets it, and two
  slots for interference between slots; the theorems cover more. `Objs` bounds the
  appends, since a generated object is new: two, which may hit the same slot.
- `IdWidth` stands for 2^64: with 3 handles and 2 sessions the counter wraps,
  meets live handles and reuses closed ones. `MaxSessions < IdWidth`, as the
  probing loop would not end otherwise.
- `MaxID` bounds the handles ever drawn (two pairs in `server_persist`),
  `MaxSessions` the live sessions of a connection, `MaxData` the chunks in
  `signData`, `MaxFound` the matches queued in a session. They guard the
  actions that grow the state and nothing else. `server_calls` has `MaxFound = 0`:
  searches that find something are the subject of `server_sessions`, where three
  matches allow a second search on top of what the first has left; so are the
  handles clients were given (`HandlesResolve`).
- Object handles are counted up: the code draws 64 random bits and a collision
  is not modelled.
- `slices_separate`: two sessions, five arrays (the program's, the token's, two
  lists and one being allocated), four objects: each session can append twice, into
  spare capacity and past it.
- `attributes_lists`: `MaxAttrs` bounds the list, so that every setter can be
  called, most of them twice. Templates have every combination of a size (none,
  too small, odd, negative as an `int`), a curve (none, empty, unknown, cut off,
  followed by other bytes), an exponent (the right one, with a leading zero, another,
  empty, right in its low word only) and other attributes, and templates that name two
  sizes or two curves. Bytes have two bits and words four.
- `derive_lengths`: every length of the width, on both sides of the sign bit, of the
  secret, of one and of several blocks, and of `MaxAlloc`. The counter has the values
  0 to 2 and a value of five bytes or more has three blocks, so it wraps: blocks 1, 2, 0,
  and 1 again for seven bytes.
- `codec_messages`: all handlers, values at their edges (0, a full word, the largest),
  empty and NULL arrays, handles whose upper half is not the marker; `codec_handles`
  has the others.
- `serveloop_pipes`: two requests, which can be in the pipes at the same time,
  from thirteen messages, with NULL signatures and cut ones among them, whose numbers
  overlap, so that a word read at the wrong place passes for another. A pipe holds two cells, less than any message, so
  both sides block in the middle of messages.
- Deadlock is checked in `Server`, `TokenLock` and `Slices`, where something can
  always happen. An object under construction, a derivation, a message and a
  connection come to an end, so their runs allow it; `Returns`, `Answered` and
  `HandleReturns` say that what must happen before does.

### Fairness

`Responds`: `WF(Step(c))`: a goroutine that can run is scheduled.
`SF(Lock(c))`: `sync.Mutex` switches to starvation mode, which hands the lock to
a waiter, after 1 ms, so a goroutine that keeps waiting gets it although others
keep taking it. Clients owe nothing: requests are not fair.

`Derive!Returns`: a goroutine that can run does. `ServeLoop`: `WF(ServerNext)` for the
same reason (a blocked read or write is not enabled), and `WF(ClientRead)`: a client
that has not closed its end reads what arrives. The code relies on that, since
`writeResponse` blocks on a full pipe and `Handle` has no timeout; a client that sends
ahead and never reads stops its own connection and no other. Writing and closing
are not fair.

## Proofs

TLC checks small instances; the theorems hold for all values of the constants that
satisfy the module's named assumption. Every proof has the same frame: an inductive
invariant holds at first and is preserved by every step, and the property follows
from it or from it and one step.

### TokenLockProofs

Assumption `ConstantsAssumption`: the free mutex is no connection; slots are
finitely many and have IDs a request can name; sizes are naturals; wire labels have
a text in `Labels`; the configured slots are well typed.

- `TypeCorrect`: `Spec => []TypeOK`;
- `GuardedAccess`: `Spec => []WritesGuarded`, with all operations: a data race is
  always with a handler that copies slots without `mu`;
- `RaceFree`: `Spec => []NoDataRace`, if clients only use the operations whose
  handlers take `mu` (the run `tokenlock_race` shows the assumption is needed);
- `InitTokenOnce`: `Spec => InitFrozen`;
- `NoLostAppend`: `Spec => AppendOnly`;
- `Refinement`: `Spec => Linearizable`, with all operations.

None of the properties is inductive. `Invariance` proves `IndInv`, which adds to
`TypeOK` three parts: `Exclusive` (whoever is in a critical section holds `mu`),
`Routed` (at each `pc` the request is one that leads there, on a slot that exists),
and `Current` (what was read or checked inside the critical section is still
true: the token is still uninitialized, the label read is still the label, the
slice read is still the token's). `Current` is preserved by other connections'
steps because of `Exclusive`, and gives the interesting step of each theorem: the
writes of `C_InitToken` find an uninitialized token, and the append extends the
current list. The refinement is proved per kind of step: stutters, arrival,
response, and the steps that take effect.

A handler's locals are records, and the prover needs their types spelled out:
`ReplyLemma` and `ReplyFlagLemma` say which updates of a reply are replies again.

### ServerProofs

Assumption `ServerAssumption`: there are more session handles than sessions, configured
objects have distinct handles below `FirstID` and keys of their own, templates and
mechanisms are well typed.

- `ListsConsistent`: `BaseInv`: types, what may be pending in each phase, and the
  lists: handles in a list are distinct and have been assigned (`Lists`), and an object
  yet to be persisted is on no token and left to one connection (`Unpersisted`);
- `TypeCorrect`: `Spec => []TypeOK`; `SessionsStable`: `Spec => SessionStable`;
- `HandlesStayValid`, `SearchesConserve`, `SignersReady`: `HandlesResolve`,
  `FindConserves` and `SignReady`. They follow from `ClientsWellInformed`, whose
  invariant says of each session what the client has been told (`Told`) and of the
  response under way what it will be told (`Pending`). The handle of a closed
  session is used again, so a session that is not there must have left nothing
  behind: that is the part of `Told` none of the properties has;
- `SessionObjectsPrivate`: `Spec => []SessionPrivate`. Not inductive: a session opened
  next may take over what is on the token, and what is about to be. `TokenInv` says
  that only token objects are or will be there (`TokenOnly`), that others are in no
  other list (`Private`), and where promised objects are (`Promised`);
- `TokenObjectsPersist`: `Spec => LaterSessionsSee`, if `Dynamic = {}`: a slot with
  `GetObjects` gives no later session what was persisted (`server_dynamic`);
- `PublicKeyFirst`: `Spec => []PublicFirst`. `PairInv`, which `PairsConsistent` proves,
  has every list with a generated private key hold the public key too, and what is
  left to persist have it on the token already or as the next one; the handles of a
  pair are consecutive, so that halves are told apart.

`StepKinds` and the `...Effect` lemmas say once what each handler changes; every
step proof uses these and not the handler's definition.

### SlicesProofs

Assumptions: `SlicesAssumption` (types; given objects are not made ones), and in the
theorems `NoSpareShared`: a list that `GetObjects` returns every time has no spare
capacity. `slices_shared` shows it is needed. Capacities and the growth of `append` are
otherwise arbitrary.

- `SessionsOwnObjects`: `Spec => []OwnObjects`; `TokenKeepsObjects`: `Spec => []TokenKept`.

The invariant of `SlicesSeparate` adds that two slices on one array are both full
(`Separate`), so an append to either allocates; without it an append might write
where another list reads.

### AttributesProofs

Assumption `AttributesAssumption`: templates are sequences, the sizes of bytes and words
are naturals and the exponent fits a word.

- `CertificatesNotMixed`: `Spec => []OneCertificate`;
- `TemplatesWin`: `Spec => []TemplateApplied`, for templates of any length that may
  name a type any number of times;
- `SetCKAIDDecides`: `Spec => CKAIDReplaced`;
- `KeysDescribed`: `Spec => []DescribesKey`, for templates of any kind.

`TemplatesProgress` proves the inductive invariant. Of the loop of `setAttributes`: after
`applied` attributes, a client reads the last value the template gave a type so far, or
what the constructor set (`Progress`); and the key is what the template asked for
(`Asked`). Of the setters: a key shows a subject and an object ID together or neither,
and they are one certificate's (`Links`); `OneCertificate` alone would not say that a
key without a subject has no `CKA_ID` of some certificate, which a later certificate
would join.

### DeriveProofs

Assumption `DeriveAssumption`: a length there is memory for is below the sign bit, and the
counter has two values at least. Lengths and the width of the counter are otherwise
unrelated, so outputs at which the counter wraps, any number of times, are included.

- `StreamDerived`: `Spec => []KDFStream`, for any length of hash and output;
- `SecretResized`: `Spec => []ResizedSecret`: a derived value has the length its object
  reports, and without a KDF it is the shared secret as a number, cut from below.

The loop invariant (`InLoop`): the output is a prefix of the stream, a whole number of
blocks, and the counter is one ahead of them modulo its width (`NextCounter`). What `resizeSecret` does to the number
(`ResizedNumber`) is the number of a prefix and of a string with leading zeros, from
`DigitsProofs`.

### DigitsProofs

What recursive definitions compute is an induction, and the library's induction rules
take an operator that the provers cannot instantiate. Here an induction is about the
set of naturals for which a claim holds: if it is not all of them, the rest has a least
element (`LeastNatural`), which is neither zero nor the successor of anything in the
set (`Induction`, `InductionTo`). That a recursive function has a value follows the same
way (`Recursion`): the functions that satisfy the equation as far as *n* are extended
by one value. With it `PowerRules` and `NumberOf` give `Power` and `Number` the equations
they are written as, and `NumberOfPrefix`, `NumberOfZeros` and `NumberOfDigits` relate a
number and its bytes: reading the `w` bytes written for a number below `base^w` gives
the number.

### CodecProofs

Assumptions: `BufferAssumption` (a byte can be a decimal digit, a `uint64` is two
`uint32`); `CodecAssumption`: values fit their encoding (arrays shorter than the marker
of a NULL one, years of four digits), and each handler that reads a mechanism reads a
handle or a template next. The second is true of the three handlers (`MCReads`
lists them) and the proof uses it. Bases, sizes of words, values, and the lengths of
arrays, templates and messages are arbitrary.

- `ResponsesRead`: `Spec => []ResponseDecodes`;
- `RequestsUnderstood`: `Spec => []Understood`, NULL arrays in every place included;
- `DamageNoticed`: `Spec => []DamageRejected`, for every call but `C_Finalize`.

The last two suppose `HandlesClear`: where clients leave out the marker, no handle has
it as its upper half. The configuration `codec_handles` violates `Understood` without it.
`DamageRejected` would fail as well: the half that is lost is made up for by a word too
many at the end. `MCCodec` has TLC evaluate `HandlesClear` for the values of
`codec_messages`.

The argument: an encoding delimits itself. A reader that is given bytes which agree with
the encoding of a value, as far as both go, fails if they are fewer, and otherwise returns
the value and leaves the rest (`Decodes`). This holds for words (`NumberOfDigits`), arrays,
dates and attributes, for a counted list if it holds for the elements (`IsList`,
`ListRead`), and for a message as a list of elements. The one exception is a mechanism
without parameters. If it is sent bare, it delimits itself because the first word of what
follows is not the marker (`FirstWord`). If it is sent with the marker and bytes of the
marker are missing, the reader succeeds (`Unnoticed`) and leaves less than a word, at which
the next argument fails.

`ResponseInv`: the buffer is the encoding of the elements written so far, and the signature
lists them. `RequestInv`: as long as there is no error, the handler has read the first
elements as they are meant and the buffer begins with the encoding of the next
(`Tracks`), or bytes of a marker are missing and the next argument will fail (`WillNotice`);
the signature is that of the elements to be read, or differs from it in length
(`SignatureInv`).

The proofs corrected the model in one place: `RawLength`, the length a client should be told
of an attribute's value, had overlapping cases for an attribute without a value, so
that its meaning was left open.

### ServeLoopProofs

Assumption `ServeLoopAssumption`: everything on the wire is a word, a message marked
`short` is one the loop cannot parse (the length of its signature is not that of a NULL
one), one marked `null` has an empty signature, other signatures are shorter than the
length that means NULL, and an error response is not one to `C_Finalize`.
Messages, their number, the handlers' results and the capacity of the pipes are
arbitrary.

- `Refinement`: `Spec => Implements`.

The service knows messages, the loop only cells, so the invariant of `CellsInOrder`
relates them. `InPieces`: there is a stream, a version and the frames of the requests
begun so far, such that the server's buffer, the pipe and the client's rest are
consecutive pieces of it to its end; the server's buffer begins where the frames of
the answered requests end, or three cells further while their header is in `hdr`;
and every request counted as sent has left the client in full. `OutPieces` is the
same for the answers, where the reader is the client. `Client` and `Control` are the
types and what is empty at which `pc`.

Each transfer of a cell moves the border of two pieces (`PiecesRead`, `PiecesWrite`), each
new message lengthens the stream (`FramedGrows`, `PiecesGrow`), and a message read in
full moves the reader to the next frame. From it follow the steps that matter:
`RequestRead` (the body the handler sees is that of the next unanswered request),
`DispatchMeans` (what it does with it is an outcome of the service), `ReadFailsMeans` (the
end of the stream is met with no whole request unanswered, so `Handle` may give up),
and `OutClientRead` (a response read in full decodes to the next answer).

### Only model-checked

`Responds`, `Returns`, `Answered`, `HandleReturns`: liveness under fairness is out of the
prover's reach. Every invariant, every action property and both refinements that a passing
run checks are also theorems.

## Not modelled

- The bytes of signatures, hashes, keys and curve points: external libraries.
- The table of `valueType` and the names in `attributeString`, `callStrings` and
  `mechanismToString`: data. `valueType` is a constant of `Buffer`.
- `time.Date` normalizing dates that do not exist.
- Two objects with the same random handle.
- `errors.go` (generated) and its generator.
- The example server's reading of flags, PEM files and certificates.

## What could come next

- The wire and the handlers in one module: `ServeLoop` with the bodies of `Codec` and the
  actions of `Server` in place of its set of outcomes.
- A model of `C_SignInit` and `C_DeriveKey` with a reader that knows the client's version,
  as the repair of what `codec_handles` shows.
