# trishul-snmp in TLA+

Models of the `trishul_snmp` runtime library (Python, asyncio): an SNMP v2c/v3
manager, notification sender and listener, a read-only v2c responder, and a
MIB registry fed by compiled JSON; of its command `tsnmp`; and of the scripts
that gate a release. The modules are translated from `src/trishul_snmp/` and
`src/scripts/`; paths below are relative to `src/trishul_snmp/` or, for
`docs/`, `tests/` and `scripts/`, to `src/`. TLC checks small
instances; TLAPS proves nearly all of the safety properties for all instances.

## 1. The system

| part | code | state it keeps | operations |
|---|---|---|---|
| UDP client | `transport/udp.py` `UdpClient` | one socket or None | open (suspends in the address lookup), close, send, receive(timeout) |
| dispatcher | `transport/dispatcher.py` | request-id counter, timeout, retries | prepare, send, retry loop, match by id |
| session | `session.py` | `_opened`, an `asyncio.Lock` | open (client, then the security model's `prepare`), close |
| manager | `manager/` | a session | get, get_next, get_bulk, walk |
| security models | `security/` | community; USM user, own and peer engine | wrap, unwrap, engine discovery |
| notifiers | `notify/client.py` | a session | send_trap, send_inform |
| listeners | `notify/listener.py`, `notify/v3.py`, `notify/events.py` | a UDP server, communities or one user, own engine | receive: filter, acknowledge informs, answer discovery probes, build events |
| UDP server | `transport/udp.py` `UdpServer` | per open: a transport, a queue, a `closed` future | open, close, sendto, receive |
| responder | `responder/server.py` | `_closed`, a server, a source | open, close, serve, handle_request |
| object source | `responder/sources.py` | dict of objects and the sorted list of its keys | set_object, set_objects, delete, clear, lookup_exact, lookup_next |
| simulation rules | `responder/rules.py` | a counter's current value | evaluate, on each reading |
| codec | `wire/` | none | values, varbinds, PDUs, messages to octets and back |
| bundle | `mib/loader.py`, `mib/bundle.py`, `mib/models.py` | module records | load a file or a directory with manifest and sidecar |
| MIB registry | `mib/registry.py`, `mib/render.py` | nodes by symbol and by OID, types, sidecar index | lookup_oid, resolve, translate, labels |
| `tsnmp` | `cli/` | none of its own | parse and check options, a few calls of the library, exit status |
| release gate | `scripts/run_release_gate.py` | report, wheels in `dist/`, a venv | eight recorded steps |
| ecosystem validation | `scripts/validate_ecosystem.py` | work directory, compiled bundles, report | parent, worker, thirteen recorded steps |

Interaction. A manager or notifier calls the session's dispatcher under the
session's lock; the dispatcher wraps PDUs with the security model and sends
them through the UDP client; datagrams come back through the same client and
are unwrapped and matched. `UsmModel.prepare` runs inside `open()` or, for a
V3 notifier, inside the first inform, and uses the dispatcher for its probe. A
listener or responder receives from a UDP server's queue, which the event
loop's protocol callbacks fill. A walk is a loop of manager requests. `tsnmp`
makes one manager, notifier or listener from its options. The gate and the
validation run `tsnmp` and one another's products (wheels, compiled bundles) as
external commands, and the validation also runs a responder and a manager in
one event loop.

What is hard here: tasks that share one session and are cancelled at any
await; `open()` and `close()` that overlap other calls; late, repeated, lost
and reordered datagrams; timers restarted inside a call; a queue whose readers
are woken, cancelled and outlive their server; data that changes between the
requests of a walk; a listener that comes back with another engine; octet
boundaries of the codec; an index file older than the data it indexes; a bundle
of which one file is bad; counters that every reading advances; options that
one of three checks forgets; commands that fail or are interrupted halfway and
leave things behind for the next run. Each is
listed with its line under `hazards` in `PROJECT.json`.

What makes each part correct: one exchange at a time and each answer to its
own caller (session); no socket left behind (client); neither too short nor
too long a wait (dispatcher); no request answered twice, out of order or
through a later transport, and loops that end on close (server, responder);
lists in step, bulk rows that agree with the table (source, responder); rows in
order, stable objects found, termination (walk); acknowledged means delivered,
events that say what was sent (notifications, codec); loaded whole or not at
all (bundle); round trip, closest node and labels of the node shown (registry);
exit status 0 only for what was done with the options given (`tsnmp`); a pass
only on what this run built and compiled, and nothing left behind (scripts).

## 2. Modules

| module | models | actions and operators |
|---|---|---|
| `Session` | one `SnmpSession` shared by tasks: client, dispatcher, lock, discovery hook | `OpenCall`, `OpenResolved`, `OpenFails`, `CloseCall`, `RequestCall`, `LockGranted`, `ProbeAnswered`, `ProbeRejected`, `Arrive`, `Answer`, `Ignore`, `Reject`, `ReceiveTimeout`, `ReceiveError`, `Cancel` |
| `Exchange` | what callers are promised, without sockets, retries or queue (abstract) | `Begin`, `Pass`, `Answered`, `Abandon` |
| `RequestTimer` | the duration of one call | `Call`, `Tick`, `Ignore`, `Expire`, `Finish` |
| `UdpServer` | server, queue, waiting getters, sentinel, the order the event loop runs them in | `DatagramReceived`, `ServerOpen`, `Bound`, `BindFails`, `ServerClose`, `ConnectionLost`, `CloseReturns`, `Suspend`, `Take`, `CancelGet` |
| `ServeLoop` | responder loops on a `UdpServer` (extends it) | `Open`, `Close`, `Serve`, `Receive`, `Resume`, `Cancel` |
| `Oids`, `ObjectSource`, `Responder`, `Walk` | OID order; the source with counter rules; request handling; `walk_subtree` against both (each extends the one before) | `SetObject`, `SetObjects`, `DeleteObject`, `Clear`, `Evaluated`; `ResponsePdu`, `BulkVarbinds`; `Start`, `RespondHonest`, `RespondAny`, `Receive`, `Fail`, `Change` |
| `Wire` | BER, values, varbinds, PDUs | `EncodeValue`, `ValueOf`, `TlvAt`, `PduOctets`, `Pdu`, ... |
| `Framing` | v2c and v3 messages, USM parameters, ScopedPDU, signing, as octets (extends `Wire`) | `CommunityOctets`, `UsmOctets`, `UsmView`, `ScopedView`, `AuthOffset`, `Stamped`, `Verified`, ... |
| `Notification` | notifier, network, listener (extends `Framing`) | `SendTrap`, `SendInform`, `Discover`, `Acknowledged`, `InformFails`, `AnswerProbe`, `Deliver`, `Restart` |
| `Bundle` | what is on disk: module files, manifest, sidecar; every reason to refuse them | `LoadError`, `LoadedModules`, `LoadedIndex` |
| `Registry` | loading into dictionaries, lookup, display, translation, labels (extends `Bundle`) | `Load`, `Translate` and `Enrich` over `LookupOid`, `DisplayMatch`, `ResolveSymbolic`, `ResolveType` |
| `Cli` | one `tsnmp` command | `CliStart`, `ParseSecurity`, `Work`, `Exchange`, `Receive`, `PrintResult`, `Raise`, `InterruptCommand` |
| `ReleaseGate` | runs of the gate and edits between them | `GateStart`, `RunTool`, `BuildDistributions`, `WheelUnknown`, `CheckWheelDuplicates`, `PrepareVenv`, `SmokeBegins`, `SmokeCommand`, `SmokePasses`, `SmokeFails`, `ReportGate`, `InterruptGate`, `Edit` |
| `Ecosystem` | runs of the validation | `ValidationStart`, `BootstrapBegins`, `Bootstrap`, `WorkerDies`, `ValidateVersion`, `CompileBundle`, `CompileBlocked`, `SkipStep`, `ValidateArtifacts`, `ValidateLiveAgent`, `ValidateNotifications`, the responder step, `ReportValidation`, `InterruptValidation` |
| `Tools`, `ExitStatus` | one of those three programs, chosen in `Init`; their exit codes | |
| `SessionProofs`, `RequestTimerProofs`, `ServeLoopProofs`, `WalkProofs`, `RegistryProofs`, `ToolsProofs`, `NotificationProofs` | proofs about the module named | |
| `SequenceLemmas` | lemmas: sequences, and recursive functions on naturals | |
| `MC*` | instances for TLC | |

How a step is cut. In `Session` and `UdpServer` a step is what a task runs
between two points at which asyncio really suspends it. Sending or connecting
UDP does not suspend; the address lookup, the lock, a receive, `queue.get` and
the `closed` future do. A datagram may have arrived in a suspended receive
(`inbox`) while its task has not run yet, so a timeout or a cancellation can
still overtake it. In `UdpServer` the variable `running` keeps a task that
found an item going until it suspends, as the event loop does.

The loop runs what is ready in the order it became ready, and one place depends on
it. `connection_lost` makes the getter woken by the sentinel ready first and the
owner suspended in `close()` second, so the getter runs before the owner leaves
`close()`. When that getter is cancelled in the same iteration, though,
`Queue.get` wakes the next one in its place, who is ready behind the owner.
`late` holds such getters: `CloseReturns` waits for all who are woken but those,
and a late getter of the queue being closed runs (`Runs`) only after `CloseReturns`.
By then the owner may have called `open()`, which clears `_closed` at once.
The order among other ready tasks is left open.

What is abstracted. In `Session` a datagram is a kind (response with an id,
report, foreign, bad). In `Notification` a datagram is the
octets of a whole message, which may arrive cut short anywhere `Cuts` says.
Cryptography is symbolic: every digest has the same twelve octets, and the key
and the octets it was computed over are kept beside the datagram; a message
verifies iff these are the key and the octets, with zeros where the receiver
found the digest, that the receiver computes with. So a digest looked for at
the wrong place fails to verify. The cipher flips a bit of each octet. Message ids,
engine boots and engine time are sent but never compared by the code, and are
constant. A retransmission is the same datagram arriving again. A JSON file is a record whose fields
and sections may be missing or malformed, or a file that cannot be read as text: its error is
not one of the library's (`_read_json`, `mib/loader.py:157`, lets `UnicodeDecodeError` and
`OSError` pass). In the scripts an external command works, fails, or is interrupted,
and what it leaves on disk is chosen from what it may have written so far; a
wheel is the revision it was built from and a compiled file the run that wrote
it. `rmtree(ignore_errors=True)` in a finally clause is taken to do its work.
An interrupt comes while a step is under way, or between the making of a temporary
directory and the `try` whose finally clause removes it. That the validation cannot make
its work directory, before which it has done nothing, is left out. The owner of a
responder is not cancelled inside `close()`. A `tsnmp` option is present or
not, and the values of those present all parse or all fail; the operation of the
library is one step that returns or raises.

## 3. Runs

| run | instance | what it shows |
|---|---|---|
| `shared` | 3 tasks, 2 of them owners, 1 retry, 2 calls each, 2 datagrams; owners symmetric | lock, ids and answers stay in order through timeouts, errors, cancellation and reopening; a socket is lost only where two `open()` overlap |
| `v3` | 2 tasks, 1 owner, 3 calls each, discovery in `open()` and on the first inform | no socket left behind, engine known before an inform, `Exchange` implemented, every call returns |
| `timer` | 3 ticks, 2 retries, 3 strays | bounds on a call from above and below |
| `serve` | 2 tasks, 2 opens, 2 datagrams, counts 0..2 | order, transport, clean end, each but for a task woken late, and a lone loop ends |
| `walk` | 4 OIDs on three levels, a fixed value and a counter rule, batches for `set_objects` of which one has an unresolvable target, 2 changes, 2 answers to a request, repetitions 0..2; a device that is not honest answers up to 3 varbinds, whatever was asked for | source, GETBULK and walk properties, readings that go up; the agent is honest or answers anything |
| `notify` | v2c and v3, right and wrong communities, keys and levels, peers with short and with long lengths, 2 calls, 2 engines, datagrams cut at 8 places | delivery, content, acknowledgement, partners that understand each other |
| `registry` | directories of up to 2 files out of 4 good and 12 bad ones, 9 forms of manifest, every sidecar over 4 OIDs | loaded whole or not, translation round trip, closest node, labels |
| `tools` | the gate over 2 revisions with and without old wheels, every setting; 2 validations with every setting; every `tsnmp` command with every set of the options its parser offers (engine options all, none, or the id apart) and each single one it does not offer | what an exit status of 0 means, what is left behind, that a validation ends |
| `open_twice`, `timer_stray`, `members`, `sidecar` | smallest instance each | disagreements, see section 5 |

Why the bounds are enough. Two calls of a task and one retry give a late answer
to an abandoned request during the next; three tasks give a queue of two with
the first cancelled; two datagrams give a repeated and a wrong one; two opens
give a transport reopened before its sentinel is read. Two serving tasks are enough
for a late wake-up, and for the error it may surface as. A late task's answer through
a later transport takes a chain of cancelled getters, hence more tasks; the proofs hold
for any number. Two changes between
requests delete and insert around the cursor of a walk. The contents sent in
`notify` have values at the boundaries where an encoding gains an octet
(127/128, -129, 128 and 16384 in base 128, 32768, 65535), overrides repeated and
of the wrong type, and a name that cannot be encoded. A peer that writes long lengths writes
those of SEQUENCEs in at least two octets, as agents do that reserve room for them; the
cuts fall into the outer header, the header data, the USM parameters, the
ScopedPDU and the last octet. The registry's nodes share OIDs, lie at each other's
instances and above each other, and types of one name are in several modules.
Two changes of a walk let a counter be replaced and come back; a GETBULK row
that is thrown away has read it in between. Two revisions give an old wheel of
the right name; two validations give a work directory with old artifacts, left by
a run that ended anywhere. `MaxEvents` counts the notifications `listen` is
asked for; `--count 0`, for ever, is in the instance too, and ends with an error
or an interrupt.

Deadlock is checked except where there may be nothing more to do: in `notify` (the
network and the application), `registry` and `sidecar` (a bundle that is
refused), `tools` (a command that has exited).

Symmetry is used in `shared` over the two owners, which no definition tells
apart; that run has an action property, which treats them alike, and none of liveness.

Fairness. `Session`: a ready callback runs, so address lookups end, timers fire
and a woken waiter gets the lock; nothing is assumed of the peer, not even that
it answers, and datagrams are finitely many (with infinitely many strays a call
need not return, because each restarts its timer). `ServeLoop`: a task that
runs suspends or ends, a woken one runs. Strong fairness stands for the event
loop's ready queue: `ConnectionLost` and `Resume` are disabled for the moment
each time another task runs, and yet the loop gets to them. The owner and the
peer owe nothing. `Walk`: a request is answered or given up. `Tools`: a step
of a validation is taken, that is, pip, tsmi and the live agent's answers end,
each with success or failure (the live part and the notifications have timeouts);
nothing makes the four requests of the responder step reach it, they may all
time out. Each is weak fairness of that part only, and none forces a call or an
answer.

Every property of a passing run has a mutant: a definition changed as a
plausible bug would change it, under which TLC finds the property violated.

## 4. Proofs

Every theorem holds for all values of the constants that satisfy the module's
assumption: any set of tasks, any number of retries, calls, datagrams, opens, OIDs,
values, engines, repetitions, changes, revisions and runs. The assumptions say only that
bounds are natural numbers, that a sentinel is not a member of the set it stands beside,
and what form an OID, a value, a batch or an option is of; TLC evaluates each on the
runs. Each proof of an invariant is that of an inductive one: one lemma for each action,
then one that collects them.

| module | assumption | theorems |
|---|---|---|
| `SessionProofs` | `SessionAssumption` | `TypeCorrect`, `Safety`, `OneExchange`, `NewestOutstanding`, `Refinement`, `EngineBeforeUse`, `NoSocketLost`, `LostOnlyByOverlap` |
| `RequestTimerProofs` | `TimerAssumption` | `CallDuration`, `TimerTypes`, `TimeoutsAreWhole` |
| `ServeLoopProofs` | `UdpServerAssumption`, `ServeAssumption` | `ServeTypes`, `NoRequestTwice`, `NoStrayAnswer`, `CloseIsClean` |
| `WalkProofs` | `SourceAssumption`, `WalkAssumption` | `WalkInvariant`, `WalkTypesHold`, `SourceStays`, `WalkIsInOrder`, `WalkIsComplete`, `WalkIsTrue`, `CounterIncreases`, `BulkAtAnyTime`, `BulkIsWhole` |
| `RegistryProofs` | `RegistryAssumption` | `TranslatesBack`, `MatchIsNearest`, `AllOrNothing`, `LabelsBelong` |
| `NotificationProofs` | `NotificationAssumption` | `NotificationTypes`, `OnlyDeliveredInformsReturn`, `UsmArrives`, `CommunityArrives`, `PduRoundTrip`, `EventsTellWhatWasSent`, `CompleteNotificationsArePaired`, `PartnersUnderstandEachOther` |
| `ToolsProofs` | `GateAssumption`, `EcosystemAssumption`, `CliAssumption` | `GateHonest`, `VenvHonest`, `ArtifactsFresh`, `CommandHonest` |

Session. `SafetyInv` adds to `LockDiscipline`, `OutstandingIsNewest` and
`AnswersAreOwn` that a queued or idle task has no exchange, so the three hold
each other up: the answer goes to its own caller because the id waited for is
the newest one, and that is so because nobody draws an id while another task is
in an exchange, which is the lock's discipline. `StepShape` first shows that any
step does one of five things to lock, ids and answers; the invariant and the
refinement are then proved from those five shapes and not from fifteen actions.
`Refinement` is `Spec => Promise!Spec`, the safety part of `Exchange`.
`EngineKnown` needs that who is past discovery found an engine
there (`EngineInv`). `SocketsAccountedFor` is about one task that opens and closes,
and needs that the sockets made and not closed are then the client's (`SocketInv`).
`OnlyOverlapsLoseSockets` is about any number: step by step, only an `open()` that
stores its socket over another's leaves one that nobody closes.

Timer. Elapsed time is full waits plus the part of the running timer that has
passed.

Server and loop. `ServeInv` says of every task where it is: parked on one
queue's list of getters, woken with an item or a sentinel due to it, running, or
outside `serve`; and of every queue that what was taken from it and what is
in it are, in this order, the datagrams that arrived on its transport. The answers follow
the datagrams because only a running task takes one, and it answers before it
suspends. The exceptions of `AnsweredOnItsTransport` and `CloseIsNotAnError` are
those of section 2: without `late` both would be false of the code. What is
proved is that a late wake-up is the only way.

Walk. `WalkInv` describes a walk half way: the request outstanding lies behind the last
row, each answer in the network is one `ResponsePdu` gave to a table since the request
(or anything, from an agent that is not honest), and up to the cursor every object that
has been in the table all along has a row (`SoFar`). `StableObjectsFound` is `SoFar`
when the cursor has left the subtree. The first half of the module is about the source:
the order of OIDs is total, bisection splits the sorted keys, every operation keeps the
keys and the dictionary in step, and a GETNEXT or GETBULK answer skips no object.
`BulkAtAnyTime` is stated for all lists of OIDs and all integer counts: the place of
each repeater in the sorted list moves on by one a repetition until it is at the end
(`CursorFindsSuccessors`), the k-th object after an OID, defined by counting, is the
k-th key after its place (`SuccessorByPlace`), and a varbind's number gives its row and
column (`RowAndColumn`). `BulkIsWhole` is what the run checks of it, and that GET agrees
with GETNEXT.

Registry. `RegistryAssumption` says that a directory is finite, that the lists in a file
are lists, that an OID in it is missing, malformed or integers, and, as SMI
has it, that descriptors are unique within a module and an OBJECT IDENTIFIER
node has neither syntax nor labels; the code checks the form and takes the rest
from the compiler. Which OIDs and names the files share, what
the manifest lists, what the sidecar says and which files are bad is left open.
The loader's folds come first: a list without repeats has the same members
(`NoRepeats`), the dictionary by name has each name once and for each the last
record (`NamesOnce`). Hence a symbol stands for one loaded node
(`SymbolResolves`), although an OID may be several nodes'. `RegistryInv` says
that what is loaded is what the directory gives without an error, and that what
was answered is what the registry answers, since a call changes nothing.
`TranslatesBack` needs that a match and what is displayed for it have the
same OID (`MatchIsClosest`, `DisplayIsInPlace`).

Notification. `IInv` says that every datagram on its way to the listener is of octets,
and that every one on its way to the notifier is a REPORT, or a RESPONSE to an inform of
which the event was handed on (`Answering`). An inform that returns was answered by such
a datagram, whole or cut short; `OnlyItsAnswer` is that what the notifier then reads out
of it is a RESPONSE with the id that was put in. This is a matter of the codec, and most
of the module is about it, from the bottom: digits of a number and their signs; one TLV
(`EncodesTlv`) and what is left when its end is missing; TLVs one after another
(`ConsistsTlvs`: a recursive function of the octets, so that the induction is over
places in them); values, OIDs, varbinds and PDUs; the digest, which is written into the
message at the place where the receiver looks for it (`FramedTlv`, one step for each TLV
it lies in); and messages (`UsmArrives`, `CommunityArrives`). What is decoded from
octets that nobody encoded has its type as well (`WantedType`, `ViewType`), since a
listener answers whatever it could decode, and what it read it can encode again
(`KnownPdu`, `PduMade`). No secrecy or authenticity enters: the theorem holds as well
without a key, because the listener is the only peer. `NotificationAssumption` says of
the values an application sends what their classes in `types.py` hold (`IsValue`), not
that they can be encoded: that is `CanEncode`, the guard of `Send`.

What an event tells needs more of the codec and of the network. `SInv` adds to `IInv`
that every datagram on its way to the listener is a probe or the datagram of one of the
calls (`Sent`), and that every event is what `Event` makes of the tag, the id and the
varbinds of one of them (`Tells`). It is inductive because what the listener takes from
such a datagram, or from a part of it, is that call's PDU (`OutboundIsTaken`), never a
probe's (`ProbeIsPassedOver`). Behind this is `PduRoundTrip`: arcs in base 128
(`ArcRead`, `OidBack`), each type of value (`ValueBack`), varbinds one after another
(`VarbindsBack`) are decoded to what was encoded, at every length. Then `EventsAsSent`
relates two folds: the one by which the notifier puts the explicit varbinds behind the
uptime and the notification, the last override in front (`BuiltMore`, one varbind at a
time; `BuiltFromGiven`), and the one by which the listener looks for the first of each
(`FirstTwoFound`). `CompleteBindings` adds the fold that leaves these two out
(`PayloadIs`). `PartnersUnderstand` needs that verification and decryption succeed with
the right key at every level (`UsmOpened`), for messages with lengths long or short, and
that the acknowledgement is read by the same lemmas (`PartnerTakes`, `PartnerAnswers`).

Two hypotheses of these theorems are not in `NotificationAssumption`; TLC evaluates
both on the instance (`MCAssumption`). `NaturalArcs`: no value sent is an OID with a
negative arc. `_encode_oid` refuses negative arcs from the third on only
(`wire/asn1.py:154`) and makes the first octet of 40 * x + y unchecked, so an
`ObjectIdentifier((1, -5))` goes out as 0.35 and the event does not tell what was sent.
`MembersApart`: no declared member of the bundle is a prefix of `sysUpTime.0` or
`snmpTrapOID.0`; `_build_member_bindings` drops varbinds of these names before it pairs,
so the varbind of such a member would be missing.

Gate, validation, command. `GateInv` follows the wheel from build to venv to smoke
command with the revision at each; `EcoInv` the compiled files with the run
that wrote them; `CliInv` what a stage has done of what the options ask. `GateHonest`
claims that no command failed under every setting, and which revision was tested for
`./dist` only; `VenvHonest` excepts the empty directory an interrupt leaves before the
`try`; `CommandHonest` claims of `walk` and `bulkwalk` no more than that a request was
sent, since their error status does not reach the exit status.

Induction. A recursive function or fold is reasoned about by induction over sets
of naturals, not over an operator: `LeastNatural` (a set of naturals with a
member has a least one), `NaturalsByStep` (a set with 0 and with the successor of each
member up to a bound is all of it), `IterationExists` (the function a
recursive definition asks for exists). They are lemmas of `SequenceLemmas`
and take sets and functions as parameters.

Every invariant of the runs that pass, and every action property, is stated by a
theorem. Only model-checked: liveness (`CallsReturn`, `LoneLoopStops`, `WalkEnds`,
`ValidationEnds`, the fairness of `Exchange`), which this prover does not do.

## 5. Where code and documents disagree

| run | document | what the model shows |
|---|---|---|
| `timer_stray` | `docs/configuration.md:29` "Per-request timeout in seconds" | each datagram that is not for the request starts the whole timeout over (`transport/dispatcher.py:117`) |
| `open_twice` | `tests/test_session_prepare_hook.py:112` "prepare() runs exactly once" | overlapping `open()` calls both prepare (`session.py:54`) |
| `sidecar` | `docs/bundles.md:41` sidecars "do not define correctness" | a stale entry changes a match (`mib/registry.py:120`) |
| `members` | `docs/python-api.md:456` "Matching decoded `VarBind`, or `None`" | members are bound by position (`notify/events.py:329`) |

Seen while modelling, and without a run of their own:

- `tsnmp walk` and `bulkwalk` exit with 0 whatever error status ended the walk,
  because `walk_subtree` does not look at it (`manager/walk.py:33`);
  `docs/cli.md:35` gives 1 for a "non-zero SNMP error status".
- of two tasks in `serve_forever()` on one responder, one is left suspended by
  `close()`, because `connection_lost` puts one sentinel (`transport/udp.py:125`).
  `LoneLoopStops` says what holds: a loop that serves alone ends.
- `serve_forever()` runs "until closed" (`docs/python-api.md:555`) but may raise
  `TransportError` when the responder is closed and at once opened again: a task
  that waits first in line is cancelled just as `connection_lost` wakes it, the
  next one is woken behind the owner, and takes the sentinel when `open()` has
  set `_closed` back (`responder/server.py:76`). In the same way it may answer a
  datagram of the earlier transport through the later one. `AnsweredOnItsTransport` and
  `CloseIsNotAnError` say that nobody else does.
- of two `open()` calls that overlap on one session the second to come back from its
  address lookup overwrites the first one's socket, which nobody closes
  (`transport/udp.py:54`), and a `prepare()` that fails in one of them closes the
  other's. `OnlyOverlapsLoseSockets` says that this is the only way to lose one.
- an interrupt between `mkdtemp` and the `try` leaves an empty directory, in the gate
  (`scripts/run_release_gate.py:282`) and in the validation
  (`scripts/validate_ecosystem.py:314`).
- a bundle file that is not UTF-8, or may not be read, raises `UnicodeDecodeError` or
  `OSError` instead of a library error (`mib/loader.py:157`).
- `run_release_gate.py --dist-dir` looks elsewhere than hatch writes, so it fails
  or passes on an old wheel; `GateTestedItsBuild` is stated for `./dist`.
- an OID value with a negative second arc is not refused but sent as another OID
  (`wire/asn1.py:152`), which the proof of `EventsAsSent` came upon: section 4.
- of two files of one module name the later is loaded (`mib/loader.py:42`);
  `LoadedWhole` excepts such files. A node with an empty OID is loaded and never
  found by OID (`mib/registry.py:134`).

## 6. Not modelled

`scripts/benchmark_snmpd.py` (it times calls of the library and keeps nothing);
the rendering of output and of values other than enumerations (`cli/output.py`,
most of `mib/render.py`, `types.py`); `CallbackObjectSource`, which wraps two
callables, and the default values of `from_bundle`; the rules that read the clock
or a random generator; whether a community is UTF-8; argument checks of
constructors, target normalisation; cryptography itself, engine boots and time.
`PROJECT.json` says why for each.

## 7. Plan

Most important first.

1. Done: session and its promise, timing, server and serve loop, source and
   counter rules, responder and walk, codec, framing and notifications, bundle and
   registry, `tsnmp`, gate and validation; proofs for the session, the timer, the
   serve loop, the walk and its source, loading and registry, the scripts and
   the command, and for notifications that what is acknowledged was delivered, that
   events tell what was sent, and that partners understand each other.
2. Extend: `UsmModel` for `V3Manager`, with requests made before
   discovery has ended; listeners on `UdpServer`, as `ServeLoop` is; a second
   owner of a `UdpServer`; an abstract table of objects that `ObjectSource`
   implements, and an abstract notification service that `Notification`
   implements.
