----------------------------- MODULE Notification -----------------------------
(***************************************************************************)
(* A notifier (notify/client.py: V2cNotifier, V3Notifier) and a listener   *)
(* (notify/listener.py: V2cNotificationListener, V3NotificationListener)   *)
(* with the network between them.  The notifier makes one call at a time:  *)
(* Session models what its lock does.  A datagram once sent may arrive any *)
(* number of times, in any order, or never, which also stands for the      *)
(* dispatcher's retransmissions; it may also arrive cut short.  A V3       *)
(* listener may be started again with another engine.                      *)
(***************************************************************************)
EXTENDS Framing, FiniteSets

CONSTANTS
    Notifiers,   \* [version, name, key, level, local, long]: community or user,
                 \* whether it has a local engine, and whether it is a peer that
                 \* writes long lengths
    Listeners,   \* [version, names, key, level]: communities or the one user
    Engines,     \* engine ids a V3 listener is started with
    OwnEngine,   \* the notifier's local engine id
    Contents,    \* [target, uptime, varbinds] given to send_trap, send_inform
    Members,     \* the bundle: declared members of its notifications
    MaxCalls,    \* bound: notifications prepared
    Cuts         \* bound: lengths to which a datagram may be cut, besides one
                 \* octet less than it has

\* values and varbinds as an application makes them (types.py)
IsValue(x) ==
    /\ x.type \in DOMAIN Tag /\ x = Val(x.type, x.v)
    /\ x.type \in Unsigned \union {"Integer"} => x.v \in [1 .. 1 -> Int]
    /\ x.type = "ObjectIdentifier" => x.v \in Seq(Int)
    /\ x.type \in Octets => x.v \in Seq(0 .. 255)
    /\ x.type \in Empty => x.v = <<>>
IsVarbind(vb) ==
    vb = [oid |-> vb.oid, value |-> vb.value] /\ vb.oid \in Seq(Nat) /\ IsValue(vb.value)

ASSUME NotificationAssumption ==
    /\ \A n \in Notifiers :
        /\ n.version \in {"v2c", "v3"} /\ n.name \in Seq(0 .. 255) /\ n.long \in BOOLEAN
        /\ n.version = "v3" => n.level \in DOMAIN LevelFlags
    /\ \A l \in Listeners :
        /\ l.version \in {"v2c", "v3"} /\ l.names \subseteq Seq(0 .. 255)
        /\ l.version = "v3" => l.level \in DOMAIN LevelFlags
    /\ Engines \union {OwnEngine} \subseteq Seq(0 .. 255) \ {<<>>}
    /\ \A c \in Contents :
        /\ c.target \in Seq(Nat) /\ c.uptime \in Nat     \* parse_oid, ValueError
        /\ c.varbinds \in Seq(Range(c.varbinds))
        /\ \A i \in DOMAIN c.varbinds : IsVarbind(c.varbinds[i])
    /\ \A trap \in DOMAIN Members : Members[trap] \in Seq(Range(Members[trap]))
    /\ MaxCalls \in Nat /\ Cuts \subseteq Nat

SysUptime == <<1, 3, 6, 1, 2, 1, 1, 3, 0>>
TrapOid   == <<1, 3, 6, 1, 6, 3, 1, 1, 4, 1, 0>>
ProbeOid  == <<1, 3, 6, 1, 6, 3, 15, 1, 1, 4, 0>>
NoEngine  == <<>>

VARIABLES
    notifier,    \* a member of Notifiers
    listener,    \* a member of Listeners
    engine,      \* V3NotificationListener._local_engine
    peer,        \* UsmModel._peer_engine_id of the notifier
    pending,     \* the send_inform in progress, or NoInform
    calls,       \* notifications prepared; request ids are their positions
    returned,    \* ids of the informs that returned a Response
    toListener,  \* datagrams sent to the listener
    toNotifier,  \* datagrams sent to the notifier
    events       \* NotificationEvents handed to the application

setup   == <<notifier, listener>>
network == <<toListener, toNotifier>>
vars    == <<setup, engine, peer, pending, calls, returned, network, events>>

NoInform == [phase |-> "none", id |-> 0, content |-> <<>>]

Init ==
    /\ notifier \in Notifiers /\ listener \in Listeners
    /\ engine \in Engines
    /\ peer = NoEngine /\ pending = NoInform
    /\ calls = <<>> /\ returned = {}
    /\ toListener = {} /\ toNotifier = {} /\ events = {}

------------------------------------------------------------------------------
(* What is sent.                                                            *)

\* mutant: an override of the uptime is appended as well
WithOverrideKept(content) ==
    <<[oid |-> SysUptime, value |-> Val("TimeTicks", <<content.uptime>>)],
      [oid |-> TrapOid, value |-> Val("ObjectIdentifier", content.target)]>>
    \o content.varbinds

\* _build_notification_varbinds: the uptime and the notification first, an
\* explicit varbind for either replaces it
WithVarbind(built, vb) ==
    IF vb.oid = SysUptime /\ vb.value.type = "TimeTicks"
    THEN [built EXCEPT !.uptime = vb.value]
    ELSE IF vb.oid = TrapOid /\ vb.value.type = "ObjectIdentifier"
    THEN [built EXCEPT !.trap = vb.value]
    ELSE [built EXCEPT !.extras = Append(@, vb)]

NotificationVarbinds(content) ==
    LET given == content.varbinds
        built[n \in 0 .. Len(given)] ==
            IF n = 0
            THEN [uptime |-> Val("TimeTicks", <<content.uptime>>),
                  trap |-> Val("ObjectIdentifier", content.target), extras |-> <<>>]
            ELSE WithVarbind(built[n - 1], given[n])
        all == built[Len(given)]
    IN  <<[oid |-> SysUptime, value |-> all.uptime],
          [oid |-> TrapOid, value |-> all.trap]>> \o all.extras

CanEncode(content) ==
    \A i \in DOMAIN NotificationVarbinds(content) :
        LET vb == NotificationVarbinds(content)[i]
        IN  EncodableOid(vb.oid) /\ Encodable(vb.value)

\* what an SNMPv3 message is made of
UsmMessage(user, key, level, reportable, engineId, context, pdu, long) ==
    UsmDatagram([name |-> user, key |-> key, level |-> level, reportable |-> reportable,
                 engine |-> engineId, context |-> context, pdu |-> pdu, long |-> long])

\* an SNMPv2c message
CommunityMessage(community, pdu, long) ==
    Datagram(CommunityOctets(community, pdu, long), "", <<>>)

\* _select_outbound_engine: the sender is the authority for a trap
OutboundEngine(tag, peerEngine) == IF tag = PduTag.Trap THEN OwnEngine ELSE peerEngine

\* wrap_pdu: a trap is unconfirmed
Wrapped(tag, authority, pdu) ==
    IF notifier.version = "v2c"
    THEN CommunityMessage(notifier.name, pdu, notifier.long)
    ELSE UsmMessage(notifier.name, notifier.key, notifier.level, tag = PduTag.Inform,
                    authority, authority, pdu, notifier.long)

Outbound(tag, id, content, peerEngine) ==
    Wrapped(tag, OutboundEngine(tag, peerEngine),
            PduOctets(tag, id, 0, 0, NotificationVarbinds(content)))

ProbeVarbind(value) == <<[oid |-> ProbeOid, value |-> value]>>
Null == Val("Null", <<>>)

\* _build_discovery_probe
Probe ==
    UsmMessage(<<>>, "", "noAuthNoPriv", TRUE, NoEngine, <<>>,
               PduOctets(PduTag.Get, 1, 0, 0, ProbeVarbind(Null)), notifier.long)

\* mutant: an id is drawn, and then another one for the datagram
IdDrawnTwice == Len(calls) + 2

\* prepare_request: ids are given in order, one a call
NextRequestId == Len(calls) + 1

\* a varbind that cannot be encoded raises before anything is sent
Send(tag, content, peerEngine) ==
    LET id == NextRequestId IN
    /\ calls' = Append(calls, [tag |-> tag, content |-> content])
    /\ IF CanEncode(content)
       THEN /\ toListener' = toListener \union {Outbound(tag, id, content, peerEngine)}
            /\ pending' = IF tag = PduTag.Inform
                          THEN [phase |-> "waiting", id |-> id, content |-> content]
                          ELSE NoInform
       ELSE /\ pending' = NoInform
            /\ UNCHANGED toListener

SendTrap(content) ==
    /\ pending = NoInform
    /\ Len(calls) < MaxCalls
    /\ notifier.version = "v3" => notifier.local
    /\ Send(PduTag.Trap, content, peer)
    /\ UNCHANGED <<setup, engine, peer, returned, toNotifier, events>>

\* V3Notifier.send_inform looks for the peer's engine on first use
SendInform(content) ==
    /\ pending = NoInform
    /\ Len(calls) < MaxCalls
    /\ IF notifier.version = "v3" /\ peer = NoEngine
       THEN /\ pending' = [phase |-> "discovering", id |-> 0, content |-> content]
            /\ toListener' = toListener \union {Probe}
            /\ UNCHANGED calls
       ELSE Send(PduTag.Inform, content, peer)
    /\ UNCHANGED <<setup, engine, peer, returned, toNotifier, events>>

------------------------------------------------------------------------------
(* What the notifier receives: d is what has arrived, whole or cut short.   *)

\* _parse_discovery_response
IsReport(view) ==
    /\ view # NoView /\ view.engine # NoEngine
    /\ Report(ScopedView(view.data).pdu) # NoPdu

\* the first datagram is the REPORT
TakeReport(view) ==
    /\ IsReport(view)
    /\ peer' = view.engine
    /\ Send(PduTag.Inform, pending.content, view.engine)

Discover(d) ==
    /\ pending.phase = "discovering"
    /\ TakeReport(UsmView(d.octets))
    /\ UNCHANGED <<setup, engine, returned, toNotifier, events>>

CommunityPdu(view) == IF view.name = notifier.name THEN Pdu(view.pdu) ELSE NoPdu

\* CommunityModel.unwrap_message: the PDU, or NoPdu
CommunityUnwrap(d) == CommunityPdu(CommunityView(d.octets))

UsmPdu(d, view) ==
    IF /\ view # NoView /\ view.name = notifier.name
       /\ peer # NoEngine => view.engine = peer
       /\ notifier.level # "noAuthNoPriv" => Verified(d, view, notifier.key)
    THEN Pdu(ScopedView(IF notifier.level = "authPriv" THEN Decrypted(view) ELSE view.data).pdu)
    ELSE NoPdu

\* UsmModel.unwrap_message: the PDU, or NoPdu
UsmUnwrap(d) == UsmPdu(d, UsmView(d.octets))

IsAnswer(p) == p.tag = PduTag.Response /\ p.id = pending.id

\* a RESPONSE with the id the dispatcher waits for
Answers(d) ==
    IF notifier.version = "v2c" THEN IsAnswer(CommunityUnwrap(d)) ELSE IsAnswer(UsmUnwrap(d))

Acknowledged(d) ==
    /\ pending.phase = "waiting"
    /\ Answers(d)
    /\ returned' = returned \union {pending.id}
    /\ pending' = NoInform
    /\ UNCHANGED <<setup, engine, peer, calls, network, events>>

\* the retries are used up, the task is cancelled, the socket fails or the
\* datagram that came in is refused; Session has each of these
InformFails ==
    /\ pending # NoInform
    /\ pending' = NoInform
    /\ UNCHANGED <<setup, engine, peer, calls, returned, network, events>>

------------------------------------------------------------------------------
(* What the listener does with a datagram; others are passed over.          *)

\* is_discovery_probe
IsProbe(view, scoped, p) ==
    /\ view.flags = ReportableFlag
    /\ view.engine = NoEngine /\ view.name = <<>> /\ view.auth = <<>> /\ view.priv = <<>>
    /\ scoped.context = <<>>
    /\ p.tag = PduTag.Get /\ p.varbinds = ProbeVarbind(Null)

\* encode_discovery_report
ReportOn(scoped, p) ==
    UsmMessage(<<>>, "", "noAuthNoPriv", FALSE, engine, scoped.context,
               Tlv(ReportTag, Tlvs(PduOctets(PduTag.Get, p.id, 0, 0,
                                             ProbeVarbind(Val("Counter32", <<1>>))))[1].content),
               FALSE)

ReportIfProbe(view, scoped, p) ==
    /\ view # NoView /\ IsProbe(view, scoped, p)
    /\ toNotifier' = toNotifier \union {ReportOn(scoped, p)}

ReportIfProbeIn(view, scoped) == ReportIfProbe(view, scoped, Pdu(scoped.pdu))

ProbeView(view) == ReportIfProbeIn(view, ScopedView(view.data))

AnswerProbe(d) ==
    /\ listener.version = "v3"
    /\ ProbeView(UsmView(d.octets))
    /\ UNCHANGED <<setup, engine, peer, pending, calls, returned, toListener, events>>

\* _validate_security_level
LevelFits(view) == view.flags % ReportableFlag = LevelFlags[listener.level]

\* _validate_notification_reportable_flag
ReportableFits(view, p) == IsReportable(view.flags) <=> p.tag = PduTag.Inform

IsNotification(p) == p.tag \in {PduTag.Trap, PduTag.Inform}

Unwanted == [name |-> <<>>, context |-> <<>>, pdu |-> NoPdu]

Taken(name, context, p) == [name |-> name, context |-> context, pdu |-> p]

CommunityTaken(view, p) ==
    IF view.name \in listener.names /\ IsNotification(p)
    THEN Taken(view.name, <<>>, p) ELSE Unwanted

CommunityNotificationIn(view) == CommunityTaken(view, Pdu(view.pdu))

\* a trap or inform of one of the communities
CommunityNotification(d) == CommunityNotificationIn(CommunityView(d.octets))

UsmTaken(view, scoped, p) ==
    IF IsNotification(p) /\ ReportableFits(view, p)
    THEN Taken(view.name, scoped.context, p) ELSE Unwanted

UsmTakenFrom(view, scoped) == UsmTaken(view, scoped, Pdu(scoped.pdu))

UsmNotificationIn(d, view) ==
    IF /\ view # NoView /\ view.name \in listener.names
       /\ LevelFits(view)
       /\ listener.level # "noAuthNoPriv" => Verified(d, view, listener.key)
    THEN UsmTakenFrom(view, ScopedView(IF IsPrivate(view.flags) THEN Decrypted(view)
                                       ELSE view.data))
    ELSE Unwanted

\* decode_v3_notification_message: a trap or inform of the user
UsmNotification(d) == UsmNotificationIn(d, UsmView(d.octets))

\* what the listener takes d for; anything else is passed over
Wanted(d) == IF listener.version = "v2c" THEN CommunityNotification(d) ELSE UsmNotification(d)

\* the RESPONSE to the inform p: its id and varbinds
AckPdu(p) == PduOctets(PduTag.Response, p.id, 0, 0, p.varbinds)

\* _send_inform_ack, encode_inform_response: with the listener's own engine
Ack(n) ==
    IF listener.version = "v2c"
    THEN CommunityMessage(n.name, AckPdu(n.pdu), FALSE)
    ELSE UsmMessage(n.name, listener.key, listener.level, FALSE, engine, n.context,
                    AckPdu(n.pdu), FALSE)

\* the first varbind with this name and type, as _extract_uptime and
\* _extract_notification_oid find it; <<>> for None
FirstValue(varbinds, oid, type) ==
    LET same == {i \in DOMAIN varbinds : varbinds[i].oid = oid /\ varbinds[i].value.type = type}
    IN  IF same = {} THEN <<>> ELSE varbinds[Min(same)].value.v

\* mutant: the uptime and notification varbinds are paired as well
AllVarbinds(varbinds) == varbinds

\* a varbind of the payload is kept, the others are not
Keep(payload, vb) == IF vb.oid \in {SysUptime, TrapOid} THEN payload ELSE Append(payload, vb)

Payload(varbinds) ==
    LET kept[n \in 0 .. Len(varbinds)] ==
            IF n = 0 THEN <<>> ELSE Keep(kept[n - 1], varbinds[n])
    IN  kept[Len(varbinds)]

\* _build_member_bindings: by position, whatever the varbinds' names
Bindings(trap, varbinds) ==
    LET declared == IF trap \in DOMAIN Members THEN Members[trap] ELSE <<>>
        payload  == Payload(varbinds)
    IN  [i \in DOMAIN declared |->
            [member |-> declared[i],
             varbind |-> IF i <= Len(payload) THEN payload[i] ELSE NoVarbind]]

\* _notification_event_from_pdu
Event(n) ==
    LET varbinds == n.pdu.varbinds
        trap     == FirstValue(varbinds, TrapOid, "ObjectIdentifier")
    IN  [tag |-> n.pdu.tag, id |-> n.pdu.id, name |-> n.name,
         trap |-> trap, uptime |-> FirstValue(varbinds, SysUptime, "TimeTicks"),
         varbinds |-> varbinds, bindings |-> Bindings(trap, varbinds)]

\* mutant: informs are acknowledged but not handed on
AckOnly(n) == UNCHANGED events

HandOn(n) == events' = events \union {Event(n)}

Accept(n) ==
    /\ n # Unwanted
    /\ toNotifier' = IF n.pdu.tag = PduTag.Inform THEN toNotifier \union {Ack(n)} ELSE toNotifier
    /\ HandOn(n)

\* an inform is acknowledged before its event is returned; sending does not
\* suspend, so nothing comes between
Deliver(d) ==
    /\ Accept(Wanted(d))
    /\ UNCHANGED <<setup, engine, peer, pending, calls, returned, toListener>>

\* the listener is started again with another local engine
Restart ==
    /\ listener.version = "v3"
    /\ engine' \in Engines \ {engine}
    /\ UNCHANGED <<setup, peer, pending, calls, returned, network, events>>

------------------------------------------------------------------------------
\* every datagram that may arrive: one that was sent, or a part of one
Lengths(d) == {Len(d.octets) - 1} \union {k \in Cuts : k < Len(d.octets)}

Arriving(sent) ==
    sent \union UNION {{[d EXCEPT !.octets = SubSeq(@, 1, k)] : k \in Lengths(d)} : d \in sent}

Next ==
    \/ \E content \in Contents : SendTrap(content) \/ SendInform(content)
    \/ \E d \in Arriving(toNotifier) : Discover(d) \/ Acknowledged(d)
    \/ InformFails
    \/ \E d \in Arriving(toListener) : AnswerProbe(d) \/ Deliver(d)
    \/ Restart

Spec == Init /\ [][Next]_vars

------------------------------------------------------------------------------
\* The values the variables take.
TypeOK ==
    /\ notifier \in Notifiers /\ listener \in Listeners
    /\ engine \in Engines /\ peer \in Engines \union {NoEngine}
    /\ pending.phase \in {"none", "discovering", "waiting"}
    /\ pending.id \in 0 .. Len(calls)
    /\ returned \subseteq 1 .. Len(calls)
    /\ Len(calls) <= MaxCalls

\* send_inform returns a Response only when the listener has handed that very
\* inform to its application: neither a late REPORT, an answer to an earlier
\* inform, a damaged datagram nor a restarted listener can make it return.
AckedWasDelivered ==
    \A i \in returned : \E e \in events : e.tag = PduTag.Inform /\ e.id = i

\* no value is an OID with a negative arc: _encode_oid, which does not look at
\* the sign of the second one, would send another OID (1, -5 goes as 0, 35)
NaturalArcs ==
    \A content \in Contents : \A i \in DOMAIN content.varbinds :
        LET x == content.varbinds[i].value
        IN  x.type = "ObjectIdentifier" => x.v \in Seq(Nat)

\* no declared member of the bundle is the uptime or the notification itself
MembersApart ==
    \A trap \in DOMAIN Members : \A i \in DOMAIN Members[trap] :
        ~IsPrefix(Members[trap][i], SysUptime) /\ ~IsPrefix(Members[trap][i], TrapOid)

\* Every event tells the application what the sender was told to send: the
\* notification and uptime given or, where explicit varbinds of the right
\* type override them, the last of those, and every other varbind in its
\* order with its value unchanged by the encoding.
EventsAsSent ==
    \A e \in events :
        LET content == calls[e.id].content
            all  == content.varbinds
            Overrides(oid, type) == {i \in DOMAIN all : all[i].oid = oid /\ all[i].value.type = type}
            uptimes == Overrides(SysUptime, "TimeTicks")
            traps   == Overrides(TrapOid, "ObjectIdentifier")
            others  == DOMAIN all \ (uptimes \union traps)
        IN  /\ e.id \in DOMAIN calls /\ e.tag = calls[e.id].tag
            /\ e.uptime = IF uptimes = {} THEN <<content.uptime>> ELSE all[Max(uptimes)].value.v
            /\ e.trap = IF traps = {} THEN content.target ELSE all[Max(traps)].value.v
            /\ Len(e.varbinds) = 2 + Cardinality(others)
            /\ \A i \in others :
                all[i] = e.varbinds[2 + Cardinality({j \in others : j <= i})]

\* An instance of a member
IsInstance(varbind, member) == IsPrefix(member, varbind.oid)

\* When the sender gives exactly the members the bundle declares, in order,
\* each is paired with its own varbind.
CompleteBindings ==
    \A e \in events :
        LET given == SubSeq(e.varbinds, 3, Len(e.varbinds)) IN
        /\ Len(given) = Len(e.bindings)
        /\ \A i \in DOMAIN given : IsInstance(given[i], e.bindings[i].member)
        => \A i \in DOMAIN given : e.bindings[i].varbind = given[i]

\* the listener is set up for this notifier
Partners ==
    /\ listener.version = notifier.version /\ notifier.name \in listener.names
    /\ listener.key = notifier.key /\ listener.level = notifier.level

Understood(d, n) ==
    /\ d = Probe \/ n # Unwanted
    /\ /\ pending.phase = "waiting" /\ n.pdu.id = pending.id
       /\ notifier.version = "v3" => peer = engine
       => Answers(Ack(n))

\* Partners understand each other whichever way the notifier writes lengths:
\* the listener takes every datagram of the notifier for what it is, and the
\* notifier, while the listener keeps its engine, takes the acknowledgement
\* of the inform in progress for that.
PartnersUnderstand ==
    Partners => \A d \in toListener : Understood(d, Wanted(d))

\* "Matching decoded VarBind, or None when the notification omitted it"
\* (docs/python-api.md): a member is paired only with an instance of it.
MembersMatch ==
    \A e \in events : \A i \in DOMAIN e.bindings :
        LET b == e.bindings[i]
        IN  b.varbind = NoVarbind \/ IsInstance(b.varbind, b.member)
==============================================================================
