-------------------------------- MODULE Framing --------------------------------
(***************************************************************************)
(* Messages around a PDU (wire/message.py, wire/v3message.py) and what     *)
(* security/usm.py does to their octets.  Cryptography is symbolic: the    *)
(* octets of every digest are the same, and what it was computed over and  *)
(* with is kept beside the datagram; the cipher flips a bit of each octet. *)
(* Message ids, sizes, engine boots and times are sent but never looked    *)
(* at, and constant here.                                                  *)
(***************************************************************************)
EXTENDS Wire

\* a datagram: its octets, the key of its digest and the octets signed
Datagram(octets, key, over) == [octets |-> octets, key |-> key, over |-> over]

ReportableFlag == 4
LevelFlags == [noAuthNoPriv |-> 0, authNoPriv |-> 1, authPriv |-> 3]
Flags(level, reportable) == LevelFlags[level] + (IF reportable THEN ReportableFlag ELSE 0)
IsReportable(flags) == (flags \div ReportableFlag) % 2 = 1
IsPrivate(flags)    == (flags \div 2) % 2 = 1

AuthLength == 12
Zeros  == [i \in 1 .. AuthLength |-> 0]
Digest == [i \in 1 .. AuthLength |-> 170]
PrivParams == [i \in 1 .. 8 |-> 85]

Cipher(s) == [i \in DOMAIN s |-> IF s[i] % 2 = 0 THEN s[i] + 1 ELSE s[i] - 1]

\* n octets of b, from offset at (counted from 0), replaced by new
Splice(b, at, new) == SubSeq(b, 1, at) \o new \o SubSeq(b, at + Len(new) + 1, Len(b))

------------------------------------------------------------------------------
(* Encoding.  The encoder here writes lengths in the fewest octets; that of *)
(* a peer may write those of SEQUENCEs in two where one would do.           *)

OctetTlv(s) == EncodeValue(Val("OctetString", s))

LongLength(n) ==
    LET k == IF n < 256 THEN 2 ELSE Width(n, 256)
    IN  <<128 + k>> \o Digits(n, 256, k)

Structure(content, long) ==
    IF long THEN <<SequenceTag>> \o LongLength(Len(content)) \o content
    ELSE Tlv(SequenceTag, content)

\* encode_message
CommunityOctets(community, pdu, long) ==
    Structure(IntegerTlv(1) \o OctetTlv(community) \o pdu, long)

\* encode_scoped_pdu
ScopedPdu(m) == Structure(OctetTlv(m.context) \o OctetTlv(<<>>) \o m.pdu, m.long)

HeaderData(m) ==
    Structure(IntegerTlv(1) \o IntegerTlv(65507) \o OctetTlv(<<Flags(m.level, m.reportable)>>)
              \o IntegerTlv(3), m.long)

UsmParams(m, auth) ==
    Structure(OctetTlv(m.engine) \o IntegerTlv(0) \o IntegerTlv(0) \o OctetTlv(m.name)
              \o OctetTlv(auth)
              \o OctetTlv(IF m.level = "authPriv" THEN PrivParams ELSE <<>>), m.long)

\* encode_v3_message
UsmOctets(m, auth) ==
    Structure(IntegerTlv(3) \o HeaderData(m) \o OctetTlv(UsmParams(m, auth))
              \o (IF m.level = "authPriv" THEN OctetTlv(Cipher(ScopedPdu(m))) ELSE ScopedPdu(m)),
              m.long)

------------------------------------------------------------------------------
(* Decoding.                                                                *)

\* the content of the SEQUENCE that is all of b
Inside(b) == LET t == TlvAt(b, 1) IN
             IF t.tag = SequenceTag /\ t.next = Len(b) + 1 THEN t.content ELSE <<>>

Parts(b) == Tlvs(Inside(b))

\* TLVs with one of these tags each and no INTEGER empty
Are(parts, tags) ==
    /\ Len(parts) = Len(tags)
    /\ \A i \in DOMAIN parts : /\ parts[i].tag \in tags[i]
                               /\ parts[i].tag = Tag.Integer => parts[i].content # <<>>

IntTag == {Tag.Integer}
StrTag == {Tag.OctetString}
SeqTag == {SequenceTag}
AnyPdu == Range(PduTag) \union {ReportTag}

\* mutant: a length is taken to be in the form this encoder writes
CanonicalStart(b, content) == 1 + Len(LengthOctets(Len(content)))

\* where the content of a SEQUENCE that is all of b starts, counted from 0
ContentStart(b, content) == Len(b) - Len(content)

\* where the content of t starts in the octets it was decoded from
StartOf(t) == t.next - 1 - Len(t.content)

NoView == [flags |-> -1]

\* auth_params_offset
AuthOffset(b, parts, params) ==
    ContentStart(b, Inside(b)) + StartOf(parts[3])
    + ContentStart(parts[3].content, Inside(parts[3].content)) + StartOf(params[5])

\* the message b of these parts, its msgGlobalData and msgSecurityParameters
ViewOf(b, parts, header, params) ==
    IF /\ Are(parts, <<IntTag, SeqTag, StrTag, StrTag \union SeqTag>>)
       /\ ValueOf(parts[1]).v = <<3>>
       /\ Are(header, <<IntTag, IntTag, StrTag, IntTag>>)
       /\ Len(header[3].content) = 1 /\ ValueOf(header[4]).v = <<3>>
       /\ Are(params, <<StrTag, IntTag, IntTag, StrTag, StrTag, StrTag>>)
       /\ IsPrivate(header[3].content[1]) <=> parts[4].tag = Tag.OctetString
    THEN [flags |-> header[3].content[1], engine |-> params[1].content,
          name |-> params[4].content, auth |-> params[5].content, priv |-> params[6].content,
          authOffset |-> AuthOffset(b, parts, params),
          data |-> SubSeq(Inside(b), parts[3].next, parts[4].next - 1)]
    ELSE NoView

ViewOfParts(b, parts) ==
    ViewOf(b, parts, Tlvs(parts[2].content), Parts(parts[3].content))

\* decode_v3_message
UsmView(b) == ViewOfParts(b, Parts(b))

NoScoped == [context |-> <<>>, pdu |-> <<>>]

ScopedOf(parts) ==
    IF Are(parts, <<StrTag, StrTag, AnyPdu>>)
    THEN [context |-> parts[1].content, pdu |-> Tlv(parts[3].tag, parts[3].content)]
    ELSE NoScoped

\* decode_scoped_pdu, _decode_scoped_fields, _peek_scoped_pdu; the PDU's length
\* is encoded anew
ScopedView(b) == ScopedOf(Parts(b))

NoCommunityView == [name |-> <<>>, pdu |-> <<>>]

CommunityViewOf(parts) ==
    IF Are(parts, <<IntTag, StrTag, AnyPdu>>) /\ ValueOf(parts[1]).v = <<1>>
    THEN [name |-> parts[2].content, pdu |-> Tlv(parts[3].tag, parts[3].content)]
    ELSE NoCommunityView

\* decode_message
CommunityView(b) == CommunityViewOf(Parts(b))

------------------------------------------------------------------------------
(* Signing and encryption.                                                  *)

\* _stamp_auth: the digest of the message with zeros is put in their place
Stamped(raw, key) == Datagram(Splice(raw, UsmView(raw).authOffset, Digest), key, raw)

\* a message of this library or of a peer that writes long lengths
UsmDatagram(m) ==
    IF m.level = "noAuthNoPriv" THEN Datagram(UsmOctets(m, <<>>), "", <<>>)
    ELSE IF m.long THEN Datagram(UsmOctets(m, Digest), m.key, UsmOctets(m, Zeros))
    ELSE Stamped(UsmOctets(m, Zeros), m.key)

\* _verify_auth: the digest is of the message with zeros in its place
Verified(d, view, key) ==
    /\ view.auth = Digest
    /\ d.key = key /\ d.over = Splice(d.octets, view.authOffset, Zeros)

DecryptedTlv(view, t) ==
    IF t.tag = Tag.OctetString /\ Len(view.priv) = 8 THEN Cipher(t.content) ELSE <<>>

\* _decrypt_scoped_pdu, for a message that has been verified
Decrypted(view) == DecryptedTlv(view, TlvAt(view.data, 1))
==============================================================================
