--------------------------------- MODULE Wire ---------------------------------
(***************************************************************************)
(* The BER codec of wire/ (ber.py, asn1.py, pdu.py): SNMP values, varbinds *)
(* and PDUs to octets and back.  Octets are numbers below 256; a position  *)
(* in them counts from 1, and a decoder returns the position after what it *)
(* has read, or 0 where the code raises ProtocolError.                     *)
(***************************************************************************)
EXTENDS Integers, Sequences, SequencesExt

\* an SNMP value: its type and what it holds, as a sequence of numbers
Val(type, v) == [type |-> type, v |-> v]

Unsigned == {"Counter32", "Gauge32", "TimeTicks", "Counter64"}
Octets   == {"OctetString", "IpAddress", "Opaque"}
Empty    == {"Null", "NoSuchObject", "NoSuchInstance", "EndOfMibView"}

Tag == [Integer |-> 2, OctetString |-> 4, Null |-> 5, ObjectIdentifier |-> 6,
        IpAddress |-> 64, Counter32 |-> 65, Gauge32 |-> 66, TimeTicks |-> 67,
        Opaque |-> 68, Counter64 |-> 70, NoSuchObject |-> 128,
        NoSuchInstance |-> 129, EndOfMibView |-> 130]

PduTag == [Get |-> 160, GetNext |-> 161, Response |-> 162, Set |-> 163,
           GetBulk |-> 165, Inform |-> 166, Trap |-> 167]

SequenceTag == 48
ReportTag   == 168      \* not a PduType

------------------------------------------------------------------------------
(* Numbers.                                                                 *)

\* n without its last k digits
Quotient(n, base, k) ==
    LET rest[j \in 0 .. k] == IF j = 0 THEN n ELSE rest[j - 1] \div base
    IN  rest[k]

\* the last k digits of n, the most significant first
Digits(n, base, k) == [i \in 1 .. k |-> Quotient(n, base, k - i) % base]

\* the fewest digits n has, at least one
Width(n, base) ==
    CHOOSE k \in 1 .. n + 1 : /\ Quotient(n, base, k) = 0
                              /\ k > 1 => Quotient(n, base, k - 1) # 0

Number(digits, base) ==
    LET value[i \in 0 .. Len(digits)] ==
            IF i = 0 THEN 0 ELSE base * value[i - 1] + digits[i]
    IN  value[Len(digits)]

\* a leading octet that only repeats the sign of the rest
Redundant(s, i) == (s[i] = 0 /\ s[i + 1] < 128) \/ (s[i] = 255 /\ s[i + 1] >= 128)

\* s without the leading octets that only repeat the sign
Shortest(s) ==
    SubSeq(s, 1 + Max({j \in 0 .. Len(s) - 1 : \A i \in 1 .. j : Redundant(s, i)}), Len(s))

\* in two's complement, one octet more than the magnitude needs, then shortened
SignedContent(n) == Shortest(Digits(n, 256, 1 + Width(IF n < 0 THEN -n ELSE n, 256)))

Signed(octet) == IF octet >= 128 THEN octet - 256 ELSE octet

SignedNumber(s) == Number([s EXCEPT ![1] = Signed(@)], 256)

Positive(s) == IF s[1] >= 128 THEN <<0>> \o s ELSE s

UnsignedContent(n) == Positive(Digits(n, 256, Width(n, 256)))

\* seven bits an octet, the last one without the high bit
SevenBits(n, k) ==
    [i \in 1 .. k |-> Digits(n, 128, k)[i] + (IF i < k THEN 128 ELSE 0)]

Base128(n) == SevenBits(n, Width(n, 128))

\* what _encode_oid accepts; beyond 255 bytearray() raises ValueError
EncodableOid(o) ==
    /\ Len(o) >= 2 /\ o[1] <= 2
    /\ o[1] < 2 => o[2] < 40
    /\ 40 * o[1] + o[2] \in 0 .. 255
    /\ \A i \in 3 .. Len(o) : o[i] >= 0

OidContent(o) ==
    <<40 * o[1] + o[2]>> \o FlattenSeq([i \in 1 .. Len(o) - 2 |-> Base128(o[i + 2])])

DecodableOid(s) == s # <<>> /\ (Len(s) > 1 => Last(s) < 128)

\* the two numbers the first octet holds
FirstArcs(octet) ==
    IF octet < 40 THEN <<0, octet>> ELSE IF octet < 80 THEN <<1, octet - 40>>
    ELSE <<2, octet - 80>>

\* an octet of an arc: the last of it has no high bit
ReadArc(read, octet) ==
    IF octet < 128
    THEN [arcs |-> Append(read.arcs, 128 * read.value + octet), value |-> 0]
    ELSE [arcs |-> read.arcs, value |-> 128 * read.value + octet - 128]

OidNumbers(s) ==
    LET read[n \in 0 .. Len(s) - 1] ==
            IF n = 0 THEN [arcs |-> FirstArcs(s[1]), value |-> 0]
            ELSE ReadArc(read[n - 1], s[n + 1])
    IN  read[Len(s) - 1].arcs

------------------------------------------------------------------------------
(* Tag, length, content.                                                    *)

LengthOctets(n) ==
    IF n < 128 THEN <<n>>
    ELSE <<128 + Width(n, 256)>> \o Digits(n, 256, Width(n, 256))

Tlv(tag, content) == <<tag>> \o LengthOctets(Len(content)) \o content

NoTlv == [tag |-> 0, content |-> <<>>, next |-> 0]

\* the content of n octets that starts at position i
ContentAt(b, tag, i, n) ==
    IF i + n - 1 > Len(b) THEN NoTlv
    ELSE [tag |-> tag, content |-> SubSeq(b, i, i + n - 1), next |-> i + n]

\* decode_tlv with decode_length: short or long form, never the indefinite one
TlvAt(b, i) ==
    IF i + 1 > Len(b) THEN NoTlv
    ELSE IF b[i + 1] < 128 THEN ContentAt(b, b[i], i + 2, b[i + 1])
    ELSE LET count == b[i + 1] - 128 IN
         IF count = 0 \/ i + 1 + count > Len(b) THEN NoTlv
         ELSE ContentAt(b, b[i], i + 2 + count,
                        Number(SubSeq(b, i + 2, i + 1 + count), 256))

\* the TLVs that follow one another in b; the last is NoTlv if b is damaged
Tlvs(b) ==
    LET Then(t, from) == <<t>> \o (IF t = NoTlv THEN <<>> ELSE from[t.next])
        from[i \in 1 .. Len(b) + 1] ==
            IF i > Len(b) THEN <<>> ELSE Then(TlvAt(b, i), from)
    IN  from[1]

------------------------------------------------------------------------------
(* Values.                                                                  *)

Encodable(x) ==
    CASE x.type = "ObjectIdentifier" -> EncodableOid(x.v)
      [] x.type \in Unsigned -> x.v[1] >= 0
      [] x.type = "IpAddress" -> Len(x.v) = 4
      [] OTHER -> TRUE

EncodeValue(x) ==
    Tlv(Tag[x.type],
        CASE x.type = "Integer" -> SignedContent(x.v[1])
          [] x.type \in Unsigned -> UnsignedContent(x.v[1])
          [] x.type = "ObjectIdentifier" -> OidContent(x.v)
          [] OTHER -> x.v)

Malformed == Val("malformed", <<>>)

Decoded(type, s) ==
    CASE type = "Integer" /\ s # <<>> -> Val(type, <<SignedNumber(s)>>)
      [] type \in Unsigned /\ s # <<>> -> Val(type, <<Number(s, 256)>>)
      [] type = "ObjectIdentifier" /\ DecodableOid(s) -> Val(type, OidNumbers(s))
      [] type = "IpAddress" /\ Len(s) = 4 -> Val(type, s)
      [] type \in {"OctetString", "Opaque"} -> Val(type, s)
      [] type \in Empty /\ s = <<>> -> Val(type, s)
      [] OTHER -> Malformed

\* a value from the tag and content of its TLV
ValueOf(t) ==
    IF \E type \in DOMAIN Tag : Tag[type] = t.tag
    THEN Decoded(CHOOSE type \in DOMAIN Tag : Tag[type] = t.tag, t.content)
    ELSE Malformed

------------------------------------------------------------------------------
(* Varbinds and PDUs.                                                       *)

VarbindOctets(vb) ==
    Tlv(SequenceTag, EncodeValue(Val("ObjectIdentifier", vb.oid)) \o EncodeValue(vb.value))

NoVarbind == [oid |-> <<>>, value |-> Malformed]

\* _decode_varbind: a name and a value and nothing more
VarbindFrom(values) ==
    IF /\ Len(values) = 2
       /\ values[1].type = "ObjectIdentifier" /\ values[2] # Malformed
    THEN [oid |-> values[1].v, value |-> values[2]]
    ELSE NoVarbind

\* the values of consecutive TLVs
Values(tlvs) == [i \in DOMAIN tlvs |-> ValueOf(tlvs[i])]

\* the varbinds of a VarBindList, with NoVarbind where one is damaged
Varbinds(tlvs) ==
    [i \in DOMAIN tlvs |-> IF tlvs[i].tag = SequenceTag
                           THEN VarbindFrom(Values(Tlvs(tlvs[i].content)))
                           ELSE NoVarbind]

IntegerTlv(n) == EncodeValue(Val("Integer", <<n>>))

PduOctets(tag, id, status, index, varbinds) ==
    Tlv(tag, IntegerTlv(id) \o IntegerTlv(status) \o IntegerTlv(index)
             \o Tlv(SequenceTag, FlattenSeq([i \in DOMAIN varbinds |->
                                                VarbindOctets(varbinds[i])])))

NoPdu == [tag |-> 0, id |-> 0, status |-> 0, index |-> 0, varbinds |-> <<>>]

PduWith(tag, numbers, varbinds) ==
    IF /\ \A i \in DOMAIN numbers : numbers[i].type = "Integer"
       /\ \A i \in DOMAIN varbinds : varbinds[i] # NoVarbind
    THEN [tag |-> tag, id |-> numbers[1].v[1], status |-> numbers[2].v[1],
          index |-> numbers[3].v[1], varbinds |-> varbinds]
    ELSE NoPdu

\* three INTEGERs and a VarBindList that together are the whole content
PduBody(tag, parts) ==
    IF Len(parts) = 4 /\ parts[4].tag = SequenceTag
    THEN PduWith(tag, Values(Front(parts)), Varbinds(Tlvs(parts[4].content)))
    ELSE NoPdu

\* one TLV that is all of the octets, as expect_end requires
OnlyPdu(tlvs, tags) ==
    IF Len(tlvs) = 1 /\ tlvs[1].tag \in tags
    THEN PduBody(tlvs[1].tag, Tlvs(tlvs[1].content))
    ELSE NoPdu

\* decode_pdu
Pdu(b) == OnlyPdu(Tlvs(b), Range(PduTag))

\* the REPORT of a discovery, which decode_pdu does not know
Report(b) == OnlyPdu(Tlvs(b), {ReportTag})
==============================================================================
