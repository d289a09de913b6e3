---------------------------- MODULE MCNotification ----------------------------
(* Notifiers, listeners and notifications that meet every branch: both       *)
(* versions, right and wrong communities, keys and levels, values at the     *)
(* octet boundaries of the codec, overrides, and varbinds that cannot be     *)
(* encoded.                                                                  *)
EXTENDS Notification, TLC

Notifier(v, n, k, l, x, z) ==
    [version |-> v, name |-> n, key |-> k, level |-> l, local |-> x, long |-> z]
Listener(v, ns, k, l) == [version |-> v, names |-> ns, key |-> k, level |-> l]

Op        == <<111, 112>>
Public    == <<112>>
NotPublic == <<113>>

MCCuts == {0, 1, 3, 20, 60, 100, 120}

MCEngines   == {<<128, 1>>, <<128, 2>>}
MCOwnEngine == <<9>>

MCNotifiers == {
    Notifier("v2c", Public, "", "none", FALSE, TRUE),
    Notifier("v3", Op, "good", "authPriv", TRUE, FALSE),
    Notifier("v3", Op, "good", "authPriv", FALSE, TRUE),
    Notifier("v3", Op, "", "noAuthNoPriv", FALSE, FALSE)}

MCListeners == {
    Listener("v2c", {Public, NotPublic}, "", "none"),     \* communities=None
    Listener("v2c", {NotPublic}, "", "none"),
    Listener("v3", {Op}, "good", "authPriv"),
    Listener("v3", {Op}, "bad", "authPriv"),
    Listener("v3", {Op}, "", "noAuthNoPriv")}

LinkDown == <<1, 3, 7>>
Column(n) == <<1, 3, 9, n>>
MCMembers == (LinkDown :> <<Column(1), Column(2)>>) @@ (<<1, 3, 8>> :> <<>>)

Vb(oid, type, v) == [oid |-> oid, value |-> Val(type, v)]
Content(target, uptime, varbinds) ==
    [target |-> target, uptime |-> uptime, varbinds |-> varbinds]

Complete == Content(LinkDown, 200,
    <<Vb(Column(1) \o <<128>>, "Integer", <<-129>>), Vb(Column(2) \o <<16384>>, "Counter32", <<32768>>)>>)
Overridden == Content(<<2, 175>>, 65535,
    <<Vb(SysUptime, "TimeTicks", <<127>>), Vb(SysUptime, "Integer", <<-32768>>),
      Vb(TrapOid, "ObjectIdentifier", LinkDown), Vb(TrapOid, "Null", <<>>),
      Vb(Column(1), "OctetString", <<0, 255>>), Vb(SysUptime, "TimeTicks", <<128>>)>>)
Unencodable == Content(LinkDown, 1, <<Vb(<<1, 40>>, "Null", <<>>)>>)
Partial == Content(LinkDown, 1, <<Vb(Column(2), "Integer", <<2>>)>>)

MCContents == {Complete, Overridden, Unencodable}
OmitsMember == {Partial}

\* what the theorems of NotificationProofs suppose of these constants
ASSUME MCAssumption == NaturalArcs /\ MembersApart
==============================================================================
