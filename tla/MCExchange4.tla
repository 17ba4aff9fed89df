---------------------------- MODULE MCExchange4 -----------------------------
(***************************************************************************)
(* The plans that TLC checks Exchange4 with: each option type with values  *)
(* it can and cannot carry, addresses in both forms, hardware addresses of *)
(* several lengths, image lists longer than one option, and datagrams of   *)
(* another implementation.                                                 *)
(***************************************************************************)
EXTENDS Exchange4

Bytes(n) == [i \in 1..n |-> 97]
MCRelayIP == <<10, 0, 0, 254>>
MCVendorClassID == <<65, 47>>
MCAppleVendorID == <<65>>

A == V4(<<10, 0, 0, 1>>)
B == V4In16(<<10, 0, 0, 2>>)
C == [form |-> "v6", addr |-> <<32, 1>>]

O(name, values) == {[name |-> name, value |-> v] : v \in values}

Options ==
  UNION {
    O("BroadcastAddress", {A, B, C}),
    O("Router", {<<>>, <<A>>, <<B, A>>, <<A, C>>}),
    O("HostName", {<<>>, Bytes(1), Bytes(255), Bytes(256), Bytes(600)}),
    O("SubnetMask", {<<255, 255, 255, 0>>, <<255, 0>>, <<255, 255, 0, 0, 0>>}),
    O("IPAddressLeaseTime", {0, 36000, 15}),
    O("MaximumDHCPMessageSize", {0, 255, 256, 65535}),
    O("ParameterRequestList", {<<>>, <<3>>, <<3, 0, 255, 3>>}),
    O("RelayAgentInformation",
      {NoOptions, [c \in {1, 2} |-> <<c, 255>>], [c \in {1} |-> Bytes(300)],
       [c \in {0, 1} |-> <<7>>], [c \in {1, 255} |-> <<0>>], [c \in {1} |-> <<>>]}),
    O("ClientSystemArchitectureType", {<<>>, <<7>>, <<256, 9>>}),
    O("UserClassInformation", {<<>>, <<Bytes(1)>>, <<Bytes(2), <<>>>>, <<Bytes(255), <<0>>>>, <<Bytes(256)>>}),
    O("VendorIdentifyingVendorClass",
      {<<>>, <<[ent |-> 9, data |-> <<>>], [ent |-> 70000, data |-> <<0, 255>>]>>,
       <<[ent |-> 9, data |-> Bytes(256)]>>}) }

Lo == [loopback |-> TRUE, ip |-> V4(<<127, 0, 0, 1>>)]
Six == [loopback |-> FALSE, ip |-> C]
Local == [loopback |-> FALSE, ip |-> B]
Iface(hw) == [hw |-> hw, addrs |-> <<Lo, Six, Local>>]
Eth == Iface(<<1, 2, 3, 4, 5, 6>>)

Image(install, type, index, n) ==
  [id |-> [install |-> install, type |-> type, index |-> index], name |-> Bytes(n)]

NoConfig ==
  [serverIP |-> A, serverHostname |-> <<>>, bootFileName |-> <<>>, priority |-> 0,
   images |-> <<>>, defaultImage |-> Fail, selectedImage |-> Fail]

NoOption == [name |-> "HostName", value |-> <<>>]

Plan == [program |-> "dora", relayed |-> FALSE, option |-> NoOption,
         userClass |-> <<>>, rfc |-> FALSE, netboot |-> FALSE, iface |-> Eth,
         yourIP |-> A, serverIP |-> A, withID |-> TRUE, config |-> NoConfig,
         port |-> ClientPort, wire |-> NoWire]

Dora ==
  {[Plan EXCEPT !.option = o, !.relayed = r] : o \in Options, r \in BOOLEAN}
    \cup {[Plan EXCEPT !.yourIP = y, !.serverIP = s, !.withID = w, !.relayed = r, !.iface = Iface(hw)] :
            y \in {A, B}, s \in {A, B}, w \in BOOLEAN, r \in BOOLEAN,
            hw \in {<<>>, <<1, 2, 3, 4, 5, 6>>, Bytes(16), Bytes(20)}}

    \cup {[Plan EXCEPT !.option = o, !.userClass = u, !.rfc = f, !.netboot = n] :
            o \in O("ParameterRequestList", {<<3>>, <<66, 3>>}),
            u \in {<<>>, <<97>>, <<1, 97>>, Bytes(255)}, f \in BOOLEAN, n \in BOOLEAN}

ImageLists ==
  {<<>>, <<Image(TRUE, 1, 300, 0)>>, <<Image(FALSE, 127, 65535, 3), Image(TRUE, 0, 0, 255)>>,
   <<Image(TRUE, 2, 1, 200), Image(FALSE, 3, 2, 200)>>}

BsdpPlans ==
  {[Plan EXCEPT !.program = "bsdp", !.relayed = r, !.serverIP = s, !.port = p,
                !.iface = [@ EXCEPT !.addrs = as],
                !.config = [NoConfig EXCEPT !.serverIP = s, !.images = l,
                              !.serverHostname = Bytes(n), !.bootFileName = Bytes(f),
                              !.defaultImage = d, !.selectedImage = d]] :
     r \in BOOLEAN, s \in {A, B}, p \in {ClientPort, 1000, 1024}, l \in ImageLists,
     as \in {<<Lo>>, <<Lo, Local>>}, n \in {0, SnameLen - 1, SnameLen}, f \in {FileLen - 1},
     d \in {Fail, Ok([install |-> TRUE, type |-> 1, index |-> 300])}}

InformPlans ==
  {[Plan EXCEPT !.program = "inform", !.relayed = r, !.iface = [@ EXCEPT !.addrs = as]] :
     r \in BOOLEAN, as \in {<<Six>>, <<Lo, Six, Local>>}}

(* Datagrams of another implementation: any short options area, any length *)
(* of hardware address and names, reserved flags, any hop count.           *)
ForeignWire ==
  [op |-> OpcodeBootRequest, htype |-> HWTypeEthernet, hlen |-> 6, hops |-> 0, xid |-> Xid,
   secs |-> 1, flags |-> 0, ciaddr |-> <<1, 2, 3, 4>>, yiaddr |-> Zeros(4), siaddr |-> Zeros(4),
   giaddr |-> Zeros(4), chaddr |-> Padded(Bytes(6), 16), sname |-> Zeros(SnameLen),
   file |-> Zeros(FileLen), cookie |-> TRUE, options |-> <<optEnd>>]

ForeignWires ==
  {[ForeignWire EXCEPT !.options = o] : o \in BoundedSeq({0, 1, 2, 53, 255}, 5)}
    \cup {[ForeignWire EXCEPT !.op = op, !.htype = t, !.hlen = h, !.hops = n, !.flags = f,
                              !.chaddr = Bytes(16), !.sname = s, !.file = l, !.cookie = c] :
            op \in {1, 2}, t \in {1, 32}, h \in {0, 6, 16, 17}, n \in {0, 255},
            f \in {0, 1, 32768, 32769}, c \in BOOLEAN,
            s \in {Zeros(SnameLen), Bytes(SnameLen), Padded(<<97, 0, 97>>, SnameLen)},
            l \in {Bytes(FileLen), Padded(Bytes(FileLen - 1), FileLen)}}

MCPlans ==
  Dora \cup BsdpPlans \cup InformPlans
    \cup {[Plan EXCEPT !.program = "foreign", !.relayed = TRUE, !.wire = w] : w \in ForeignWires}
=============================================================================
