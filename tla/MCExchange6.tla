---------------------------- MODULE MCExchange6 -----------------------------
(***************************************************************************)
(* The plans that TLC checks Exchange6 with: up to two relay agents with   *)
(* and without their options, two attempts whose datagrams mix, leases of  *)
(* several addresses, options of every type, and datagrams of other        *)
(* implementations.                                                        *)
(***************************************************************************)
EXTENDS Exchange6

MCClientHw == <<2, 17, 34, 51, 68, 85>>

Host(n) == [i \in 1..IPv6len |-> IF i = 1 THEN 32 ELSE IF i = IPv6len THEN n ELSE 0]
(* The link-local address of the client's interface, in EUI-64 form.       *)
Eui64 == <<254, 128, 0, 0, 0, 0, 0, 0, 0, 17, 34, 255, 254, 51, 68, 85>>
Private == [Host(9) EXCEPT ![1] = 254, ![2] = 128]

IfAddrs(ip) ==
  <<[kind |-> "v4", ip |-> <<10, 0, 0, 1>>], [kind |-> "global", ip |-> Host(7)],
    [kind |-> "linklocal", ip |-> ip]>>

Address(n) ==
  [addr |-> Host(n), preferred |-> Write(n, 4), valid |-> Write(2 * n, 4), options |-> <<>>]

Agent(n, peer, iid, rid) == [link |-> Host(n), peer |-> peer, iid |-> iid, rid |-> rid]

Plan ==
  [ifaddrs |-> IfAddrs(Eui64), simulate |-> FALSE, retries |-> 0, want |-> <<>>, class |-> <<>>,
   arch |-> 0, relays |-> <<>>, addrs |-> <<Address(1)>>, boot |-> {Type6.Reply},
   extra |-> <<>>, foreign |-> {}]

Chains(ip) ==
  {<<>>, <<Agent(20, ip, <<1, 2>>, <<>>)>>,
   <<Agent(20, ip, <<1>>, <<7>>), Agent(21, Host(20), <<2>>, <<>>)>>,
   <<Agent(20, ip, <<>>, <<7>>), Agent(21, Host(20), <<2>>, <<8>>)>>}

Relayed ==
  UNION {{[Plan EXCEPT !.ifaddrs = IfAddrs(ip), !.relays = c, !.simulate = s] :
            c \in Chains(ip), s \in BOOLEAN} : ip \in {Eui64, Private}}

Retried ==
  {[Plan EXCEPT !.relays = c, !.simulate = s, !.retries = 1] :
     c \in Chains(Eui64), s \in BOOLEAN}

Booting ==
  {[Plan EXCEPT !.want = w, !.class = c, !.arch = a, !.addrs = l, !.boot = b] :
     w \in {<<>>, <<Address(5)>>}, c \in {<<>>, <<69, 70>>, <<85, 69, 70, 73>>},
     a \in {0, 6, 9}, l \in {<<Address(1)>>, <<Address(1), Address(2)>>},
     b \in SUBSET {Type6.Advertise, Type6.Reply}}

O(c, v) == [code |-> c, val |-> v]
Prefix == [preferred |-> Write(1, 4), valid |-> Write(2, 4), length |-> 56, prefix |-> Host(3),
           options |-> <<O(Code6.StatusCode, [ent |-> <<0, 6>>, data |-> <<110>>])>>]
Extras ==
  {<<>>,
   <<O(Code6.IAPD, [iaid |-> Write(1, 4), t1 |-> Write(0, 4), t2 |-> Write(70000, 4),
                    options |-> <<O(Code6.IAPrefix, Prefix), O(Code6.IAPrefix, Prefix)>>])>>,
   <<O(Code6.StatusCode, [ent |-> <<0, 0>>, data |-> <<>>]), O(Code6.NII, <<1, 2, 3>>),
     O(Code6.DomainSearchList, <<1, 97, 0>>), O(999, <<>>), O(999, <<1>>)>>,
   <<O(Code6.VendorClass, [ent |-> Write(9, 4), data |-> <<<<1>>, <<>>>>]),
     O(Code6.VendorOpts, [ent |-> Write(9, 4), options |-> <<O(1, <<3>>), O(59, <<>>)>>])>>}
Carrying ==
  {[Plan EXCEPT !.extra = e, !.relays = c, !.addrs = l] :
     e \in Extras, c \in Chains(Eui64), l \in {<<Address(1)>>, <<[Address(2) EXCEPT !.options =
       <<O(Code6.StatusCode, [ent |-> <<0, 0>>, data |-> <<111, 107>>])>>]>>}}

NoAddress == {[Plan EXCEPT !.ifaddrs = <<>>, !.retries = 2]}

(* Messages that are cut anywhere, odd lengths, unknown types and codes, a *)
(* relay message at the highest hop count and one without its header.      *)
Short == BoundedSeq({0, 1, 6, 12}, 5)
Long ==
  {<<t, h>> \o Host(1) \o Host(2) \o o : t \in RelayTypes, h \in {0, 255},
     o \in {<<>>, <<0, 9, 0, 4, 1, 0, 0, 5>>, <<0, 9, 0, 2, 1, 0>>, <<0, 9, 0, 0>>,
            <<0, 9, 0, 5, 1, 0, 0, 5>>, <<0, 18, 0, 1, 3, 0, 9, 0, 4, 1, 0, 0, 5>>}}
Typed ==
  {<<7, 0, 0, 1>> \o Write(c, 2) \o Write(Len(v), 2) \o v :
     c \in {1, 3, 5, 6, 8, 13, 15, 16, 17, 23, 25, 26, 37, 59, 61, 62, 99},
     v \in {[i \in 1..n |-> b] : n \in {0, 1, 2, 3, 4, 5, 6, 8, 12, 16, 18, 24, 25, 28, 29}, b \in {0, 1}}}
Foreign ==
  {[Plan EXCEPT !.foreign = {b}, !.ifaddrs = <<>>, !.relays = <<Agent(20, Eui64, <<1>>, <<>>)>>] :
     b \in Short \cup Long \cup Typed}

MCPlans == Relayed \cup Retried \cup Booting \cup Carrying \cup NoAddress \cup Foreign
=============================================================================
