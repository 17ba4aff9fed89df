----------------------------- MODULE Exchange6 ------------------------------
(***************************************************************************)
(* A DHCPv6 network boot (netboot.RequestNetbootv6) over a chain of relay  *)
(* agents: the client is client6.Client.Exchange, with its retries; the    *)
(* relay agents and the server decode each datagram, build the next one    *)
(* with the library's functions and encode it.  Datagrams stay in net once *)
(* sent, so that they may be lost, delayed, reordered and duplicated.      *)
(***************************************************************************)
EXTENDS Message6

CONSTANTS
  Plans,     \* the choices of the programs
  ClientHw   \* the hardware address of the client's interface

(* A plan has ifaddrs, the addresses of the client's interface; simulate   *)
(* (SimulateRelay) and retries; want, class and arch, what the client's    *)
(* modifiers add; relays, the agents from the client to the server, each   *)
(* with its link and peer address, interface ID and remote ID; addrs, the  *)
(* addresses that the server leases, boot, the answers that have the boot  *)
(* file URL, and extra, options of the answers; and foreign, datagrams of  *)
(* other implementations.                                                  *)
VARIABLES
  plan,
  net,       \* the datagrams sent: the node each is for and what that decodes
  pc,        \* "start", "solicit", "request" or "done"
  attempt,   \* i + 1 of RequestNetbootv6
  delay,     \* in seconds
  conv       \* the conversation of this attempt

vars == <<plan, net, pc, attempt, delay, conv>>

(* Nodes: 0 is the client, then the relay agents, then the server.         *)
ServerNode == Len(plan.relays) + 1
Received(to, data) == [to |-> to, msg |-> MessageFromBytes(data)]
Datagram(to, m) == Received(to, MessageToBytes(m))

Init ==
  /\ plan \in Plans
  /\ net = {Received(1, data) : data \in plan.foreign}
  /\ pc = "start"
  /\ attempt = 1
  /\ delay = 2
  /\ conv = <<>>

-----------------------------------------------------------------------------
(* client6.                                                                *)

(* The first link-local IPv6 address of the interface.                     *)
GetLinkLocalAddr ==
  LET i == SelectInSeq(plan.ifaddrs, LAMBDA a : a.kind = "linklocal")
  IN IF i = 0 THEN Fail ELSE Ok(plan.ifaddrs[i].ip)

(* The caller's modifiers, and WithNetboot after them.                     *)
Modified(m) ==
  LET w == IF plan.want = <<>> THEN m ELSE WithIANA(plan.want, m)
      u == IF plan.class = <<>> THEN w ELSE WithUserClass(plan.class, w)
  IN WithNetboot(IF plan.arch = 0 THEN u ELSE WithArchType(plan.arch, u))

(* The transaction IDs and the times of the DUIDs differ between attempts. *)
Xid == <<0, 0, attempt>>
Solicit == Modified(NewSolicitWithCID(Xid, DuidForInterface(attempt, ClientHw)))

(* What sendReceive sends for a packet.                                    *)
Sent(packet) ==
  IF plan.simulate
  THEN EncapsulateRelay(packet, RelayForward, [i \in 1..IPv6len |-> 0], GetLinkLocalAddr.val).val
  ELSE packet

(* An attempt that fails is followed by another one after a delay.         *)
Failed ==
  /\ pc' = IF attempt > plan.retries THEN "done" ELSE "start"
  /\ attempt' = IF attempt > plan.retries THEN attempt ELSE attempt + 1
  /\ delay' = IF attempt > plan.retries THEN delay ELSE delay * 2

(* Solicit: the message is built and sent.  It fails without an interface, *)
(* a link-local address or a socket.                                       *)
SendSolicit ==
  /\ pc = "start"
  /\ \/ /\ GetLinkLocalAddr.ok
        /\ net' = net \cup {Datagram(1, Sent(Solicit))}
        /\ conv' = <<Solicit>>
        /\ pc' = "solicit"
        /\ UNCHANGED <<attempt, delay>>
     \/ conv' = <<>> /\ Failed /\ UNCHANGED net
     \/ conv' = <<Solicit>> /\ Failed /\ UNCHANGED net
  /\ UNCHANGED plan

(* Mutant: the transaction ID is not compared.                             *)
AcceptsAnyXid(packet, m) ==
  m.type = IF plan.simulate THEN RelayReply
           ELSE IF packet.type = Type6.Solicit THEN Type6.Advertise ELSE Type6.Reply

(* The loop of sendReceive skips what does not decode, a message with      *)
(* another transaction ID, and a type other than the one expected.  The    *)
(* transaction ID in a relay message is not looked at.                     *)
Accepts(packet, m) ==
  /\ (~m.relay /\ ~plan.simulate) => m.xid = packet.xid
  /\ m.type = IF plan.simulate THEN RelayReply
              ELSE IF packet.type = Type6.Solicit THEN Type6.Advertise ELSE Type6.Reply

(* The advertise and the request share their IA_NA: WithIANA changes both. *)
RECURSIVE Aliased(_, _)
Aliased(m, ia) ==
  UpdateOption(m, IF m.relay
                  THEN [code |-> Code6.RelayMsg, val |-> Aliased(DecapsulateRelay(m).val, ia)]
                  ELSE ia)

(* The ADVERTISE arrives, and Request sends the next message.              *)
ReceiveAdvertise ==
  /\ pc = "solicit"
  /\ \E d \in {x \in net : x.to = 0} :
       LET m == d.msg
           inner == GetInnerMessage(m.val)
           next == IF inner.ok THEN NewRequestFromAdvertise(inner.val) ELSE Fail
           request == Modified(next.val)
       IN /\ m.ok /\ Accepts(conv[1], m.val)
          /\ \/ /\ next.ok
                /\ conv' = <<conv[1], Aliased(m.val, GetOne(request.options, Code6.IANA).val),
                             request>>
                /\ net' = net \cup {Datagram(1, Sent(request))}
                /\ pc' = "request"
                /\ UNCHANGED <<attempt, delay>>
             \/ /\ ~next.ok
                /\ conv' = Append(conv, m.val)
                /\ Failed
                /\ UNCHANGED net
  /\ UNCHANGED plan

ReceiveReply ==
  /\ pc = "request"
  /\ \E d \in {x \in net : x.to = 0} :
       LET m == d.msg
       IN /\ m.ok /\ Accepts(conv[3], m.val)
          /\ conv' = Append(conv, m.val)
  /\ pc' = "done"
  /\ UNCHANGED <<plan, net, attempt, delay>>

(* The read deadline, or another error of the socket.                      *)
Timeout ==
  /\ pc \in {"solicit", "request"}
  /\ Failed
  /\ UNCHANGED <<plan, net, conv>>

-----------------------------------------------------------------------------
(* Relay agents and server.                                                *)

(* A relay agent wraps what comes from the client's side, with its own     *)
(* options, and unwraps a RELAY-REPL.                                      *)
RelayOptions(r) ==
  (IF r.iid = <<>> THEN <<>> ELSE <<[code |-> Code6.InterfaceID, val |-> r.iid]>>)
  \o IF r.rid = <<>> THEN <<>>
     ELSE <<[code |-> Code6.RemoteID, val |-> [ent |-> Write(9, 4), data |-> r.rid]]>>

Wrapped(m, r) ==
  FoldLeft(AddOption, EncapsulateRelay(m, RelayForward, r.link, r.peer).val, RelayOptions(r))

Relay ==
  /\ \E d \in net :
       /\ d.to \in 1..Len(plan.relays)
       /\ LET m == d.msg
              back == DecapsulateRelay(m.val)
          IN /\ m.ok
             /\ \/ /\ m.val.type # RelayReply
                   /\ net' = net \cup {Datagram(d.to + 1, Wrapped(m.val, plan.relays[d.to]))}
                \/ /\ m.val.type = RelayReply
                   /\ back.ok
                   /\ net' = net \cup {Datagram(d.to - 1, back.val)}
  /\ UNCHANGED <<plan, pc, attempt, delay, conv>>

ServerDuid == [type |-> DUID.UUID, head |-> <<>>, rest |-> [i \in 1..16 |-> i]]
DNS == <<[i \in 1..IPv6len |-> 53]>>

(* A boot server: it leases addresses and gives the boot file for the      *)
(* client's architecture to a client that asks for one.                    *)
BootURL(m) == IF IsUsingUEFI(m) THEN <<101, 102, 105>> ELSE <<112, 120, 101>>
Given(request, answer) ==
  LET leased == WithDNS(DNS, WithIANA(plan.addrs, WithServerID(ServerDuid, answer)))
      extra == FoldLeft(AddOption, leased, plan.extra)
  IN IF IsNetboot(request) /\ answer.type \in plan.boot
     THEN AddOption(extra, [code |-> Code6.BootfileURL, val |-> BootURL(request)]) ELSE extra

ServerAnswer(m) ==
  LET a == IF m.type = Type6.Solicit THEN NewAdvertiseFromSolicit(m) ELSE NewReplyFromMessage(m)
  IN IF a.ok THEN Ok(Given(m, a.val)) ELSE Fail

Server ==
  /\ \E d \in net :
       LET m == d.msg
           inner == GetInnerMessage(m.val)
           a == ServerAnswer(inner.val)
           reply == IF m.val.relay THEN NewRelayReplFromRelayForw(m.val, a.val) ELSE a
       IN /\ d.to = ServerNode
          /\ m.ok
          /\ inner.ok
          /\ a.ok
          /\ reply.ok
          /\ net' = net \cup {Datagram(ServerNode - 1, reply.val)}
  /\ UNCHANGED <<plan, pc, attempt, delay, conv>>

Next == SendSolicit \/ ReceiveAdvertise \/ ReceiveReply \/ Timeout \/ Relay \/ Server

Spec == Init /\ [][Next]_vars

-----------------------------------------------------------------------------
(* netboot: what is made of the conversation.                              *)

GetNetConfFromPacketv6(m) ==
  LET ia == GetOne(m.options, Code6.IANA)
      dns == GetOne(m.options, Code6.DNSRecursiveNameServer)
      search == GetOne(m.options, Code6.DomainSearchList)
      as == GetAll(ia.val.val.options, Code6.IAAddr)
  IN IF ~ia.ok \/ ~dns.ok THEN Fail
     ELSE Ok([addresses |-> [i \in 1..Len(as) |-> as[i].val],
              dns |-> dns.val.val,
              search |-> IF search.ok THEN search.val.val ELSE <<>>])

(* Mutant: the boot file is only looked for in the REPLY.                  *)
NetconfOfReply(conversation) ==
  LET reply == SelectSeq(conversation, LAMBDA m : m.type = Type6.Reply)
      url == GetOne(reply[1].options, Code6.BootfileURL)
      netconf == GetNetConfFromPacketv6(reply[1])
  IN IF reply = <<>> THEN Fail ELSE IF ~netconf.ok \/ ~url.ok THEN Fail
     ELSE Ok([netconf |-> netconf.val, bootfile |-> url.val.val])

ConversationToNetconf(conversation) ==
  LET reply == SelectSeq(conversation, LAMBDA m : m.type = Type6.Reply)
      adv == SelectSeq(conversation, LAMBDA m : m.type = Type6.Advertise)
      netconf == GetNetConfFromPacketv6(reply[1])
      inReply == GetOne(reply[1].options, Code6.BootfileURL)
      url == IF inReply.ok THEN inReply
             ELSE IF adv = <<>> THEN Fail ELSE GetOne(adv[1].options, Code6.BootfileURL)
  IN IF reply = <<>> THEN Fail ELSE IF ~netconf.ok \/ ~url.ok THEN Fail
     ELSE Ok([netconf |-> netconf.val, bootfile |-> url.val.val])

-----------------------------------------------------------------------------
(* Properties.                                                             *)

Decoded(node) ==
  {d.msg : d \in {x \in net : x.to = node /\ x.msg.ok}}
Domestic == plan.foreign = {}
Inner(m) == GetInnerMessage(m).val

(* NewRelayReplFromRelayForw against EncapsulateRelay: a RELAY-REPL that   *)
(* reaches a relay agent is that agent's own level of the RELAY-FORW, with *)
(* the addresses, interface ID and remote ID that it put there and as many *)
(* hops as there are relays below it; and DecapsulateRelayIndex(m, i) of   *)
(* what reached the server is what reached the i-th agent from it.         *)
RelayPath ==
  Domestic =>
    /\ \A i \in 1..Len(plan.relays) : \A r \in Decoded(i) :
         r.val.type = RelayReply =>
           /\ r.val.link = plan.relays[i].link
           /\ r.val.peer = plan.relays[i].peer
           /\ r.val.hops = i - (IF plan.simulate THEN 0 ELSE 1)
           /\ Tail(r.val.options) = RelayOptions(plan.relays[i])
    /\ \A r \in Decoded(ServerNode) : \A i \in 0..(Len(plan.relays) - 1) :
         DecapsulateRelayIndex(r.val, i) \in Decoded(Len(plan.relays) - i)

(* sendReceive against late answers of earlier attempts: the answers in    *)
(* the conversation have the transaction ID of their question, whatever    *)
(* arrives.  With SimulateRelay they need not: any RELAY-REPL is taken,    *)
(* also that of the ADVERTISE again in place of the REPLY.                 *)
AnswerForRequest ==
  ~plan.simulate =>
    \A i \in {2, 4} \cap DOMAIN conv :
      /\ GetTransactionID(conv[i]) = GetTransactionID(conv[i - 1])
      /\ conv[i].type = IF i = 2 THEN Type6.Advertise ELSE Type6.Reply

(* Through the encodings and all the relay agents, the client gets exactly *)
(* the message that the server built for the message it sent.  If WithIANA *)
(* is among the client's modifiers, the ADVERTISE that it keeps has the    *)
(* addresses of the REQUEST instead of the ones that were advertised.      *)
ExactAnswer ==
  Domestic =>
    /\ ~plan.simulate =>
         /\ Len(conv) >= 3 =>
              conv[2] = UpdateOption(ServerAnswer(conv[1]).val, GetOne(conv[3].options, Code6.IANA).val)
         /\ (Len(conv) >= 3 /\ plan.want = <<>>) => conv[2] = ServerAnswer(conv[1]).val
         /\ Len(conv) = 4 => conv[4] = ServerAnswer(conv[3]).val
    /\ Len(conv) = 4 =>
         \E r \in Decoded(ServerNode) : Inner(conv[4]) = ServerAnswer(Inner(r.val)).val

(* FromBytes and ToBytes: a relay agent that decodes and encodes a message *)
(* again does not change it, whoever sent it.                              *)
DecodeStable ==
  \A d \in net : d.msg.ok => MessageFromBytes(MessageToBytes(d.msg.val)) = d.msg

(* ExtractMAC: the server finds the client's hardware address in what it   *)
(* gets, behind any number of relay agents, in the innermost peer address  *)
(* or in the DUID.                                                         *)
ClientMAC ==
  Domestic => \A r \in Decoded(ServerNode) : ExtractMAC(r.val) = Ok(ClientHw)

(* RequestNetbootv6 and ConversationToNetconf: a complete conversation     *)
(* gives the addresses that the server leased, as many as it leased but    *)
(* all of them the last one, which is what WithIANA makes of them, and the *)
(* boot file for the client's architecture, if the ADVERTISE or the REPLY  *)
(* had it.  When all attempts failed, which RequestNetbootv6 does not      *)
(* report, there is no configuration; the last delay is 2^attempt.         *)
BootConfigured ==
  (pc = "done" /\ Domestic /\ ~plan.simulate) =>
    LET n == ConversationToNetconf(conv)
    IN /\ n.ok <=> Len(conv) = 4 /\ plan.boot # {}
       /\ n.ok =>
            /\ n.val.netconf.addresses = [i \in 1..Len(plan.addrs) |-> Last(plan.addrs)]
            /\ n.val.netconf.dns = DNS
            /\ n.val.bootfile = BootURL(Solicit)
       /\ attempt <= plan.retries + 1 /\ delay = 2^attempt
=============================================================================
