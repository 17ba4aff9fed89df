----------------------------- MODULE Exchange4 ------------------------------
(***************************************************************************)
(* A client, an optional relay agent and a server that exchange DHCPv4     *)
(* messages built, encoded and decoded by the library.  Each action is one *)
(* program's turn: it decodes the message that arrived, builds the next    *)
(* one with the library's functions, and encodes it.  The programs are     *)
(*   "dora"     discover, offer, request, ack (client4.Exchange);          *)
(*   "bsdp"     INFORM[LIST], ACK, INFORM[SELECT], ACK (bsdp.Exchange);    *)
(*   "inform"   NewInformForInterface and its ACK;                         *)
(*   "foreign"  a datagram of some other implementation that the relay     *)
(*              decodes, modifies with WithRelay and encodes again.        *)
(***************************************************************************)
EXTENDS Bsdp

CONSTANTS
  Plans,     \* the choices of the programs, see below
  RelayIP,   \* the address of the relay agent
  Xid,       \* the client's transaction ID,
  NewXid     \* and the ones the library draws for messages that replace it

(* A plan has the program; relayed, whether there is a relay agent;        *)
(* option, a typed option [name, value] that the client and the server     *)
(* add, with userClass, rfc and netboot; iface, the client's interface;    *)
(* yourIP, serverIP and withID, the addresses that the server gives and    *)
(* whether it adds a ServerIdentifier; config, the server's                *)
(* bsdp.ReplyConfig; port, the reply port; and wire, the datagram of the   *)
(* foreign program.                                                        *)
VARIABLES
  plan, pc,
  wire,    \* the datagram in flight
  seen,    \* the messages that were decoded, with who decoded them
  asked,   \* the messages the client built
  sent     \* the messages the server built

vars == <<plan, pc, wire, seen, asked, sent>>

NoWire == [op |-> 0]

Init ==
  /\ plan \in Plans
  /\ pc = IF plan.program = "foreign" THEN "relay" ELSE "start"
  /\ wire = IF plan.program = "foreign" THEN plan.wire ELSE NoWire
  /\ seen = <<>>
  /\ asked = <<>>
  /\ sent = <<>>

(* The modifiers that the caller gives: a typed option, a user class in    *)
(* either form, and the options that a network boot asks for.              *)
Modified(d) ==
  LET o == WithOption(plan.option.name, plan.option.value, d)
      u == IF plan.userClass = <<>> THEN o ELSE WithUserClass(plan.userClass, plan.rfc, o)
  IN IF plan.netboot THEN WithNetboot(u) ELSE u

(* Where a datagram goes next: through the relay agent in both directions. *)
Towards(node) == IF plan.relayed THEN "relay" ELSE node

(* A message is encoded and sent, or the encoder panics.                   *)
Emit(d, next) ==
  /\ pc' = IF Panics(d) THEN "panic" ELSE next
  /\ wire' = IF Panics(d) THEN NoWire ELSE ToWire(d)

Stop(reason) == pc' = reason /\ wire' = NoWire

(* The first message of the client.                                        *)
ClientFirst ==
  CASE plan.program = "dora" -> Ok(Modified(NewDiscovery(Xid, plan.iface.hw)))
    [] plan.program = "bsdp" -> NewInformListForInterface(Xid, plan.iface, plan.port)
    [] plan.program = "inform" -> NewInformForInterface(Xid, plan.iface, FALSE)

ClientStart ==
  /\ pc = "start"
  /\ IF ClientFirst.ok
     THEN /\ Emit(ClientFirst.val, Towards("server"))
          /\ asked' = <<ClientFirst.val>>
     ELSE Stop("error") /\ UNCHANGED asked
  /\ UNCHANGED <<plan, seen, sent>>

(* The relay agent: requests get its address, replies are passed on.       *)
RelayForward ==
  /\ pc = "relay"
  /\ LET m == FromWire(wire)
         out == IF m.val.op = OpcodeBootRequest THEN WithRelay(V4(RelayIP), m.val) ELSE m.val
     IN IF m.ok
        THEN /\ seen' = Append(seen, [by |-> "relay", msg |-> m.val])
             /\ Emit(out, IF m.val.op = OpcodeBootRequest THEN "server" ELSE "client")
        ELSE Stop("error") /\ UNCHANGED seen
  /\ UNCHANGED <<plan, asked, sent>>

(* The server's answer.  A BSDP server answers by the message's BSDP type, *)
(* and the selected image is the one the client names.                     *)
Offered(request) ==
  LET m == IF Accessor(request.options, "DHCPMessageType").val = MessageType.Discover
           THEN "Offer" ELSE "Ack"
      d == Modified(WithServerIP(plan.serverIP, WithYourIP(plan.yourIP,
             WithMessageType(m, NewReplyFromRequest(NewXid, request)))))
  IN IF plan.withID THEN WithOption("ServerIdentifier", plan.serverIP, d) ELSE d

ServerAnswer(request) ==
  CASE plan.program # "bsdp" -> Ok(Offered(request))
    [] plan.program = "bsdp" /\ MessageTypeFromPacket(request) = BsdpType.List ->
         NewReplyForInformList(NewXid, request, plan.config)
    [] OTHER ->
         LET vo == GetVendorOptions(request.options).val
         IN NewReplyForInformSelect(NewXid, request,
              [plan.config EXCEPT !.selectedImage =
                 getBootImageID(vo, BsdpCode.SelectedBootImageID)])

ServerReply ==
  /\ pc = "server"
  /\ LET m == FromWire(wire)
         reply == ServerAnswer(m.val)
     IN IF m.ok
        THEN /\ seen' = Append(seen, [by |-> "server", msg |-> m.val])
             /\ IF plan.program # "foreign" /\ reply.ok
                THEN Emit(reply.val, Towards("client")) /\ sent' = Append(sent, reply.val)
                ELSE Stop("done") /\ UNCHANGED sent
        ELSE Stop("error") /\ UNCHANGED <<seen, sent>>
  /\ UNCHANGED <<plan, asked>>

(* The client's second message, if its program has one.                    *)
ClientSecond(ack) ==
  IF plan.program = "dora"
  THEN LET r == NewRequestFromOffer(NewXid, ack)
       IN IF r.ok THEN Ok(Modified(r.val)) ELSE Fail
  ELSE LET images == ParseBootImageListFromAck(ack)
       IN IF ~images.ok \/ images.val = <<>> THEN Fail
          ELSE InformSelectForAck(NewXid, ack, plan.port, images.val[1])

ClientNext ==
  /\ pc = "client"
  /\ LET m == FromWire(wire)
         next == ClientSecond(m.val)
     IN IF m.ok
        THEN /\ seen' = Append(seen, [by |-> "client", msg |-> m.val])
             /\ IF plan.program \in {"inform", "foreign"} \/ Len(asked) = 2
                THEN Stop("done") /\ UNCHANGED asked
                ELSE IF next.ok
                THEN Emit(next.val, Towards("server")) /\ asked' = Append(asked, next.val)
                ELSE Stop("error") /\ UNCHANGED asked
        ELSE Stop("error") /\ UNCHANGED <<seen, asked>>
  /\ UNCHANGED <<plan, sent>>

Next == ClientStart \/ RelayForward \/ ServerReply \/ ClientNext

Spec == Init /\ [][Next]_vars

-----------------------------------------------------------------------------
(* Properties.                                                             *)

SeenBy(node) ==
  LET s == SelectSeq(seen, LAMBDA r : r.by = node) IN [i \in 1..Len(s) |-> s[i].msg]

(* The hardware address as the other end has it: an Ethernet client without *)
(* one is given six zeros, and the field has room for maxHWAddrLen bytes.   *)
HwOnWire(hw) == IF hw = <<>> THEN Zeros(6) ELSE Take(hw, IF Len(hw) > 16 THEN 16 ELSE Len(hw))

(* WithReply through two encodings and a relay: every message the client   *)
(* decodes is a BOOTREPLY with the transaction ID and the hardware address *)
(* of the message it sent, and with the relay's address if it was relayed. *)
ReplyForRequest ==
  plan.program # "foreign" => \A i \in DOMAIN SeenBy("client") :
    LET m == SeenBy("client")[i]
    IN /\ m.op = OpcodeBootReply
       /\ m.xid = Xid
       /\ m.chaddr = HwOnWire(plan.iface.hw)
       /\ m.giaddr = V4(IF plan.relayed THEN RelayIP ELSE Zeros(IPv4len))

(* NewRequestFromOffer: the request that reaches the server asks for the   *)
(* address that server offered and names that server.  A server that sets  *)
(* YourIPAddr to the 16-byte form of an address (net.IPv4, net.ParseIP)    *)
(* offers 0.0.0.0 instead, because writeIP copies the first four bytes,    *)
(* and is asked for that.                                                  *)
OfferedIsRequested ==
  plan.program = "dora" =>
    \A i \in 2..Len(SeenBy("server")) :
      LET m == SeenBy("server")[i]
          offered == IF plan.yourIP.form = "4" THEN plan.yourIP.addr ELSE Zeros(IPv4len)
      IN /\ Accessor(m.options, "RequestedIPAddress") = Ok(V4(offered))
         /\ Accessor(m.options, "ServerIdentifier") = Ok(V4(plan.serverIP.addr))
         /\ Accessor(m.options, "DHCPMessageType") = Ok(MessageType.Request)

(* The values that an option type can carry.                               *)
Lossless(name, v) ==
  LET type == OptType(name)
  IN CASE type = "IP" -> v.form # "v6"
       [] type = "IPs" -> v # <<>> /\ \A i \in DOMAIN v : v[i].form # "v6"
       [] type = "IPMask" -> Len(v) = IPv4len
       [] type = "Duration" -> v % Second = 0
       [] type = "Strings" -> v # <<>> /\ \A i \in DOMAIN v : Len(v[i]) \in 1..MaxUint8
       [] type = "VIVC" -> v # <<>> /\ \A i \in DOMAIN v : Len(v[i].data) <= MaxUint8
       [] type = "Options" ->
            DOMAIN v # {} /\ \A c \in DOMAIN v : c \notin {optPad, optEnd} /\ v[c] # <<>>
       [] type \in {"Archs", "String", "OptionCodeList"} -> v # <<>>
       [] OTHER -> TRUE

(* The same address may come back in its other form.                       *)
Canonical(name, v) ==
  CASE OptType(name) = "IP" -> V4(v.addr)
    [] OptType(name) = "IPs" -> [i \in DOMAIN v |-> V4(v[i].addr)]
    [] OTHER -> v

(* Update, Marshal, fromBytesCheckEnd and the accessors: a typed option    *)
(* that one end sets is what the accessor of the other end returns and     *)
(* what getOption prints, relayed or not and however long it is, for every *)
(* value its type can carry, and no value, long or lossy, makes a message  *)
(* that the other end cannot decode.  The user class comes back as one string in   *)
(* either form, unless a string of the form without lengths reads as a     *)
(* list of strings; and the request list has what the modifiers added.     *)
TypedOption ==
  plan.program = "dora" =>
    /\ plan.withID => pc # "error"
    /\ \A i \in DOMAIN seen :
        LET o == plan.option
            m == seen[i].msg
            raw == Get(m.options, OptionCode[o.name])
        IN /\ (Lossless(o.name, o.value) /\ plan.userClass = <<>> /\ ~plan.netboot) =>
                /\ Accessor(m.options, o.name) = Ok(Canonical(o.name, o.value))
                /\ getOption(o.name, raw) = Accessor(m.options, o.name)
           /\ (plan.userClass # <<>> /\ (plan.rfc \/ ~StringsFromBytes(plan.userClass).ok)) =>
                Accessor(m.options, "UserClassInformation") = Ok(<<plan.userClass>>)
           /\ plan.netboot =>
                /\ IsOptionRequested(m, OptionCode.TFTPServerName)
                /\ IsOptionRequested(m, OptionCode.BootfileName)

(* A relay agent decodes and encodes what it forwards: the next node       *)
(* decodes the same message, except for what WithRelay changes, options    *)
(* without a value, which are dropped, and an Ethernet address of length   *)
(* zero, which becomes six zeros.  The encoder only panics on a name that  *)
(* filled its field, which the decoder accepts.                            *)
NonEmpty(o) == [c \in {k \in DOMAIN o : o[k] # <<>>} |-> o[c]]

Forwarded(m) ==
  LET d == IF m.op # OpcodeBootRequest THEN m
           ELSE [m EXCEPT !.hops = (@ + 1) % 256, !.flags = @ % 32768, !.giaddr = V4(RelayIP)]
  IN [d EXCEPT !.options = NonEmpty(@),
               !.chaddr = IF @ = <<>> /\ d.htype = HWTypeEthernet THEN Zeros(6) ELSE @]

RelayTransparent ==
  /\ \A i \in 1..(Len(seen) - 1) :
       seen[i].by = "relay" => seen[i + 1].msg = Forwarded(seen[i].msg)
  /\ (pc = "panic" /\ seen # <<>> /\ Last(seen).by = "relay") =>
       Len(Last(seen).msg.sname) = SnameLen \/ Len(Last(seen).msg.file) = FileLen

(* InformSelectForAck and the replies of a BSDP server: the second INFORM  *)
(* selects the first image of the list the server sent and names that      *)
(* server, whatever the size of the list; the client ends with the boot    *)
(* file.  The first ACK has the client's address; InformSelectForAck does  *)
(* not set it, so that the second has 0.0.0.0.                             *)
BootSelected ==
  plan.program = "bsdp" =>
    /\ \A i \in 2..Len(SeenBy("server")) :
         LET m == SeenBy("server")[i]
             vo == GetVendorOptions(m.options).val
         IN /\ MessageTypeFromPacket(m) = BsdpType.Select
            /\ getBootImageID(vo, BsdpCode.SelectedBootImageID) = Ok(plan.config.images[1].id)
            /\ GetIP(vo, BsdpCode.ServerIdentifier) = Ok(V4(plan.serverIP.addr))
    /\ \A i \in DOMAIN SeenBy("client") :
         LET m == SeenBy("client")[i]
         IN /\ m.file = IF i = 2 THEN plan.config.bootFileName ELSE <<>>
            /\ m.ciaddr = IF i = 1 THEN GetExternalIPv4Addrs(plan.iface.addrs)[1]
                                   ELSE V4(Zeros(IPv4len))
=============================================================================
