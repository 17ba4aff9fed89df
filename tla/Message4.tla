------------------------------ MODULE Message4 ------------------------------
(***************************************************************************)
(* DHCPv4 messages (dhcpv4/dhcpv4.go, dhcpv4/modifiers.go): the messages   *)
(* that the library builds, the modifiers that change them, and the wire   *)
(* format.  The fixed part of the wire is a record with one field for each *)
(* range of bytes of the header; the options area is a sequence of bytes.  *)
(***************************************************************************)
EXTENDS Options4

CONSTANTS
  SnameLen,  \* bytes of the server host name field (64)
  FileLen    \* bytes of the boot file name field (128)

ASSUME Message4Assumption == SnameLen \in Nat \ {0} /\ FileLen \in Nat \ {0}

OpcodeBootRequest == 1
OpcodeBootReply == 2
HWTypeEthernet == 1
maxHWAddrLen == 16
Broadcast == 32768   \* 0x8000, the only bit of Flags that has a meaning

MessageType ==
  [Discover |-> 1, Offer |-> 2, Request |-> 3, Decline |-> 4, Ack |-> 5,
   Nak |-> 6, Release |-> 7, Inform |-> 8]

(* Addresses: nil, a 4-byte slice, the 16-byte form that net.IPv4 and      *)
(* net.ParseIP return for the same address, and IPv6.                      *)
Zeros(n) == [i \in 1..n |-> 0]
NilIP == [form |-> "nil", addr |-> <<>>]
V4In16(addr) == [form |-> "16", addr |-> addr]
IPv4zero == V4In16(Zeros(IPv4len))
IsUnspecified(ip) == ip.form # "nil" /\ ip.addr = Zeros(IPv4len)

(* net.InterfaceByName and its addresses: loopback and IPv6 are left out.  *)
GetExternalIPv4Addrs(addrs) ==
  LET external == SelectSeq(addrs, LAMBDA a : ~a.loopback /\ a.ip.form \in {"4", "16"})
  IN [i \in 1..Len(external) |-> V4(external[i].ip.addr)]

-----------------------------------------------------------------------------
(* Modifiers.                                                              *)

UpdateOption(d, opt) == [d EXCEPT !.options = Update(@, opt.code, opt.value)]
WithOption(name, v, d) == UpdateOption(d, Opt(name, v))
WithClientIP(ip, d) == [d EXCEPT !.ciaddr = ip]
WithYourIP(ip, d) == [d EXCEPT !.yiaddr = ip]
WithServerIP(ip, d) == [d EXCEPT !.siaddr = ip]
WithHwAddr(hw, d) == [d EXCEPT !.chaddr = hw]
WithMessageType(m, d) == WithOption("DHCPMessageType", MessageType[m], d)

SetBroadcast(d) == [d EXCEPT !.flags = (@ % Broadcast) + Broadcast]
SetUnicast(d) == [d EXCEPT !.flags = @ % Broadcast]
WithBroadcast(b, d) == IF b THEN SetBroadcast(d) ELSE SetUnicast(d)

(* Mutant: the hardware address of the request is not copied.              *)
WithReplyNoHw(r, d) ==
  [d EXCEPT !.op = IF r.op = OpcodeBootRequest THEN OpcodeBootReply ELSE OpcodeBootRequest,
            !.htype = r.htype, !.xid = r.xid, !.flags = r.flags, !.giaddr = r.giaddr]

WithReply(r, d) ==
  [d EXCEPT !.op = IF r.op = OpcodeBootRequest THEN OpcodeBootReply ELSE OpcodeBootRequest,
            !.htype = r.htype, !.xid = r.xid, !.chaddr = r.chaddr,
            !.flags = r.flags, !.giaddr = r.giaddr]

WithUserClass(uc, rfc, d) ==
  IF rfc THEN WithOption("UserClassInformation", <<uc>>, d)
         ELSE UpdateOption(d, [code |-> OptionCode.UserClassInformation, value |-> uc])

(* Codes that the list already has are not added again.                    *)
AddCodes(list, codes) ==
  FoldLeft(LAMBDA l, c : IF Contains(l, c) THEN l ELSE Append(l, c), list, codes)

WithRequestedOptions(codes, d) ==
  LET cl == Accessor(d.options, "ParameterRequestList")
  IN WithOption("ParameterRequestList", AddCodes(cl.val, codes), d)

WithNetboot(d) ==
  WithRequestedOptions(<<OptionCode.TFTPServerName, OptionCode.BootfileName>>, d)

(* Mutant: the hop count is not counted.                                   *)
WithRelayNoHop(ip, d) == [SetUnicast(d) EXCEPT !.giaddr = ip]

(* HopCount is a uint8.                                                    *)
WithRelay(ip, d) ==
  [SetUnicast(d) EXCEPT !.giaddr = ip, !.hops = (@ + 1) % Base]

-----------------------------------------------------------------------------
(* The messages that the library builds.  Modifiers are applied in order,  *)
(* the caller's after those of the function.                               *)

New(xid) ==
  [op |-> OpcodeBootRequest, htype |-> HWTypeEthernet, hops |-> 0, xid |-> xid,
   secs |-> 0, flags |-> 0, ciaddr |-> IPv4zero, yiaddr |-> IPv4zero,
   siaddr |-> IPv4zero, giaddr |-> IPv4zero, chaddr |-> <<>>,
   sname |-> <<>>, file |-> <<>>, options |-> NoOptions]

NewDiscovery(xid, hw) ==
  WithMessageType("Discover",
    WithRequestedOptions(
      <<OptionCode.SubnetMask, OptionCode.Router, OptionCode.DomainName,
        OptionCode.DomainNameServer>>,
      WithHwAddr(hw, WithBroadcast(TRUE, New(xid)))))

NewInform(xid, hw, localIP) ==
  WithClientIP(localIP, WithMessageType("Inform", WithHwAddr(hw, New(xid))))

NewInformForInterface(xid, iface, needsBroadcast) ==
  LET localIPs == GetExternalIPv4Addrs(iface.addrs)
  IN IF localIPs = <<>> THEN Fail
     ELSE Ok(WithBroadcast(needsBroadcast, NewInform(xid, iface.hw, localIPs[1])))

(* Mutant: the requested address is the one the client already has.        *)
NewRequestOfClientIP(xid, offer) ==
  LET id == Accessor(offer.options, "ServerIdentifier")
  IN IF ~id.ok THEN Fail
     ELSE Ok(WithOption("ServerIdentifier", id.val,
               WithOption("RequestedIPAddress", offer.ciaddr,
                 WithMessageType("Request", WithReply(offer, New(xid))))))

NewRequestFromOffer(xid, offer) ==
  LET id == Accessor(offer.options, "ServerIdentifier")
      serverIP == IF id.ok THEN id.val ELSE offer.siaddr
  IN IF ~id.ok /\ (offer.siaddr = NilIP \/ IsUnspecified(offer.siaddr)) THEN Fail
     ELSE Ok(WithOption("ServerIdentifier", serverIP,
               WithOption("RequestedIPAddress", offer.yiaddr,
                 WithClientIP(offer.ciaddr, WithServerIP(serverIP,
                   WithMessageType("Request", WithReply(offer, New(xid))))))))

NewReplyFromRequest(xid, request) == WithReply(request, New(xid))

IsOptionRequested(d, code) ==
  Contains(Accessor(d.options, "ParameterRequestList").val, code)

-----------------------------------------------------------------------------
(* The wire.                                                               *)

(* The first four bytes of the slice, which for the 16-byte form of an     *)
(* IPv4 address are zeros.                                                 *)
writeIP(ip) == IF ip.form = "4" THEN ip.addr ELSE Zeros(IPv4len)

Padded(s, n) == Take(s \o Zeros(n), n)

(* sname[len(name)] = 0 panics for a name that fills its field.            *)
Panics(d) == Len(d.sname) >= SnameLen \/ Len(d.file) >= FileLen

ToWire(d) ==
  [op |-> d.op, htype |-> d.htype,
   hlen |-> IF d.chaddr = <<>> /\ d.htype = HWTypeEthernet THEN 6 ELSE Len(d.chaddr) % Base,
   hops |-> d.hops, xid |-> d.xid, secs |-> d.secs, flags |-> d.flags,
   ciaddr |-> writeIP(d.ciaddr), yiaddr |-> writeIP(d.yiaddr),
   siaddr |-> writeIP(d.siaddr), giaddr |-> writeIP(d.giaddr),
   chaddr |-> Padded(d.chaddr, maxHWAddrLen), sname |-> Padded(d.sname, SnameLen),
   file |-> Padded(d.file, FileLen), cookie |-> TRUE,
   options |-> Marshal(d.options) \o <<optEnd>>]

(* A name ends at its first NUL, or fills its field.                       *)
CString(s) == LET z == SelectInSeq(s, LAMBDA b : b = 0) IN IF z = 0 THEN s ELSE Take(s, z - 1)

(* cookie says whether the header is whole and the four bytes after it are *)
(* the magic cookie.                                                       *)
FromWire(w) ==
  LET o == fromBytesCheckEnd(w.options, TRUE)
  IN IF ~w.cookie \/ ~o.ok THEN Fail
     ELSE Ok([op |-> w.op, htype |-> w.htype, hops |-> w.hops, xid |-> w.xid,
              secs |-> w.secs, flags |-> w.flags,
              ciaddr |-> V4(w.ciaddr), yiaddr |-> V4(w.yiaddr),
              siaddr |-> V4(w.siaddr), giaddr |-> V4(w.giaddr),
              chaddr |-> Take(w.chaddr, IF w.hlen > maxHWAddrLen THEN maxHWAddrLen ELSE w.hlen),
              sname |-> CString(w.sname), file |-> CString(w.file), options |-> o.val])
=============================================================================
