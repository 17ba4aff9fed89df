------------------------------ MODULE Message6 ------------------------------
(***************************************************************************)
(* DHCPv6 messages (dhcpv6/dhcpv6.go, dhcpv6message.go, dhcpv6relay.go,    *)
(* modifiers.go, iputils.go): the messages that the library builds from    *)
(* one another, relay encapsulation and the modifiers.                     *)
(***************************************************************************)
EXTENDS Options6

Type6 ==
  [Solicit |-> 1, Advertise |-> 2, Request |-> 3, Confirm |-> 4, Renew |-> 5,
   Rebind |-> 6, Reply |-> 7, Release |-> 8, InformationRequest |-> 11]

(* NewSolicitWithCID's fixed identity association and its timers.          *)
IaId == <<250, 206, 176, 12>>
T1 == Write(3600, 4)
T2 == Write(5400, 4)

EFI == {7, 9}   \* iana.EFI_BC and iana.EFI_X86_64

-----------------------------------------------------------------------------
(* Options of a message.  GetOne returns Fail for nil.                     *)

GetAll(opts, code) == SelectSeq(opts, LAMBDA o : o.code = code)
GetOne(opts, code) ==
  LET all == GetAll(opts, code) IN IF all = <<>> THEN Fail ELSE Ok(all[1])
AddOption(m, o) == [m EXCEPT !.options = Append(@, o)]

UpdateOption(m, o) ==
  LET i == SelectInSeq(m.options, LAMBDA p : p.code = o.code)
  IN IF i = 0 THEN AddOption(m, o) ELSE [m EXCEPT !.options[i] = o]

ClientID(duid) == [code |-> Code6.ClientID, val |-> duid]
ServerID(duid) == [code |-> Code6.ServerID, val |-> duid]
ElapsedTime == [code |-> Code6.ElapsedTime, val |-> 0]
ORO(codes) == [code |-> Code6.ORO, val |-> codes]
IANA(iaid, t1, t2, opts) ==
  [code |-> Code6.IANA, val |-> [iaid |-> iaid, t1 |-> t1, t2 |-> t2, options |-> opts]]

IsOptionRequested(m, code) ==
  \E i \in DOMAIN m.options : m.options[i].code = Code6.ORO /\ Contains(m.options[i].val, code)

IsNetboot(m) ==
  IsOptionRequested(m, Code6.BootfileURL) \/ GetOne(m.options, Code6.BootfileURL).ok

IsUsingUEFI(m) ==
  LET arch == GetOne(m.options, Code6.ClientArchType)
      class == GetOne(m.options, Code6.UserClass)
      Names(uc) == \E i \in 1..(Len(uc) - 2) : SubSeq(uc, i, i + 2) = <<69, 70, 73>>  \* "EFI"
  IN \/ arch.ok /\ ToSet(arch.val.val) \cap EFI # {}
     \/ class.ok /\ \E i \in DOMAIN class.val.val : Names(class.val.val[i])

-----------------------------------------------------------------------------
(* Modifiers.                                                              *)

WithServerID(duid, m) == UpdateOption(m, ServerID(duid))
WithUserClass(uc, m) == AddOption(m, [code |-> Code6.UserClass, val |-> <<uc>>])
WithArchType(at, m) == AddOption(m, [code |-> Code6.ClientArchType, val |-> <<at>>])
WithDNS(ips, m) == UpdateOption(m, [code |-> Code6.DNSRecursiveNameServer, val |-> ips])

(* The codes are appended to the first list, also those it already has.    *)
WithRequestedOptions(codes, m) ==
  LET oro == GetOne(m.options, Code6.ORO)
  IN UpdateOption(m, ORO((IF oro.ok THEN oro.val.val ELSE <<>>) \o codes))

(* Nothing is done to a relay message.                                     *)
WithNetboot(m) ==
  IF m.relay THEN m
  ELSE WithRequestedOptions(<<Code6.BootfileURL, Code6.BootfileParam>>, m)

(* The loop adds the address of its variable: in the end all the options   *)
(* that it added are the last one.                                         *)
WithIANA(addrs, m) ==
  LET ia == GetOne(m.options, Code6.IANA)
      old == IF ia.ok THEN ia.val ELSE IANA(Write(0, 4), Write(0, 4), Write(0, 4), <<>>)
      added == [i \in 1..Len(addrs) |-> [code |-> Code6.IAAddr, val |-> Last(addrs)]]
  IN UpdateOption(m, [old EXCEPT !.val.options = @ \o added])

-----------------------------------------------------------------------------
(* Messages.                                                               *)

NewSolicitWithCID(xid, duid) ==
  [relay |-> FALSE, type |-> Type6.Solicit, xid |-> xid,
   options |-> <<ClientID(duid), ORO(<<Code6.DNSRecursiveNameServer, Code6.DomainSearchList>>),
                 ElapsedTime, IANA(IaId, T1, T2, <<>>)>>]

(* The DUID of NewSolicitForInterface: link-layer address plus time.       *)
DuidForInterface(time, hw) ==
  [type |-> DUID.LLT, head |-> Write(1, 2) \o Write(time, 4), rest |-> hw]

Answer(type, m) ==
  LET cid == GetOne(m.options, Code6.ClientID)
  IN IF ~cid.ok THEN Fail
     ELSE Ok([relay |-> FALSE, type |-> type, xid |-> m.xid, options |-> <<cid.val>>])

NewAdvertiseFromSolicit(sol) ==
  IF sol.type # Type6.Solicit THEN Fail ELSE Answer(Type6.Advertise, sol)

NewReplyFromMessage(m) ==
  IF m.type \notin {Type6.Request, Type6.Confirm, Type6.Renew, Type6.Rebind, Type6.Release,
                    Type6.InformationRequest}
  THEN Fail ELSE Answer(Type6.Reply, m)

NewRequestFromAdvertise(adv) ==
  LET cid == GetOne(adv.options, Code6.ClientID)
      sid == GetOne(adv.options, Code6.ServerID)
      ia == GetOne(adv.options, Code6.IANA)
      class == GetOne(adv.options, Code6.VendorClass)
  IN IF adv.type # Type6.Advertise \/ ~cid.ok \/ ~sid.ok \/ ~ia.ok THEN Fail
     ELSE Ok([relay |-> FALSE, type |-> Type6.Request, xid |-> adv.xid,
              options |-> <<cid.val, sid.val, ElapsedTime, ia.val,
                            ORO(<<Code6.DNSRecursiveNameServer, Code6.DomainSearchList>>)>>
                          \o IF class.ok THEN <<class.val>> ELSE <<>>])

-----------------------------------------------------------------------------
(* Relays.                                                                 *)

(* HopCount is a uint8.                                                    *)
EncapsulateRelay(m, type, link, peer) ==
  IF type \notin RelayTypes THEN Fail
  ELSE Ok([relay |-> TRUE, type |-> type,
           hops |-> IF m.relay THEN (m.hops + 1) % Base ELSE 0,
           link |-> link, peer |-> peer,
           options |-> <<[code |-> Code6.RelayMsg, val |-> m]>>])

DecapsulateRelay(m) ==
  IF ~m.relay THEN Ok(m)
  ELSE LET o == GetOne(m.options, Code6.RelayMsg) IN IF o.ok THEN Ok(o.val.val) ELSE Fail

(* A loop that decapsulates n times.                                       *)
Decapsulated(m, n) ==
  FoldLeft(LAMBDA r, i : IF r.ok THEN DecapsulateRelay(r.val) ELSE Fail, Ok(m), [i \in 1..n |-> i])

(* The levels of a relay message from the outermost in, as far as they go. *)
RECURSIVE Levels(_)
Levels(m) ==
  IF ~m.relay THEN <<>>
  ELSE LET d == DecapsulateRelay(m)
       IN <<m>> \o IF d.ok THEN Levels(d.val) ELSE <<>>

(* -1 is the innermost relay message.                                      *)
DecapsulateRelayIndex(m, index) ==
  CASE ~m.relay -> Ok(m)
    [] m.relay /\ index < -1 -> Fail
    [] m.relay /\ index = -1 ->
         IF DecapsulateRelay(Last(Levels(m))).ok THEN Ok(Last(Levels(m))) ELSE Fail
    [] OTHER -> Decapsulated(m, index + 1)

GetInnerMessage(m) == IF m.relay THEN DecapsulateRelay(Last(Levels(m))) ELSE Ok(m)

GetTransactionID(m) ==
  LET i == GetInnerMessage(m) IN IF i.ok THEN Ok(i.val.xid) ELSE Fail

(* Mutant: the interface ID of the outermost level is used for all.        *)
ReplFirstInterface(relay, msg) ==
  LET levels == Levels(relay)
      iid == GetAll(levels[1].options, Code6.InterfaceID)
      Wrap(m, i) ==
        LET r == EncapsulateRelay(m, RelayReply, levels[i].link, levels[i].peer).val
        IN [r EXCEPT !.options = @ \o iid]
  IN Ok(FoldRight(LAMBDA i, m : Wrap(m, i), [i \in 1..Len(levels) |-> i], msg))

(* The levels of the relay-forward, again around the answer: same          *)
(* addresses, interface ID and remote ID, hop counts from the inside out.  *)
NewRelayReplFromRelayForw(relay, msg) ==
  LET levels == Levels(relay)
      Copied(i, code) ==
        LET o == GetOne(levels[i].options, code) IN IF o.ok THEN <<o.val>> ELSE <<>>
      Wrap(m, i) ==
        LET r == EncapsulateRelay(m, RelayReply, levels[i].link, levels[i].peer).val
        IN [r EXCEPT !.options = @ \o Copied(i, Code6.InterfaceID) \o Copied(i, Code6.RemoteID)]
  IN IF relay.type # RelayForward \/ ~DecapsulateRelay(Last(levels)).ok THEN Fail
     ELSE Ok(FoldRight(LAMBDA i, m : Wrap(m, i), [i \in 1..Len(levels) |-> i], msg))

(* Mutant: the universal bit is kept.                                      *)
MacWithoutFlip(ip) ==
  IF Len(ip) # IPv6len THEN Fail
  ELSE IF ip[12] # 255 \/ ip[13] # 254 THEN Fail
  ELSE Ok(SubSeq(ip, 9, 11) \o SubSeq(ip, 14, 16))

(* The MAC address in an EUI-64 interface identifier, with the universal   *)
(* bit (2) flipped.                                                        *)
GetMacAddressFromEUI64(ip) ==
  IF Len(ip) # IPv6len THEN Fail
  ELSE IF ip[12] # 255 \/ ip[13] # 254 THEN Fail
  ELSE LET b == ip[9]
       IN Ok(<<IF (b \div 2) % 2 = 1 THEN b - 2 ELSE b + 2, ip[10], ip[11], ip[14], ip[15], ip[16]>>)

ExtractMAC(m) ==
  LET relay == DecapsulateRelayIndex(m, -1)
      mac == IF m.relay /\ relay.ok THEN GetMacAddressFromEUI64(relay.val.peer) ELSE Fail
      inner == GetInnerMessage(m)
      cid == IF inner.ok THEN GetOne(inner.val.options, Code6.ClientID) ELSE Fail
  IN IF mac.ok THEN mac
     ELSE IF ~cid.ok THEN Fail
     ELSE IF cid.val.val.type \notin LinkLayerTypes THEN Fail
     ELSE Ok(cid.val.val.rest)
=============================================================================
