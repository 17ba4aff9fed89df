------------------------------ MODULE Options6 ------------------------------
(***************************************************************************)
(* DHCPv6 options and the two kinds of DHCPv6 messages on the wire         *)
(* (dhcpv6/options.go, dhcpv6/option_*.go, dhcpv6/duid.go and the codecs   *)
(* of dhcpv6.go, dhcpv6message.go and dhcpv6relay.go).  An option is a     *)
(* record [code, val]; options and messages nest.  A net.IP is a sequence  *)
(* of IPv6len bytes, or empty for nil.                                     *)
(***************************************************************************)
EXTENDS Lexer

IPv6len == 16

Code6 ==
  [ClientID |-> 1, ServerID |-> 2, IANA |-> 3, IAAddr |-> 5, ORO |-> 6,
   ElapsedTime |-> 8, RelayMsg |-> 9, StatusCode |-> 13, UserClass |-> 15,
   VendorClass |-> 16, VendorOpts |-> 17, InterfaceID |-> 18,
   DNSRecursiveNameServer |-> 23, DomainSearchList |-> 24, IAPD |-> 25,
   IAPrefix |-> 26, RemoteID |-> 37, BootfileURL |-> 59, BootfileParam |-> 60,
   ClientArchType |-> 61, NII |-> 62]

RelayForward == 12
RelayReply == 13
RelayTypes == {RelayForward, RelayReply}

-----------------------------------------------------------------------------
(* DUIDs: the type, its header and the rest.                               *)

DUID == [LLT |-> 1, EN |-> 2, LL |-> 3, UUID |-> 4]

(* Bytes of header after the type: hardware type and time, enterprise      *)
(* number, hardware type, none.                                            *)
DuidHeader(type) == IF type = DUID.LLT THEN 6 ELSE IF type = DUID.EN THEN 4
                    ELSE IF type = DUID.LL THEN 2 ELSE 0

DuidToBytes(d) == Write(d.type, 2) \o d.head \o d.rest

DuidFromBytes(b) ==
  LET type == Read(Take(b, 2))
      n == DuidHeader(type)
  IN IF Len(b) < 2 + n \/ (type = DUID.UUID /\ Len(b) # 18) THEN Fail
     ELSE Ok([type |-> type, head |-> SubSeq(b, 3, 2 + n), rest |-> Drop(b, 2 + n)])

LinkLayerTypes == {DUID.LLT, DUID.LL}   \* the types that set LinkLayerAddr

-----------------------------------------------------------------------------
(* Lists of 16-bit numbers, of addresses and of strings with their length. *)

Write16s(ns) == Concat([i \in 1..Len(ns) |-> Write(ns[i], 2)])
Read16s(d) ==
  IF Len(d) % 2 = 0 THEN Ok([i \in 1..(Len(d) \div 2) |-> Read(Groups(d, 2)[i])]) ELSE Fail
ReadIPs(d) == IF Len(d) % IPv6len = 0 THEN Ok(Groups(d, IPv6len)) ELSE Fail
WriteStrings(ss) == Concat([i \in 1..Len(ss) |-> Write(Len(ss[i]), 2) \o ss[i]])

RECURSIVE ReadStrings(_, _)
ReadStrings(d, acc) ==
  CASE d = <<>> -> Ok(acc)
    [] Len(d) = 1 -> Fail
    [] OTHER -> LET n == Read(Take(d, 2))
                IN IF Len(d) < 2 + n THEN Fail
                   ELSE ReadStrings(Drop(d, 2 + n), Append(acc, SubSeq(d, 3, 2 + n)))

-----------------------------------------------------------------------------
(* Encoding.  The length of an option is a uint16; IPs and numbers of the  *)
(* fixed parts are kept as bytes.  A domain search list is the bytes that  *)
(* rfc1035label keeps of what it parsed (see Labels): lists that it        *)
(* refuses are left out.                                                   *)

RECURSIVE OptToBytes(_)
RECURSIVE OptionsToBytes(_)
RECURSIVE MessageToBytes(_)

(* Mutant: the length of an option counts its header.                      *)
OptionsWithHeader(opts) ==
  Concat([i \in 1..Len(opts) |->
            LET v == OptToBytes(opts[i]) IN Write(opts[i].code, 2) \o Write(Len(v) + 4, 2) \o v])

OptionsToBytes(opts) ==
  Concat([i \in 1..Len(opts) |->
            LET v == OptToBytes(opts[i]) IN Write(opts[i].code, 2) \o Write(Len(v), 2) \o v])

OptIAToBytes(ia) == ia.iaid \o ia.t1 \o ia.t2 \o OptionsToBytes(ia.options)

(* Mutant: the two lifetimes are swapped.                                  *)
OptIAAddressSwapped(a) == a.addr \o a.valid \o a.preferred \o OptionsToBytes(a.options)

OptIAAddressToBytes(a) == a.addr \o a.preferred \o a.valid \o OptionsToBytes(a.options)
OptIAPrefixToBytes(p) ==
  p.preferred \o p.valid \o <<p.length>> \o p.prefix \o OptionsToBytes(p.options)
OptVendorClassToBytes(v) == v.ent \o WriteStrings(v.data)

(* The options inside are generic ones, whatever their codes.              *)
OptVendorOptsToBytes(v) ==
  v.ent \o Concat([i \in 1..Len(v.options) |->
                     Write(v.options[i].code, 2) \o Write(Len(v.options[i].val), 2) \o v.options[i].val])
OptEntToBytes(v) == v.ent \o v.data

OptToBytes(o) ==
  CASE o.code \in {Code6.ClientID, Code6.ServerID} -> DuidToBytes(o.val)
    [] o.code \in {Code6.IANA, Code6.IAPD} -> OptIAToBytes(o.val)
    [] o.code = Code6.IAAddr -> OptIAAddressToBytes(o.val)
    [] o.code = Code6.IAPrefix -> OptIAPrefixToBytes(o.val)
    [] o.code \in {Code6.ORO, Code6.ClientArchType} -> Write16s(o.val)
    [] o.code = Code6.ElapsedTime -> Write(o.val, 2)
    [] o.code = Code6.RelayMsg -> MessageToBytes(o.val)
    [] o.code \in {Code6.StatusCode, Code6.RemoteID} -> OptEntToBytes(o.val)
    [] o.code = Code6.UserClass -> WriteStrings(o.val)
    [] o.code = Code6.VendorClass -> OptVendorClassToBytes(o.val)
    [] o.code = Code6.VendorOpts -> OptVendorOptsToBytes(o.val)
    [] o.code = Code6.DNSRecursiveNameServer -> Concat(o.val)
    [] OTHER -> o.val   \* InterfaceID, BootfileURL, DomainSearchList, NII, generic

RelayToBytes(m) == <<m.type, m.hops>> \o m.link \o m.peer \o OptionsToBytes(m.options)

MessageToBytes(m) ==
  IF m.relay THEN RelayToBytes(m) ELSE <<m.type>> \o m.xid \o OptionsToBytes(m.options)

-----------------------------------------------------------------------------
(* Decoding.                                                               *)

RECURSIVE ParseOption(_, _)
RECURSIVE OptionsFromBytes(_)
RECURSIVE MessageFromBytes(_)

(* FromBytesWithParser, one option after the other; parser says whether    *)
(* the options are of the library's types or all generic.                  *)
RECURSIVE WithParser(_, _, _)
WithParser(d, parser, acc) ==
  IF d = <<>> THEN Ok(acc)
  ELSE IF Len(d) < 4 THEN Fail
  ELSE LET code == Read(Take(d, 2))
           n == Read(SubSeq(d, 3, 4))
           data == SubSeq(d, 5, 4 + n)
           opt == IF parser = "vendor" THEN Ok([code |-> code, val |-> data])
                  ELSE ParseOption(code, data)
       IN IF Len(d) < 4 + n THEN Fail
          ELSE IF ~opt.ok THEN Fail
          ELSE WithParser(Drop(d, 4 + n), parser, Append(acc, opt.val))

OptionsFromBytes(d) == WithParser(d, "options", <<>>)

(* The fixed part of an option, and the options inside it.                 *)
ParseIA(d) ==
  LET r == OptionsFromBytes(Drop(d, 12))
  IN IF Len(d) < 12 \/ ~r.ok THEN Fail
     ELSE Ok([iaid |-> Take(d, 4), t1 |-> SubSeq(d, 5, 8), t2 |-> SubSeq(d, 9, 12),
              options |-> r.val])

ParseOptIAAddress(d) ==
  LET r == OptionsFromBytes(Drop(d, 24))
  IN IF Len(d) < 24 \/ ~r.ok THEN Fail
     ELSE Ok([addr |-> Take(d, 16), preferred |-> SubSeq(d, 17, 20), valid |-> SubSeq(d, 21, 24),
              options |-> r.val])

ParseOptIAPrefix(d) ==
  LET r == OptionsFromBytes(Drop(d, 25))
  IN IF Len(d) < 25 \/ ~r.ok THEN Fail
     ELSE Ok([preferred |-> Take(d, 4), valid |-> SubSeq(d, 5, 8), length |-> d[9],
              prefix |-> SubSeq(d, 10, 25), options |-> r.val])

ParseOptVendorClass(d) ==
  LET r == ReadStrings(Drop(d, 4), <<>>)
  IN IF Len(d) < 4 \/ ~r.ok THEN Fail
     ELSE IF r.val = <<>> THEN Fail
     ELSE Ok([ent |-> Take(d, 4), data |-> r.val])

ParseOptVendorOpts(d) ==
  LET r == WithParser(Drop(d, 4), "vendor", <<>>)
  IN IF Len(d) < 4 \/ ~r.ok THEN Fail ELSE Ok([ent |-> Take(d, 4), options |-> r.val])

ParseEnt(d, n) == IF Len(d) < n THEN Fail ELSE Ok([ent |-> Take(d, n), data |-> Drop(d, n)])

ParseOptUserClass(d) == IF d = <<>> THEN Fail ELSE ReadStrings(d, <<>>)

ParseValue(code, d) ==
  CASE code \in {Code6.ClientID, Code6.ServerID} -> DuidFromBytes(d)
    [] code \in {Code6.IANA, Code6.IAPD} -> ParseIA(d)
    [] code = Code6.IAAddr -> ParseOptIAAddress(d)
    [] code = Code6.IAPrefix -> ParseOptIAPrefix(d)
    [] code \in {Code6.ORO, Code6.ClientArchType} -> Read16s(d)
    [] code = Code6.ElapsedTime -> IF Len(d) = 2 THEN Ok(Read(d)) ELSE Fail
    [] code = Code6.RelayMsg -> MessageFromBytes(d)
    [] code = Code6.StatusCode -> ParseEnt(d, 2)
    [] code = Code6.RemoteID -> ParseEnt(d, 4)
    [] code = Code6.UserClass -> ParseOptUserClass(d)
    [] code = Code6.VendorClass -> ParseOptVendorClass(d)
    [] code = Code6.VendorOpts -> ParseOptVendorOpts(d)
    [] code = Code6.DNSRecursiveNameServer -> ReadIPs(d)
    [] code = Code6.NII -> IF Len(d) = 3 THEN Ok(d) ELSE Fail
    [] OTHER -> Ok(d)

ParseOption(code, d) ==
  LET r == ParseValue(code, d) IN IF r.ok THEN Ok([code |-> code, val |-> r.val]) ELSE Fail

(* The reads of the header are not checked: what is missing is zero (the   *)
(* transaction ID, the hop count) or nil (an address), as long as nothing  *)
(* is left over for the options.                                           *)
RelayMessageFromBytes(d) ==
  LET body == Drop(d, 2)
      link == IF Len(body) < IPv6len THEN <<>> ELSE Take(body, IPv6len)
      rest == Drop(body, Len(link))
      peer == IF Len(rest) < IPv6len THEN <<>> ELSE Take(rest, IPv6len)
      r == OptionsFromBytes(Drop(rest, Len(peer)))
  IN IF ~r.ok THEN Fail
     ELSE Ok([relay |-> TRUE, type |-> d[1], hops |-> IF Len(d) > 1 THEN d[2] ELSE 0,
              link |-> link, peer |-> peer, options |-> r.val])

MessageFromBytes(d) ==
  IF d # <<>> /\ Head(d) \in RelayTypes THEN RelayMessageFromBytes(d)
  ELSE LET xid == IF Len(d) < 4 THEN <<0, 0, 0>> ELSE SubSeq(d, 2, 4)
           r == OptionsFromBytes(Drop(d, IF Len(d) < 4 THEN 1 ELSE 4))
       IN IF ~r.ok THEN Fail
          ELSE Ok([relay |-> FALSE, type |-> IF d = <<>> THEN 0 ELSE d[1], xid |-> xid,
                   options |-> r.val])
=============================================================================
