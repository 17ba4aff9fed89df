------------------------------ MODULE Options4 ------------------------------
(***************************************************************************)
(* DHCPv4 options (dhcpv4/options.go, dhcpv4/option_*.go and               *)
(* iana/archtype.go): the options of a message are a map from codes to     *)
(* bytes, Marshal and fromBytesCheckEnd convert it to and from the wire,   *)
(* and every option type converts its value to and from the bytes of one   *)
(* option.  A decoder returns Ok(value) or Fail.                           *)
(***************************************************************************)
EXTENDS Lexer

MaxUint8 == 255
IPv4len == 4
optPad == 0
optEnd == 255

-----------------------------------------------------------------------------
(* Options.                                                                *)

(* Get returns nil for a code that is absent, and nothing distinguishes    *)
(* nil from an empty value.                                                *)
Get(o, c) == IF c \in DOMAIN o THEN o[c] ELSE <<>>

Update(o, c, v) == [k \in DOMAIN o \cup {c} |-> IF k = c THEN v ELSE o[k]]

NoOptions == [c \in {} |-> <<>>]

OptionsFromList(list) ==
  FoldLeft(LAMBDA o, opt : Update(o, opt.code, opt.value), NoOptions, list)

sortedKeys(o) == SetToSortSeq(DOMAIN o, <)

(* One option: a value longer than MaxUint8 bytes is listed several times, *)
(* an empty one not at all.                                                *)
Instances(c, data) ==
  Concat([i \in 1..((Len(data) + MaxUint8 - 1) \div MaxUint8) |->
            LET d == Take(Drop(data, (i - 1) * MaxUint8), MaxUint8)
            IN <<c, Len(d)>> \o d])

(* Mutant: the length byte is cut instead of the option being split.       *)
MarshalCut(o) ==
  LET keys == SelectSeq(sortedKeys(o), LAMBDA c : c # optEnd)
  IN Concat([i \in 1..Len(keys) |->
       IF o[keys[i]] = <<>> THEN <<>>
       ELSE <<keys[i], Len(o[keys[i]]) % Base>> \o o[keys[i]]])

Marshal(o) ==
  LET keys == SelectSeq(sortedKeys(o), LAMBDA c : c # optEnd)
  IN Concat([i \in 1..Len(keys) |-> Instances(keys[i], o[keys[i]])])

(* The values of an option that is listed several times are concatenated.  *)
(* A code in the last byte counts as an empty option.                      *)
RECURSIVE ReadOptions(_, _, _)
ReadOptions(o, d, checkEnd) ==
  IF d = <<>> THEN IF checkEnd THEN Fail ELSE Ok(o)
  ELSE LET n == IF Len(d) > 1 THEN d[2] ELSE 0
           rest == Drop(d, 2)
       IN CASE d[1] = optPad -> ReadOptions(o, Tail(d), checkEnd)
            [] d[1] = optEnd ->
                 IF ToSet(Tail(d)) \subseteq {optPad} THEN Ok(o) ELSE Fail
            [] Len(rest) < n /\ d[1] \notin {optPad, optEnd} -> Fail
            [] OTHER -> ReadOptions(Update(o, d[1], Get(o, d[1]) \o Take(rest, n)),
                                    Drop(rest, n), checkEnd)

(* No data at all is accepted, with or without the check for End.          *)
fromBytesCheckEnd(data, checkEnd) ==
  IF data = <<>> THEN Ok(NoOptions) ELSE ReadOptions(NoOptions, data, checkEnd)

-----------------------------------------------------------------------------
(* The types of values.  An address is a record: net.IP has a 4-byte and a *)
(* 16-byte form for the same IPv4 address, and IPv6 addresses have no To4. *)

To4(ip) == IF ip.form \in {"4", "16"} THEN ip.addr ELSE <<>>
V4(addr) == [form |-> "4", addr |-> addr]

(* Length-prefixed strings: uint8(len) before each, none may be empty.     *)
StringsToBytes(ss) == Concat([i \in 1..Len(ss) |-> <<Len(ss[i]) % Base>> \o ss[i]])

RECURSIVE StringsFrom(_, _)
StringsFrom(d, acc) ==
  CASE d = <<>> -> Ok(acc)
    [] d # <<>> /\ (d[1] = 0 \/ Len(d) - 1 < d[1]) -> Fail
    [] OTHER -> StringsFrom(Drop(d, d[1] + 1), Append(acc, SubSeq(d, 2, d[1] + 1)))

(* Vendor classes: a 4-byte enterprise number, a length byte and data.     *)
VIVCToBytes(ids) ==
  Concat([i \in 1..Len(ids) |->
            Write(ids[i].ent, 4) \o <<Len(ids[i].data) % Base>> \o ids[i].data])

RECURSIVE VIVCFrom(_, _)
VIVCFrom(d, acc) ==
  CASE d = <<>> -> Ok(acc)
    [] d # <<>> /\ (Len(d) < 5 \/ Len(d) < 5 + d[5]) -> Fail
    [] OTHER -> VIVCFrom(Drop(d, 5 + d[5]),
                  Append(acc, [ent |-> Read(Take(d, 4)), data |-> SubSeq(d, 6, 5 + d[5])]))

(* The other types.  A lexer that has bytes left, or too few, is an error. *)
Exactly(d, n, v) == IF Len(d) = n THEN Ok(v) ELSE Fail
Listed(d, n, v) == IF d # <<>> /\ Len(d) % n = 0 THEN Ok(v) ELSE Fail

Second == 10   \* time.Second, in the unit of durations here

IPToBytes(ip) == To4(ip)
IPFromBytes(d) == Exactly(d, IPv4len, V4(d))
IPsToBytes(ips) == Concat([i \in 1..Len(ips) |-> To4(ips[i])])
IPsFromBytes(d) ==
  Listed(d, IPv4len, [i \in 1..(Len(d) \div IPv4len) |-> V4(Groups(d, IPv4len)[i])])
IPMaskToBytes(m) == IF Len(m) > IPv4len THEN Take(m, IPv4len) ELSE m
IPMaskFromBytes(d) == Exactly(d, IPv4len, d)
DurationToBytes(t) == Write(t \div Second, 4)
DurationFromBytes(d) == Exactly(d, 4, Read(d) * Second)
Uint16ToBytes(n) == Write(n, 2)
Uint16FromBytes(d) == Exactly(d, 2, Read(d))
ArchsToBytes(as) == Concat([i \in 1..Len(as) |-> Write(as[i], 2)])
ArchsFromBytes(d) == Listed(d, 2, [i \in 1..(Len(d) \div 2) |-> Read(Groups(d, 2)[i])])
MessageTypeToBytes(m) == <<m>>
MessageTypeFromBytes(d) == Exactly(d, 1, d[1])
StringsFromBytes(d) == IF d = <<>> THEN Fail ELSE StringsFrom(d, <<>>)
VIVCFromBytes(d) == VIVCFrom(d, <<>>)
RelayOptionsFromBytes(d) == fromBytesCheckEnd(d, FALSE)
OptionCodeListFromBytes(d) == Ok(d)
StringFromBytes(d) == Ok(d)

ToBytes(type, v) ==
  CASE type = "IP" -> IPToBytes(v)
    [] type = "IPs" -> IPsToBytes(v)
    [] type = "IPMask" -> IPMaskToBytes(v)
    [] type = "Duration" -> DurationToBytes(v)
    [] type = "Uint16" -> Uint16ToBytes(v)
    [] type = "Archs" -> ArchsToBytes(v)
    [] type = "MessageType" -> MessageTypeToBytes(v)
    [] type = "Strings" -> StringsToBytes(v)
    [] type = "VIVC" -> VIVCToBytes(v)
    [] type = "Options" -> Marshal(v)
    [] OTHER -> v   \* String, OptionCodeList, OptionGeneric: bytes already

FromBytes(type, d) ==
  CASE type = "IP" -> IPFromBytes(d)
    [] type = "IPs" -> IPsFromBytes(d)
    [] type = "IPMask" -> IPMaskFromBytes(d)
    [] type = "Duration" -> DurationFromBytes(d)
    [] type = "Uint16" -> Uint16FromBytes(d)
    [] type = "Archs" -> ArchsFromBytes(d)
    [] type = "MessageType" -> MessageTypeFromBytes(d)
    [] type = "Strings" -> StringsFromBytes(d)
    [] type = "VIVC" -> VIVCFromBytes(d)
    [] type = "Options" -> RelayOptionsFromBytes(d)
    [] type = "OptionCodeList" -> OptionCodeListFromBytes(d)
    [] type = "String" -> StringFromBytes(d)
    [] OTHER -> Fail

-----------------------------------------------------------------------------
(* The codes of dhcpv4/types.go that the library gives a type to.          *)
OptionCode ==
  [SubnetMask |-> 1, Router |-> 3, DomainNameServer |-> 6, HostName |-> 12,
   DomainName |-> 15, RootPath |-> 17, BroadcastAddress |-> 28, NTPServers |-> 42,
   VendorSpecificInformation |-> 43, RequestedIPAddress |-> 50, IPAddressLeaseTime |-> 51,
   DHCPMessageType |-> 53, ServerIdentifier |-> 54, ParameterRequestList |-> 55,
   MaximumDHCPMessageSize |-> 57, ClassIdentifier |-> 60, TFTPServerName |-> 66,
   BootfileName |-> 67, UserClassInformation |-> 77, RelayAgentInformation |-> 82,
   ClientSystemArchitectureType |-> 93, VendorIdentifyingVendorClass |-> 124]

(* The options that the Opt functions of each file build, with the type of *)
(* the value they are given.                                               *)
OptIP == {"BroadcastAddress", "RequestedIPAddress", "ServerIdentifier"}
OptIPs == {"Router", "NTPServers", "DomainNameServer"}
OptString ==
  {"DomainName", "HostName", "RootPath", "BootfileName", "TFTPServerName",
   "ClassIdentifier"}
OptOther ==
  [SubnetMask |-> "IPMask", IPAddressLeaseTime |-> "Duration",
   MaximumDHCPMessageSize |-> "Uint16", DHCPMessageType |-> "MessageType",
   ParameterRequestList |-> "OptionCodeList", RelayAgentInformation |-> "Options",
   ClientSystemArchitectureType |-> "Archs", UserClassInformation |-> "Strings",
   VendorIdentifyingVendorClass |-> "VIVC"]

OptType(name) ==
  CASE name \in OptIP -> "IP"
    [] name \in OptIPs -> "IPs"
    [] name \in OptString -> "String"
    [] name \in DOMAIN OptOther -> OptOther[name]

Opt(name, v) == [code |-> OptionCode[name], value |-> ToBytes(OptType(name), v)]

(* The accessors of a message.  They return nil, a default or an error, all *)
(* Fail here, when the option is missing or its bytes do not decode.        *)
GetIPNames == {"BroadcastAddress", "RequestedIPAddress", "ServerIdentifier"}
GetIPsNames == {"Router", "NTPServers", "DomainNameServer"}
GetStringNames ==
  {"DomainName", "HostName", "RootPath", "BootfileName", "TFTPServerName",
   "ClassIdentifier"}

GetIP(o, c) == IF Get(o, c) = <<>> THEN Fail ELSE FromBytes("IP", Get(o, c))
GetIPs(o, c) == IF Get(o, c) = <<>> THEN Fail ELSE FromBytes("IPs", Get(o, c))
GetUint16(o, c) == IF Get(o, c) = <<>> THEN Fail ELSE FromBytes("Uint16", Get(o, c))
GetString(o, c) == IF Get(o, c) = <<>> THEN Fail ELSE FromBytes("String", Get(o, c))

AccessorType ==
  [ClientSystemArchitectureType |-> "Archs", IPAddressLeaseTime |-> "Duration",
   MaximumDHCPMessageSize |-> "Uint16", DHCPMessageType |-> "MessageType",
   ParameterRequestList |-> "OptionCodeList", RelayAgentInformation |-> "Options",
   SubnetMask |-> "IPMask", VendorIdentifyingVendorClass |-> "VIVC"]

Accessor(o, name) ==
  LET c == OptionCode[name]
      v == Get(o, c)
  IN CASE name \in GetIPNames -> GetIP(o, c)
       [] name \in GetIPsNames -> GetIPs(o, c)
       [] name \in GetStringNames -> GetString(o, c)
       [] name = "UserClassInformation" ->
            IF v = <<>> THEN Fail
            ELSE IF StringsFromBytes(v).ok THEN StringsFromBytes(v) ELSE Ok(<<v>>)
       [] OTHER -> IF v = <<>> THEN Fail ELSE FromBytes(AccessorType[name], v)

(* getOption, which decodes an option to print it: ServerIdentifier is a   *)
(* list here, and a user class that is no list of strings is one string.   *)
getOption(name, v) ==
  CASE name \in GetIPsNames \cup {"ServerIdentifier"} -> FromBytes("IPs", v)
    [] name \in {"BroadcastAddress", "RequestedIPAddress"} -> FromBytes("IP", v)
    [] name \in GetStringNames -> FromBytes("String", v)
    [] name = "UserClassInformation" ->
         IF StringsFromBytes(v).ok THEN StringsFromBytes(v) ELSE StringFromBytes(v)
    [] OTHER -> FromBytes(AccessorType[name], v)
=============================================================================
