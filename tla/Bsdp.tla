-------------------------------- MODULE Bsdp --------------------------------
(***************************************************************************)
(* BSDP (dhcpv4/bsdp): Apple's boot server discovery, a pair of            *)
(* INFORM/ACK exchanges whose parameters are options inside the            *)
(* VendorSpecificInformation option of a DHCPv4 message.                   *)
(***************************************************************************)
EXTENDS Message4

CONSTANTS
  AppleVendorID,     \* the class identifier of a server, as bytes
  VendorClassID,     \* and what MakeVendorClassIdentifier returns
  ClientPort         \* dhcpv4.ClientPort (68)

ASSUME BsdpAssumption == ClientPort \in 1..1023

MaxDHCPMessageSize == 1500
Version1_1 == <<1, 1>>

BsdpType == [None |-> 0, List |-> 1, Select |-> 2, Failed |-> 3]

BsdpCode ==
  [MessageType |-> 1, Version |-> 2, ServerIdentifier |-> 3, ServerPriority |-> 4,
   ReplyPort |-> 5, DefaultBootImageID |-> 7, SelectedBootImageID |-> 8,
   BootImageList |-> 9, MachineName |-> 130]

-----------------------------------------------------------------------------
(* Boot images: the install bit, a type of seven bits, an index of 16.     *)

(* Mutant: the install bit is lost.                                        *)
BootImageIDNoInstall(id) == <<id.type, 0>> \o Write(id.index, 2)

BootImageIDToBytes(id) ==
  <<IF id.install THEN 128 + (id.type % 128) ELSE id.type, 0>> \o Write(id.index, 2)

BootImageIDFromBytes(d) ==
  IF Len(d) < 4 THEN Fail
  ELSE Ok([install |-> d[1] >= 128, type |-> d[1] % 128, index |-> Read(SubSeq(d, 3, 4))])

getBootImageID(o, c) ==
  IF Get(o, c) = <<>> THEN Fail ELSE BootImageIDFromBytes(Get(o, c))

BootImageMarshal(img) ==
  BootImageIDToBytes(img.id) \o <<Len(img.name) % Base>> \o img.name

BootImageListToBytes(bil) == Concat([i \in 1..Len(bil) |-> BootImageMarshal(bil[i])])

(* Fewer than five bytes at the end are ignored.                           *)
RECURSIVE BootImages(_, _)
BootImages(d, acc) ==
  IF Len(d) < 5 THEN Ok(acc)
  ELSE IF Len(d) < 5 + d[5] THEN Fail
  ELSE BootImages(Drop(d, 5 + d[5]),
         Append(acc, [id |-> BootImageIDFromBytes(Take(d, 4)).val, name |-> SubSeq(d, 6, 5 + d[5])]))

-----------------------------------------------------------------------------
(* Vendor options.                                                         *)

BsdpOpt(name, value) == [code |-> BsdpCode[name], value |-> value]

WithVendorOptions(list, d) ==
  UpdateOption(d, [code |-> OptionCode.VendorSpecificInformation,
                   value |-> Marshal(OptionsFromList(list))])

GetVendorOptions(o) ==
  LET v == Get(o, OptionCode.VendorSpecificInformation)
  IN IF v = <<>> THEN Fail ELSE fromBytesCheckEnd(v, FALSE)

BootImageList(vo) ==
  LET r == BootImages(Get(vo, BsdpCode.BootImageList), <<>>) IN IF r.ok THEN r.val ELSE <<>>

MessageTypeFromPacket(d) ==
  LET vo == GetVendorOptions(d.options)
      v == IF vo.ok THEN Get(vo.val, BsdpCode.MessageType) ELSE <<>>
  IN IF Len(v) = 1 THEN v[1] ELSE BsdpType.None

ParseBootImageListFromAck(ack) ==
  LET vo == GetVendorOptions(ack.options)
  IN IF vo.ok THEN Ok(BootImageList(vo.val)) ELSE Fail

-----------------------------------------------------------------------------
(* Packets.                                                                *)

needsReplyPort(port) == port # 0 /\ port # ClientPort

ReplyPort(port) ==
  IF needsReplyPort(port) THEN <<BsdpOpt("ReplyPort", Uint16ToBytes(port))>> ELSE <<>>

NewInformList(xid, hw, localIP, port) ==
  IF needsReplyPort(port) /\ port >= 1024 THEN Fail
  ELSE Ok(WithVendorOptions(
            <<BsdpOpt("MessageType", <<BsdpType.List>>), BsdpOpt("Version", Version1_1)>>
              \o ReplyPort(port),
            WithOption("ClassIdentifier", VendorClassID,
              WithOption("MaximumDHCPMessageSize", MaxDHCPMessageSize,
                WithRequestedOptions(
                  <<OptionCode.VendorSpecificInformation, OptionCode.ClassIdentifier>>,
                  NewInform(xid, hw, localIP))))))

NewInformListForInterface(xid, iface, port) ==
  LET localIPs == GetExternalIPv4Addrs(iface.addrs)
  IN IF localIPs = <<>> THEN Fail ELSE NewInformList(xid, iface.hw, localIPs[1], port)

InformSelectForAck(xid, ack, port, image) ==
  LET id == Accessor(ack.options, "ServerIdentifier")
  IN IF (needsReplyPort(port) /\ port >= 1024) \/ ~id.ok THEN Fail
     ELSE Ok(WithVendorOptions(
               <<BsdpOpt("MessageType", <<BsdpType.Select>>), BsdpOpt("Version", Version1_1),
                 BsdpOpt("SelectedBootImageID", BootImageIDToBytes(image.id))>>
                 \o ReplyPort(port) \o <<BsdpOpt("ServerIdentifier", IPToBytes(id.val))>>,
               WithMessageType("Inform",
                 WithRequestedOptions(
                   <<OptionCode.SubnetMask, OptionCode.Router, OptionCode.BootfileName,
                     OptionCode.VendorSpecificInformation, OptionCode.ClassIdentifier>>,
                   WithOption("ClassIdentifier", VendorClassID,
                     WithReply(ack, New(xid)))))))

(* What both replies of a server have in common.                           *)
BsdpReply(xid, inform, config, list) ==
  WithVendorOptions(list,
    WithOption("ClassIdentifier", AppleVendorID,
      WithOption("ServerIdentifier", config.serverIP,
        WithMessageType("Ack",
          [NewReplyFromRequest(xid, inform) EXCEPT
             !.ciaddr = inform.ciaddr, !.giaddr = inform.giaddr,
             !.siaddr = config.serverIP, !.sname = config.serverHostname]))))

(* An image list of nil is an empty one; a missing image ID is Fail.       *)
NewReplyForInformList(xid, inform, config) ==
  IF ~config.defaultImage.ok \/ config.images = <<>> THEN Fail
  ELSE Ok(BsdpReply(xid, inform, config,
            <<BsdpOpt("MessageType", <<BsdpType.List>>),
              BsdpOpt("ServerPriority", Uint16ToBytes(config.priority)),
              BsdpOpt("DefaultBootImageID", BootImageIDToBytes(config.defaultImage.val)),
              BsdpOpt("BootImageList", BootImageListToBytes(config.images))>>
            \o IF config.selectedImage.ok
               THEN <<BsdpOpt("SelectedBootImageID",
                              BootImageIDToBytes(config.selectedImage.val))>>
               ELSE <<>>))

NewReplyForInformSelect(xid, inform, config) ==
  IF ~config.selectedImage.ok \/ config.images = <<>> THEN Fail
  ELSE Ok([BsdpReply(xid, inform, config,
             <<BsdpOpt("MessageType", <<BsdpType.Select>>),
               BsdpOpt("SelectedBootImageID", BootImageIDToBytes(config.selectedImage.val))>>)
           EXCEPT !.file = config.bootFileName])
=============================================================================
