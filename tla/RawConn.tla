------------------------------ MODULE RawConn -------------------------------
(***************************************************************************)
(* UDP over raw sockets: the frames that nclient4 (ipv4.go, conn_linux.go) *)
(* and client4 (MakeRawUDPPacket, the receiver of SendReceive) write and   *)
(* read.  A connection has the frames that the kernel has queued for its   *)
(* socket; other hosts send frames too, with IP options, of other          *)
(* protocols, and with the padding that Ethernet adds.                     *)
(***************************************************************************)
EXTENDS Bytes

CONSTANTS
  Conns,       \* nclient4's connections
  bound,       \* boundAddr of each: ip (<<>> for nil) and port
  Client4,     \* client4's socket
  Configs,     \* its Client: local and remote UDP address, and fields set
  ServerPort, ClientPort,
  BufSize,     \* MaxUDPReceivedPacketSize
  Data,        \* the payloads
  Addrs,       \* the destinations of the datagrams
  Foreign,     \* the frames of other hosts
  Buffers,     \* the lengths of the buffers given to ReadFrom
  MaxFrames    \* bound on the number of frames

Word == Base * Base
Uint16 == 0..Word-1

(* binary.BigEndian: PutUint16 cuts to 16 bits, and GetUint16 reads the    *)
(* two bytes after the first n.                                            *)
PutUint16(v) == <<(v \div Base) % Base, v % Base>>
GetUint16(s, n) == s[n + 1] * Base + s[n + 2]

IPv4MinimumSize == 20
IPv4MaximumHeaderSize == 60
UDPMinimumSize == 8
UDPProtocolNumber == 17

IP4(ip) == IF ip = <<>> THEN <<0, 0, 0, 0>> ELSE ip   \* nil is copied as zeros

-----------------------------------------------------------------------------
(* Checksums (RFC 1071).                                                   *)

(* Mutant: the carry is dropped.                                           *)
CombineWithoutCarry(a, b) == (a + b) % Word

ChecksumCombine(a, b) == LET v == a + b IN (v + v \div Word) % Word

(* Bytes are added in pairs, an odd last one as a high byte.               *)
Checksum(buf, initial) ==
  LET v[i \in 0..Len(buf)] ==
        IF i = 0 THEN initial ELSE v[i - 1] + buf[i] * (IF i % 2 = 1 THEN Base ELSE 1)
  IN ChecksumCombine(v[Len(buf)] % Word, v[Len(buf)] \div Word)

Not(x) == Word - 1 - x

PseudoHeaderChecksum(protocol, src, dst) ==
  Checksum(<<0, protocol>>, Checksum(dst, Checksum(src, 0)))

CalculateChecksum(udp, partial, totalLen) == Checksum(udp, Checksum(PutUint16(totalLen), partial))

-----------------------------------------------------------------------------
(* Frames.                                                                 *)

(* The header, with len bytes of options after it.                         *)
Encode(totalLen, ihl, ttl, protocol, checksum, src, dst) ==
  <<64 + ((ihl \div 4) % 16), 0>> \o PutUint16(totalLen) \o <<0, 0, 0, 0, ttl, protocol>>
  \o PutUint16(checksum) \o IP4(src) \o IP4(dst)

EncodeUDP(src, dst, length, checksum) ==
  PutUint16(src) \o PutUint16(dst) \o PutUint16(length) \o PutUint16(checksum)

udp4pkt(packet, dest, src) ==
  LET Header(sum) ==
        Encode(IPv4MinimumSize + UDPMinimumSize + Len(packet), IPv4MinimumSize, 30,
               UDPProtocolNumber, sum, src.ip, dest.ip)
      length == UDPMinimumSize + Len(packet)
      xsum == Checksum(packet, PseudoHeaderChecksum(UDPProtocolNumber, src.ip, dest.ip))
      udp == EncodeUDP(src.port, dest.port, length, 0)
  IN Header(Not(Checksum(Header(0), 0)))
     \o EncodeUDP(src.port, dest.port, length, Not(CalculateChecksum(udp, xsum, length)))
     \o packet

(* client4's frame: no UDP checksum, and the kernel fills in the header's. *)
MakeRawUDPPacket(payload, server, client) ==
  LET Header(sum) ==
        Encode(IPv4MinimumSize + UDPMinimumSize + Len(payload), IPv4MinimumSize, 64,
               UDPProtocolNumber, sum, client.ip, server.ip)
  IN Header(Not(Checksum(Header(0), 0)))
     \o EncodeUDP(client.port, server.port, UDPMinimumSize + Len(payload), 0) \o payload

HeaderLength(pkt) == (pkt[1] % 16) * 4
Protocol(pkt) == pkt[10]
SourceAddress(pkt) == SubSeq(pkt, 13, 16)
DestinationAddress(pkt) == SubSeq(pkt, 17, 20)
SourcePort(udp) == GetUint16(udp, 0)
DestinationPort(udp) == GetUint16(udp, 2)

(* Mutant: the address is not compared.                                    *)
MatchPort(addr, b) == b.port = addr.port

(* bound is never nil: NewBroadcastUDPConn is always given an address.     *)
udpMatch(addr, b) == (b.ip # <<>> => b.ip = addr.ip) /\ b.port = addr.port

(* An address, a frame with what its sender meant by it, and the frames    *)
(* that say what was meant.  The padding of Ethernet follows the datagram. *)
IPs == [1..4 -> Byte]
UDPAddr == [ip : IPs, port : Uint16]
Frame == [bytes : Seq(Byte), udp : BOOLEAN, src : UDPAddr, dst : UDPAddr,
          data : Seq(Byte), pad : Seq(Byte)]

Says(f) ==
  LET len == HeaderLength(f.bytes)
      udp == Drop(f.bytes, len)
  IN /\ Len(f.bytes) >= IPv4MinimumSize
     /\ len >= IPv4MinimumSize /\ Len(f.bytes) >= len + UDPMinimumSize
     /\ f.udp <=> Protocol(f.bytes) = UDPProtocolNumber
     /\ f.udp => /\ f.src = [ip |-> SourceAddress(f.bytes), port |-> SourcePort(udp)]
                 /\ f.dst = [ip |-> DestinationAddress(f.bytes), port |-> DestinationPort(udp)]
                 /\ GetUint16(udp, 4) = UDPMinimumSize + Len(f.data)
                 /\ Drop(udp, UDPMinimumSize) = f.data \o f.pad

(* A buffer holds the longest headers, and a payload its length.  A socket *)
(* for IPv4 frames gets frames with whole headers.  The addresses of a     *)
(* Client that are not set have the default ports.                         *)
ASSUME RawConnAssumption ==
  /\ Client4 \notin Conns
  /\ bound \in [Conns -> [ip : IPs \cup {<<>>}, port : Uint16]]
  /\ Configs \subseteq [laddr : UDPAddr, raddr : UDPAddr, fields : SUBSET {"local", "remote"}]
  /\ \A cf \in Configs : /\ "remote" \notin cf.fields => cf.raddr.port = ServerPort
                         /\ "local" \notin cf.fields => cf.laddr.port = ClientPort
  /\ Addrs \subseteq UDPAddr /\ Buffers \subseteq Nat
  /\ BufSize \in Nat /\ BufSize >= IPv4MaximumHeaderSize + UDPMinimumSize
  /\ \A d \in Data : d \in Seq(Byte) /\ UDPMinimumSize + Len(d) \in Uint16
  /\ \A f \in Foreign : f \in Frame /\ Says(f)

-----------------------------------------------------------------------------

VARIABLES
  conf,    \* the configuration of client4
  inbox,   \* the frames queued for each socket, with the datagram they carry
  got,     \* the last datagram that each reader was given
  frames   \* the number of frames so far

vars == <<conf, inbox, got, frames>>

Sockets == Conns \cup {Client4}

Init ==
  /\ conf \in Configs
  /\ inbox = [c \in Sockets |-> <<>>]
  /\ got = [c \in Sockets |-> <<>>]
  /\ frames = 0

(* A frame reaches the other sockets.  Next to its bytes it has what the   *)
(* sender meant: whether it is a UDP datagram, its addresses and data, and *)
(* the padding behind it.                                                  *)
Broadcast(from, bytes, udp, src, dst, data, pad) ==
  /\ frames < MaxFrames
  /\ frames' = frames + 1
  /\ inbox' = [c \in Sockets |->
       IF c \in from THEN inbox[c]
       ELSE Append(inbox[c], [bytes |-> bytes, udp |-> udp, src |-> src, dst |-> dst,
                              data |-> data, pad |-> pad])]
  /\ UNCHANGED <<conf, got>>

WriteTo(c, data, dest) ==
  Broadcast({c}, udp4pkt(data, dest, bound[c]), TRUE, [bound[c] EXCEPT !.ip = IP4(@)], dest,
            data, <<>>)

SendRaw(data) ==
  Broadcast({Client4}, MakeRawUDPPacket(data, conf.raddr, conf.laddr), TRUE, conf.laddr,
            conf.raddr, data, <<>>)

(* A frame of another host.                                                *)
Arrive(f) == Broadcast({}, f.bytes, f.udp, f.src, f.dst, f.data, f.pad)

(* One iteration of ReadFrom with a buffer of n bytes.                     *)
ReadFrom(c, n) ==
  /\ inbox[c] # <<>>
  /\ LET pkt == Take(Head(inbox[c]).bytes, IPv4MaximumHeaderSize + UDPMinimumSize + n)
         udp == Drop(pkt, HeaderLength(pkt))
         addr == [ip |-> DestinationAddress(pkt), port |-> DestinationPort(udp)]
         src == [ip |-> SourceAddress(pkt), port |-> SourcePort(udp)]
     IN \/ /\ Protocol(pkt) = UDPProtocolNumber
           /\ udpMatch(addr, bound[c])
           /\ got' = [got EXCEPT ![c] = <<[src |-> src, data |-> Take(Drop(udp, UDPMinimumSize), n)]>>]
        \/ /\ Protocol(pkt) # UDPProtocolNumber \/ ~udpMatch(addr, bound[c])
           /\ UNCHANGED got
  /\ inbox' = [inbox EXCEPT ![c] = Tail(@)]
  /\ UNCHANGED <<conf, frames>>

(* The ports that client4 expects: those of its fields if RemoteAddr is    *)
(* set, and the defaults otherwise.                                        *)
Custom == "remote" \in conf.fields
ExpectedSrcPort == IF Custom THEN conf.raddr.port ELSE ServerPort
ExpectedDstPort == IF Custom THEN conf.laddr.port ELSE ClientPort

(* Mutant: the payload ends where the datagram ends.                       *)
PayloadCut(buf, len, pLen) == SubSeq(buf, len + 9, len + pLen)

(* The payload of client4 is pLen bytes, which count the UDP header too.   *)
Payload(buf, len, pLen) == SubSeq(buf, len + 9, len + 8 + pLen)

(* One iteration of client4's receiver.  The buffer is zero after the      *)
(* frame.  It panics on a nil LocalAddr next to a RemoteAddr, and on a     *)
(* slice that ends behind the buffer.                                      *)
Recvfrom ==
  /\ inbox[Client4] # <<>>
  /\ LET pkt == Take(Head(inbox[Client4]).bytes, BufSize)
         len == HeaderLength(pkt)
         udp == Drop(pkt, len)
         pLen == GetUint16(udp, 4)
         buf == pkt \o [i \in 1..(BufSize - Len(pkt)) |-> 0]
         src == [ip |-> SourceAddress(pkt), port |-> SourcePort(udp)]
         fromServer == Protocol(pkt) = UDPProtocolNumber /\ src.port = ExpectedSrcPort
         noLocal == Custom /\ "local" \notin conf.fields
         forUs == DestinationPort(udp) = ExpectedDstPort
         fits == len + 8 + pLen <= BufSize
     IN \/ /\ fromServer /\ ~noLocal /\ forUs /\ fits
           /\ got' = [got EXCEPT ![Client4] = <<[src |-> src, data |-> Payload(buf, len, pLen)]>>]
        \/ /\ fromServer /\ (noLocal \/ (forUs /\ ~fits))
           /\ got' = [got EXCEPT ![Client4] = <<"panic">>]
        \/ /\ ~fromServer \/ (~noLocal /\ ~forUs)
           /\ UNCHANGED got
  /\ inbox' = [inbox EXCEPT ![Client4] = Tail(@)]
  /\ UNCHANGED <<conf, frames>>

Next ==
  \/ \E c \in Conns, data \in Data, dest \in Addrs : WriteTo(c, data, dest)
  \/ \E data \in Data : SendRaw(data)
  \/ \E f \in Foreign : Arrive(f)
  \/ \E c \in Conns, n \in Buffers : ReadFrom(c, n)
  \/ Recvfrom

Spec == Init /\ [][Next]_vars

-----------------------------------------------------------------------------
(* Properties.                                                             *)

(* The datagrams of the model, as the service has them.                    *)
Service(f) == [src |-> f.src, dst |-> f.dst, data |-> f.data \o f.pad]
Datagrams ==
  {[src |-> [bound[c] EXCEPT !.ip = IP4(@)], dst |-> dest, data |-> data] :
     c \in Conns, dest \in Addrs, data \in Data}
  \cup {[src |-> cf.laddr, dst |-> cf.raddr, data |-> data] : cf \in Configs, data \in Data}
  \cup {Service(f) : f \in {g \in Foreign : g.udp}}

(* A connection's queue: the datagrams for its address among its frames.   *)
ForConn(c, f) == f.udp /\ bound[c].ip \in {<<>>, f.dst.ip} /\ bound[c].port = f.dst.port
Received(f) == [src |-> f.src, data |-> f.data \o f.pad]
Kept(c, s) ==
  LET kept[i \in 0..Len(s)] ==
        IF i = 0 THEN <<>>
        ELSE IF ForConn(c, s[i]) THEN Append(kept[i - 1], Received(s[i]))
        ELSE kept[i - 1]
  IN kept[Len(s)]
Queue(c) == Kept(c, inbox[c])

UDP == INSTANCE UDPService WITH AnyIP <- <<>>, queue <- [c \in Conns |-> Queue(c)],
                                got <- [c \in Conns |-> got[c]]

(* BroadcastRawUDPConn implements UDPService: ReadFrom returns every       *)
(* datagram for the bound address once, in order, with its source and its  *)
(* data, whatever else is on the wire and however long the IP header is.   *)
(* The only difference is the padding of short frames, which ReadFrom      *)
(* leaves at the end of the data.                                          *)
ImplementsUDP == UDP!Spec

(* The one's complement sum of 16-bit words, modulo 2^16 - 1.              *)
WordSum(buf) ==
  LET s == IF Len(buf) % 2 = 0 THEN buf ELSE Append(buf, 0)
      sum[i \in 0..(Len(s) \div 2)] ==
        IF i = 0 THEN 0 ELSE (sum[i - 1] + GetUint16(s, 2 * i - 2)) % (Word - 1)
  IN sum[Len(s) \div 2]

(* udp4pkt and MakeRawUDPPacket: a receiver that verifies the checksums of *)
(* a frame accepts it; a UDP checksum of zero means that there is none.    *)
ChecksumsVerify ==
  \A c \in Sockets : \A i \in DOMAIN inbox[c] :
    LET f == inbox[c][i]
        pkt == Take(f.bytes, Len(f.bytes) - Len(f.pad))
        udp == Drop(pkt, HeaderLength(pkt))
        pseudo == SubSeq(pkt, 13, 20) \o <<0, UDPProtocolNumber>> \o SubSeq(udp, 5, 6)
    IN f.udp => /\ WordSum(Take(pkt, HeaderLength(pkt))) = 0
                /\ GetUint16(udp, 6) = 0 \/ WordSum(pseudo \o udp) = 0
                /\ GetUint16(pkt, 2) = Len(pkt)

(* What a step of client4's receiver does with a frame.                    *)
ReadsPayload ==
  (conf.fields # {"local"} /\ conf.fields # {"remote"} /\ inbox'[Client4] # inbox[Client4]
   /\ frames' = frames) =>
    LET f == Head(inbox[Client4])
        zeros == [i \in 1..8 |-> 0]
        fits == Len(f.bytes) - Len(f.pad) + 8 <= BufSize
    IN got'[Client4] =
         IF ~(f.udp /\ f.src.port = conf.raddr.port /\ f.dst.port = conf.laddr.port)
         THEN got[Client4]
         ELSE IF fits
         THEN <<[src |-> f.src, data |-> f.data \o Take(f.pad \o zeros, 8)]>>
         ELSE <<"panic">>

(* client4's receiver gives the DHCP decoder what a server sent to it,     *)
(* followed by exactly eight bytes, because the length in the UDP header   *)
(* counts that header; nothing else is decoded.  It only panics where      *)
(* these eight bytes end behind the buffer.  This needs both addresses to  *)
(* be set or neither: otherwise the ports expected are not those used.     *)
Client4Reads == [][ReadsPayload]_vars
=============================================================================
