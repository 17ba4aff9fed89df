----------------------------- MODULE MCRawConn ------------------------------
(***************************************************************************)
(* A small network for RawConn: a client's and a server's raw connection,  *)
(* one bound to a port and one to an address too, client4's socket in four *)
(* configurations, and frames of other hosts.                              *)
(***************************************************************************)
EXTENDS RawConn

CONSTANTS cli, srv

IPv4Any == <<0, 0, 0, 0>>
Bcast == <<255, 255, 255, 255>>
Host(n) == <<10, 0, 0, n>>
U(ip, port) == [ip |-> ip, port |-> port]

MCbound == [c \in {cli, srv} |-> IF c = cli THEN U(<<>>, ClientPort) ELSE U(Host(1), ServerPort)]
MCConfigs ==
  {[laddr |-> U(IPv4Any, ClientPort), raddr |-> U(Bcast, ServerPort), fields |-> {}],
   [laddr |-> U(Host(2), 1068), raddr |-> U(Host(1), 1067), fields |-> {"local", "remote"}],
   [laddr |-> U(Host(2), 1068), raddr |-> U(Bcast, ServerPort), fields |-> {"local"}],
   [laddr |-> U(IPv4Any, ClientPort), raddr |-> U(Host(1), ServerPort), fields |-> {"remote"}]}
MCAddrs == {U(Bcast, ServerPort), U(Host(1), ServerPort), U(Host(3), ClientPort)}

(* Payloads of odd length, one whose UDP checksum is 0, and one whose sum  *)
(* carries twice.                                                          *)
ZeroSum ==
  CHOOSE d \in {<<a, b>> : a \in {244, 245}, b \in 0..255} :
    SubSeq(udp4pkt(d, U(Host(1), ServerPort), U(<<>>, ClientPort)), 27, 28) = <<0, 0>>
MCData == {<<255, 255, 255>>, ZeroSum, <<255, 255, 245, 238>>}

(* A frame of another host, with o bytes of IP options.                    *)
Other(protocol, src, dst, o, data, pad) ==
  LET opts == [i \in 1..o |-> 1]
      Header(sum) == Encode(28 + o + Len(data), 20 + o, 9, protocol, sum, src.ip, dst.ip) \o opts
  IN [bytes |-> Header(Not(Checksum(Header(0), 0)))
                \o EncodeUDP(src.port, dst.port, 8 + Len(data), 0) \o data \o pad,
      udp |-> protocol = UDPProtocolNumber, src |-> src, dst |-> dst, data |-> data, pad |-> pad]

MCForeign ==
  {Other(6, U(Host(1), ServerPort), U(Bcast, ClientPort), 0, <<1>>, <<>>),
   Other(17, U(Host(1), ServerPort), U(Bcast, ClientPort), 40, <<1, 2>>, <<>>),
   Other(17, U(Host(1), 1067), U(Host(2), 1068), 4, <<3>>, <<9, 9>>),
   Other(17, U(Host(4), ServerPort), U(Host(2), ClientPort), 0, [i \in 1..8 |-> i], <<>>)}
=============================================================================
