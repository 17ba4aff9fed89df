----------------------------- MODULE UDPService -----------------------------
(***************************************************************************)
(* What nclient4's raw connection promises (the comments of                *)
(* NewBroadcastUDPConn): a net.PacketConn for UDP datagrams, like one of   *)
(* the operating system.  A datagram reaches some of the connections that  *)
(* its destination address matches, in the order in which datagrams were   *)
(* sent, and reading returns it with its source address, cut to the        *)
(* reader's buffer.                                                        *)
(***************************************************************************)
EXTENDS Integers, Sequences

CONSTANTS
  Conns,      \* the connections
  bound,      \* the address of each: an ip, or AnyIP, and a port
  AnyIP,
  Datagrams,  \* what may be sent: src and dst addresses and data
  Buffers     \* the lengths of the readers' buffers

VARIABLES queue, got

vars == <<queue, got>>

For(c, dst) == bound[c].ip \in {AnyIP, dst.ip} /\ bound[c].port = dst.port

Init ==
  /\ queue = [c \in Conns |-> <<>>]
  /\ got \in [Conns -> {<<>>}]

Deliver(d, S) ==
  /\ queue' = [c \in Conns |-> IF c \in S /\ For(c, d.dst)
                               THEN Append(queue[c], [src |-> d.src, data |-> d.data])
                               ELSE queue[c]]
  /\ UNCHANGED got

Receive(c, n) ==
  /\ queue[c] # <<>>
  /\ LET d == Head(queue[c])
     IN got' = [got EXCEPT ![c] = <<[src |-> d.src,
                  data |-> SubSeq(d.data, 1, IF n < Len(d.data) THEN n ELSE Len(d.data))]>>]
  /\ queue' = [queue EXCEPT ![c] = Tail(@)]

Next ==
  \/ \E d \in Datagrams : \E S \in SUBSET Conns : Deliver(d, S)
  \/ \E c \in Conns : \E n \in Buffers : Receive(c, n)

Spec == Init /\ [][Next]_vars
=============================================================================
