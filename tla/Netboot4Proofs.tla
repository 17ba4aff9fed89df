--------------------------- MODULE Netboot4Proofs ---------------------------
(***************************************************************************)
(* What a DHCPv4 network boot may rely on, for any number of retries,      *)
(* descriptors and packets: the answers in the conversation answer its     *)
(* requests, and an interface that was configured without an error is      *)
(* configured as the OFFER of an acknowledged or given-up attempt says.    *)
(*                                                                         *)
(* The receivers of earlier attempts live on, and share queues with that   *)
(* of this attempt, so the invariant speaks about every packet in a queue  *)
(* and every result that was ever reported: each comes from a request that *)
(* was sent (Genuine), and a request of this attempt has a number that     *)
(* this attempt has reached (AskedOK).  What Exchange closes and who may   *)
(* read from a socket needs the numbers of the descriptors, which the      *)
(* kernel reuses (SocketInv).                                              *)
(***************************************************************************)
EXTENDS Netboot4, SequenceTheorems, TLAPS

Packet ==
  [xid : Nat, to : Nat, reply : BOOLEAN, type : {"offer", "ack", "nak", "junk"}]
Request == [xid : Nat, type : {"request"}, to : Nat]
File == [kind : {"send", "recv"}, attempt : Nat, queue : Seq(Packet)]
Receiver ==
  [attempt : Nat, step : Nat, fd : FDs, st : {"start", "recv", "ended"},
   file : Nat, err : {"none", "nil", "error", "EAGAIN"}, response : Packet \cup {0}]

CallTypes ==
  /\ prog \in Programs
  /\ attempt \in 1..Retries+1 /\ step \in 1..2
  /\ sfd \in FDs \cup {0} /\ rfd \in FDs \cup {0}
  /\ conv \in Seq(Packet \cup Request)

KernelTypes ==
  /\ files \in Seq(File)
  /\ fds \in [FDs -> 0..Len(files)]

(* A request was sent by this attempt or an earlier one; those of this     *)
(* attempt are at most as far as the attempt itself.                       *)
AskedOK ==
  /\ asked \subseteq [xid : Nat, to : Nat]
  /\ \A q \in asked :
       /\ q.xid \in 1..attempt /\ q.to \in 1..2
       /\ q.xid = attempt => q.to <= step

(* A packet with a transaction ID of ours answers a request that was sent. *)
Genuine(p) ==
  p.xid = 0 \/ /\ [xid |-> p.xid, to |-> p.to] \in asked
               /\ prog = "netboot" => (p.type = "offer" <=> p.to = 1)

QueuesOK ==
  \A id \in DOMAIN files : \A k \in DOMAIN files[id].queue : Genuine(files[id].queue[k])

ReceiverOK(r) ==
  /\ r.attempt \in 1..attempt /\ r.step \in 1..2
  /\ r.st = "recv" => r.file \in DOMAIN files
  /\ r.err = "nil" => /\ r.response \in Packet /\ Genuine(r.response)
                      /\ r.response.xid = r.attempt
                      /\ r.response.type = Expected(r.step)

ReceiversOK ==
  /\ receivers \in Seq(Receiver)
  /\ \A i \in DOMAIN receivers : ReceiverOK(receivers[i])

(* Requests and answers alternate, and have the attempt's transaction ID.  *)
ShapeAt(m, k) ==
  /\ m.xid = attempt
  /\ k = 1 => m.type = "request" /\ m.to = 1
  /\ k = 2 => m.type = Expected(1) /\ m.to = 1
  /\ k = 3 => m.type = "request" /\ m.to = 2
  /\ k = 4 => /\ m.type = Expected(2) /\ m.to \in 1..2
              /\ prog = "netboot" => m.to = 2

Shape(c) == \A k \in DOMAIN c : ShapeAt(c[k], k)

CallOK ==
  /\ Shape(conv)
  /\ pc \in {"open", "listen"} => conv = <<>> /\ step = 1
  /\ pc = "send" => Len(conv) = 2 * step - 2
  /\ pc \in {"send", "wait"} => rfd \in FDs
  /\ pc = "wait" => /\ Len(conv) = 2 * step - 1
                    /\ Len(receivers) > 0
                    /\ current.attempt = attempt /\ current.step = step
  /\ pc = "done" => Len(conv) <= 4 /\ (Len(conv) < 4 => attempt = Retries + 1)

ClientInv == CallTypes /\ KernelTypes /\ AskedOK /\ QueuesOK /\ ReceiversOK /\ CallOK

(* The configuration in progress is that of the OFFER; ConfigureInterface  *)
(* returns after the route was set, because an OFFER without a router does *)
(* not come this far.                                                      *)
ConfigInv ==
  /\ npc \in {"address", "resolv", "delete", "add", "configured"} =>
       /\ netconf = GetNetConfFromPacketv4(offer)
       /\ offer.routers \in Seq(STRING) /\ offer.routers # <<>>
       /\ pc = "done" /\ prog = "netboot" /\ Len(conv) >= 2
  /\ npc \in {"delete", "add", "configured"} => resolv = <<netconf.dns, netconf.search>>
  /\ Configured

-----------------------------------------------------------------------------
(* The configuration.                                                      *)

LEMMA ConfigureStep ==
  ASSUME ConfigInv, IfUp \/ ConfigureInterface, UNCHANGED client4
  PROVE  ConfigInv'
<1>1. UNCHANGED <<pc, prog, conv>>
  BY DEF client4, caller
<1>2. CASE IfUp
  BY <1>1, <1>2 DEF ConfigInv, Configured, IfUp, Fails
<1>3. CASE ReplaceAddress
  BY <1>1, <1>3 DEF ConfigInv, Configured, ReplaceAddress, Fails
<1>4. CASE WriteResolvConf
  <2>1. netconf.routers = offer.routers /\ offer.routers # <<>>
    BY <1>4 DEF ConfigInv, WriteResolvConf, GetNetConfFromPacketv4
  <2>2. npc' \in {"failed", "delete"} /\ npc = "resolv"
    BY <1>4, <2>1 DEF WriteResolvConf, Fails
  <2>3. npc' = "delete" => resolv' = <<netconf.dns, netconf.search>>
    BY <1>4 DEF WriteResolvConf, Fails
  <2> QED
    BY <1>1, <1>4, <2>2, <2>3 DEF ConfigInv, Configured, WriteResolvConf
<1>5. CASE DeleteRoute
  BY <1>1, <1>5 DEF ConfigInv, Configured, DeleteRoute, Fails
<1>6. CASE AddRoute
  <2>1. /\ netconf.addr = <<offer.yourIP, offer.ones>>
        /\ netconf.dns = offer.dns /\ netconf.search = offer.search
        /\ netconf.routers = offer.routers
    BY <1>6 DEF ConfigInv, AddRoute, GetNetConfFromPacketv4
  <2>2. Head(netconf.routers) = offer.routers[1]
    BY <1>6, <2>1 DEF ConfigInv, AddRoute
  <2>3. <<offer.yourIP, offer.ones>> # <<>>
    OBVIOUS
  <2>4. npc' \in {"failed", "configured"}
    BY <1>6 DEF AddRoute, Fails
  <2>5. npc' = "configured" =>
          <<offer.yourIP, offer.ones>> \in addrs /\ route' = offer.routers[1]
    BY <1>6, <2>1, <2>2, <2>3 DEF AddRoute, RouteAdd, Fails
  <2> QED
    BY <1>1, <1>6, <2>1, <2>4, <2>5 DEF ConfigInv, Configured, AddRoute
<1> QED
  BY <1>2, <1>3, <1>4, <1>5, <1>6 DEF ConfigureInterface

LEMMA ConversationStep ==
  ASSUME ClientInv, ConfigInv, pc = "done", prog = "netboot",
         ConversationToNetconfv4(conv), UNCHANGED client4
  PROVE  ConfigInv'
<1>1. UNCHANGED <<pc, prog, conv>>
  BY DEF client4, caller
<1>2. npc' \in {"failed", "address"}
  BY DEF ConversationToNetconfv4, Fails
<1>3. SUFFICES ASSUME npc' = "address"
               PROVE  ConfigInv'
  BY <1>2 DEF ConfigInv, Configured
<1>4. /\ \E k \in DOMAIN conv : IsOffer(conv[k])
      /\ offer' \in Offers /\ Complete(offer')
      /\ netconf' = GetNetConfFromPacketv4(offer')
  BY <1>3 DEF ConversationToNetconfv4, Fails
<1>5. offer'.routers \in Seq(STRING) /\ offer'.routers # <<>>
  BY <1>4, NetconfAssumption DEF Complete
<1>6. Len(conv) >= 2
  <2>1. PICK k \in DOMAIN conv : conv[k].type = "offer"
    BY <1>4 DEF IsOffer
  <2>2. k # 1
    BY <2>1 DEF ClientInv, CallOK, Shape, ShapeAt
  <2>3. k \in 1..Len(conv) /\ Len(conv) \in Nat
    BY DEF ClientInv, CallTypes
  <2> QED
    BY <2>2, <2>3
<1> QED
  BY <1>1, <1>3, <1>4, <1>5, <1>6 DEF ConfigInv, Configured

-----------------------------------------------------------------------------
(* The client.                                                             *)

(* What every step of the client does.                                     *)
Later ==
  /\ prog' = prog /\ asked \subseteq asked' /\ attempt' \in Nat
  /\ attempt' >= attempt

LEMMA GenuineStays ==
  ASSUME NEW p, Genuine(p), Later
  PROVE  Genuine(p)'
BY DEF Genuine, Later

(* A result that was reported stays one, if the files stay.                *)
LEMMA ReceiverStays ==
  ASSUME NEW r, ReceiverOK(r), Later, attempt \in Nat, DOMAIN files \subseteq DOMAIN files'
  PROVE  ReceiverOK(r)'
<1>1. r.err = "nil" => Genuine(r.response)'
  BY GenuineStays DEF ReceiverOK
<1>2. r.attempt \in 1..attempt'
  BY DEF ReceiverOK, Later
<1> QED
  BY <1>1, <1>2 DEF ReceiverOK, Expected, Later

(* A step that leaves the receivers alone, and whose files are the same or *)
(* more.                                                                   *)
LEMMA ReceiversStay ==
  ASSUME ClientInv, Later, receivers' = receivers, DOMAIN files \subseteq DOMAIN files'
  PROVE  ReceiversOK'
<1>1. attempt \in Nat
  BY Client4Assumption DEF ClientInv, CallTypes
<1> QED
  BY <1>1, ReceiverStays DEF ClientInv, ReceiversOK

(* A step that leaves the files alone.                                     *)
LEMMA QueuesStay ==
  ASSUME ClientInv, Later, files' = files
  PROVE  QueuesOK'
BY GenuineStays DEF ClientInv, QueuesOK

(* A step that sends nothing.                                              *)
LEMMA AskedStays ==
  ASSUME ClientInv, asked' = asked, attempt' \in Nat, step' \in 1..2,
         (attempt' = attempt /\ step' >= step) \/ attempt' > attempt
  PROVE  AskedOK'
<1>1. attempt \in Nat /\ step \in 1..2
  BY Client4Assumption DEF ClientInv, CallTypes
<1>2. SUFFICES ASSUME NEW q \in asked
               PROVE  /\ q.xid \in 1..attempt' /\ q.to \in 1..2
                      /\ q.xid = attempt' => q.to <= step'
  BY DEF ClientInv, AskedOK
<1>3. /\ q.xid \in 1..attempt /\ q.to \in 1..2
      /\ q.xid = attempt => q.to <= step
  BY DEF ClientInv, AskedOK
<1> QED
  BY <1>1, <1>3

(* An attempt that fails is the last one, or another one follows.          *)
LEMMA FailedStep ==
  ASSUME ClientInv, prog' = prog, NEW c \in Seq(Packet \cup Request), Failed(c),
         Shape(c), Len(c) <= 3
  PROVE  /\ CallOK'
         /\ attempt' \in 1..Retries+1 /\ step' \in 1..2
         /\ (attempt' = attempt /\ step' = step) \/ attempt' = attempt + 1
         /\ conv' \in Seq(Packet \cup Request)
<1>1. attempt \in 1..Retries+1 /\ step \in 1..2 /\ Retries \in Nat
  BY Client4Assumption DEF ClientInv, CallTypes
<1>2. CASE attempt > Retries
  <2>1. pc' = "done" /\ conv' = c /\ attempt' = attempt /\ step' = step
    BY <1>2 DEF Failed
  <2>2. attempt = Retries + 1
    BY <1>1, <1>2
  <2>3. Shape(conv)'
    BY <2>1 DEF Shape, ShapeAt, Expected
  <2> QED
    BY <1>1, <2>1, <2>2, <2>3 DEF CallOK
<1>3. CASE ~(attempt > Retries)
  <2>1. pc' = "open" /\ conv' = <<>> /\ attempt' = attempt + 1 /\ step' = 1
    BY <1>3 DEF Failed
  <2>2. Shape(conv)' /\ conv' \in Seq(Packet \cup Request)
    BY <2>1 DEF Shape, ShapeAt
  <2> QED
    BY <1>1, <1>3, <2>1, <2>2 DEF CallOK
<1> QED
  BY <1>2, <1>3

(* The deferred close frees descriptors.                                   *)
LEMMA CloseStep ==
  ASSUME ClientInv, Close \/ fds' = fds, files' = files
  PROVE  KernelTypes'
<1>1. fds \in [FDs -> 0..Len(files)] /\ files \in Seq(File) /\ Len(files) \in Nat
  BY DEF ClientInv, KernelTypes
<1> QED
  BY <1>1 DEF Close, KernelTypes

(* An attempt that fails without sending.                                  *)
LEMMA GiveUp ==
  ASSUME ClientInv, Failed(conv), Len(conv) <= 3, KernelTypes',
         \/ files' = files
         \/ /\ DOMAIN files \subseteq DOMAIN files'
            /\ QueuesOK',
         UNCHANGED <<prog, sfd, rfd, receivers, asked>>
  PROVE  ClientInv'
<1>1. conv \in Seq(Packet \cup Request) /\ Shape(conv) /\ attempt \in Nat
  BY Client4Assumption DEF ClientInv, CallTypes, CallOK
<1>2. /\ CallOK'
      /\ attempt' \in 1..Retries+1 /\ step' \in 1..2
      /\ (attempt' = attempt /\ step' = step) \/ attempt' = attempt + 1
      /\ conv' \in Seq(Packet \cup Request)
  BY <1>1, FailedStep
<1>3. Later
  BY <1>1, <1>2, Client4Assumption DEF Later
<1>4. CallTypes'
  BY <1>2 DEF ClientInv, CallTypes
<1>5. AskedOK'
  BY <1>1, <1>2, <1>3, AskedStays DEF ClientInv, CallTypes, Later
<1>6. QueuesOK' /\ ReceiversOK'
  BY <1>3, QueuesStay, ReceiversStay
<1> QED
  BY <1>2, <1>4, <1>5, <1>6 DEF ClientInv

(* A new socket has an empty queue.                                        *)
LEMMA SocketStep ==
  ASSUME ClientInv, NEW n \in FDs, Socket("send", n) \/ Socket("recv", n), Later
  PROVE  KernelTypes' /\ DOMAIN files \subseteq DOMAIN files' /\ QueuesOK'
<1>1. files \in Seq(File) /\ fds \in [FDs -> 0..Len(files)] /\ attempt \in Nat
  BY Client4Assumption DEF ClientInv, KernelTypes, CallTypes
<1>2. PICK kind \in {"send", "recv"} :
        files' = Append(files, [kind |-> kind, attempt |-> attempt, queue |-> <<>>])
  BY DEF Socket
<1>3. PICK f \in File : files' = Append(files, f) /\ f.queue = <<>>
  <2> DEFINE g == [kind |-> kind, attempt |-> attempt, queue |-> <<>>]
  <2>1. g \in File /\ g.queue = <<>>
    BY <1>1, <1>2 DEF File
  <2> QED
    BY <1>2, <2>1
<1>4. /\ files' \in Seq(File) /\ Len(files') = Len(files) + 1
      /\ \A i \in 1..Len(files) : files'[i] = files[i]
      /\ files'[Len(files) + 1] = f
  BY <1>1, <1>3, AppendProperties
<1>5. DOMAIN files = 1..Len(files) /\ DOMAIN files' = 1..(Len(files) + 1) /\ Len(files) \in Nat
  BY <1>1, <1>4
<1>6. KernelTypes'
  <2>1. fds' = [fds EXCEPT ![n] = Len(files) + 1]
    BY DEF Socket
  <2> QED
    BY <1>1, <1>4, <1>5, <2>1 DEF KernelTypes
<1>7. QueuesOK'
  <2>1. SUFFICES ASSUME NEW id \in DOMAIN files', NEW k \in DOMAIN files'[id].queue
                 PROVE  Genuine(files[id].queue[k])'
    BY DEF QueuesOK
  <2>2. CASE id = Len(files) + 1
    <3>1. files'[id].queue = <<>>
      BY <1>3, <1>4, <2>2
    <3> QED
      BY <2>1, <3>1
  <2>3. CASE id # Len(files) + 1
    <3>1. id \in DOMAIN files /\ files'[id] = files[id]
      BY <1>4, <1>5, <2>3
    <3>2. Genuine(files[id].queue[k])
      BY <2>1, <3>1 DEF ClientInv, QueuesOK
    <3> QED
      BY <3>1, <3>2, GenuineStays
  <2> QED
    BY <2>2, <2>3
<1> QED
  BY <1>5, <1>6, <1>7

(* Failed leaves the attempt or goes on to the next.                       *)
LEMMA FailedLater ==
  ASSUME ClientInv, NEW c, Failed(c), UNCHANGED <<prog, asked>>
  PROVE  Later
<1>1. attempt \in Nat
  BY Client4Assumption DEF ClientInv, CallTypes
<1> QED
  BY <1>1 DEF Failed, Later

LEMMA OpenStep ==
  ASSUME ClientInv, OpenSender \/ Listen
  PROVE  ClientInv'
<1>1. conv = <<>> /\ step = 1 /\ Len(conv) = 0 /\ attempt \in Nat
  BY Client4Assumption DEF ClientInv, CallTypes, CallOK, OpenSender, Listen
<1>2. UNCHANGED <<prog, receivers, asked>>
  BY DEF OpenSender, Listen
<1>3. CASE Failed(conv) /\ UNCHANGED <<kernel, sfd, rfd>>
  <2>1. KernelTypes' /\ files' = files
    BY <1>3 DEF ClientInv, KernelTypes, kernel
  <2> QED
    BY <1>1, <1>2, <1>3, <2>1, GiveUp
<1>4. ASSUME NEW n \in FDs, Socket("send", n) \/ Socket("recv", n), Failed(conv),
             UNCHANGED <<sfd, rfd>>
      PROVE  ClientInv'
  <2>1. Later
    BY <1>2, <1>4, FailedLater
  <2>2. KernelTypes' /\ DOMAIN files \subseteq DOMAIN files' /\ QueuesOK'
    BY <1>4, <2>1, SocketStep
  <2> QED
    BY <1>1, <1>2, <1>4, <2>2, GiveUp
<1>5. ASSUME NEW n \in FDs, Socket("send", n) \/ Socket("recv", n),
             \/ sfd' = n /\ rfd' = rfd /\ pc' = "listen"
             \/ rfd' = n /\ sfd' = sfd /\ pc' = "send",
             UNCHANGED <<attempt, step, conv>>
      PROVE  ClientInv'
  <2>1. Later
    BY <1>1, <1>2, <1>5 DEF Later
  <2>2. KernelTypes' /\ DOMAIN files \subseteq DOMAIN files' /\ QueuesOK'
    BY <1>5, <2>1, SocketStep
  <2>3. ReceiversOK'
    BY <1>2, <2>1, <2>2, ReceiversStay
  <2>4. CallTypes' /\ AskedOK'
    BY <1>2, <1>5 DEF ClientInv, CallTypes, AskedOK
  <2>5. Shape(conv)'
    BY <1>1, <1>5 DEF Shape, ShapeAt
  <2>6. CallOK'
    BY <1>1, <1>5, <2>5 DEF CallOK
  <2> QED
    BY <2>2, <2>3, <2>4, <2>6 DEF ClientInv
<1>6. CASE OpenSender
  <2>1. CASE Failed(conv) /\ UNCHANGED <<kernel, sfd>>
    <3>1. UNCHANGED <<kernel, sfd, rfd>>
      BY <1>6, <2>1 DEF OpenSender
    <3> QED
      BY <1>3, <2>1, <3>1
  <2>2. CASE (\E n \in FDs : Socket("send", n)) /\ Failed(conv) /\ UNCHANGED sfd
    <3>1. PICK n \in FDs : Socket("send", n)
      BY <2>2
    <3>2. UNCHANGED <<sfd, rfd>>
      BY <1>6, <2>2 DEF OpenSender
    <3> QED
      BY <1>4, <2>2, <3>1, <3>2, Zenon
  <2>3. CASE /\ \E n \in FDs : Socket("send", n) /\ sfd' = n
             /\ pc' = "listen" /\ UNCHANGED <<attempt, step, conv>>
    <3>1. PICK n \in FDs : Socket("send", n) /\ sfd' = n
      BY <2>3
    <3>2. rfd' = rfd
      BY <1>6 DEF OpenSender
    <3> QED
      BY <1>5, <2>3, <3>1, <3>2, Zenon
  <2> QED
    BY <1>6, <2>1, <2>2, <2>3 DEF OpenSender
<1>7. CASE Listen
  <2>1. CASE Failed(conv) /\ UNCHANGED <<kernel, rfd>>
    <3>1. UNCHANGED <<kernel, sfd, rfd>>
      BY <1>7, <2>1 DEF Listen
    <3> QED
      BY <1>3, <2>1, <3>1
  <2>2. CASE (\E n \in FDs : Socket("recv", n)) /\ Failed(conv) /\ UNCHANGED rfd
    <3>1. PICK n \in FDs : Socket("recv", n)
      BY <2>2
    <3>2. UNCHANGED <<sfd, rfd>>
      BY <1>7, <2>2 DEF Listen
    <3> QED
      BY <1>4, <2>2, <3>1, <3>2, Zenon
  <2>3. CASE /\ \E n \in FDs : Socket("recv", n) /\ rfd' = n
             /\ pc' = "send" /\ UNCHANGED <<attempt, step, conv>>
    <3>1. PICK n \in FDs : Socket("recv", n) /\ rfd' = n
      BY <2>3
    <3>2. sfd' = sfd
      BY <1>7 DEF Listen
    <3> QED
      BY <1>5, <2>3, <3>1, <3>2, Zenon
  <2> QED
    BY <1>7, <2>1, <2>2, <2>3 DEF Listen
<1> QED
  BY <1>6, <1>7

LEMMA NoRequestStep ==
  ASSUME ClientInv, NoRequest \/ Timer
  PROVE  ClientInv'
<1>1. /\ Failed(conv) /\ Close /\ pc \in {"send", "wait"}
      /\ UNCHANGED <<prog, sfd, rfd, files, receivers, asked>>
  BY DEF NoRequest, Timer
<1>2. Len(conv) <= 3
  BY <1>1 DEF ClientInv, CallTypes, CallOK
<1>3. KernelTypes'
  BY <1>1, CloseStep
<1> QED
  BY <1>1, <1>2, <1>3, GiveUp

LEMMA SendStep ==
  ASSUME ClientInv, Send
  PROVE  ClientInv'
<1> DEFINE req == [xid |-> attempt, type |-> "request", to |-> step]
           sent == Append(conv, req)
           new == [attempt |-> attempt, step |-> step, fd |-> rfd, st |-> "start",
                   file |-> 0, err |-> "none", response |-> 0]
<1>1. /\ conv \in Seq(Packet \cup Request) /\ Len(conv) = 2 * step - 2
      /\ attempt \in 1..Retries+1 /\ attempt \in Nat /\ step \in 1..2
      /\ receivers \in Seq(Receiver) /\ Shape(conv)
      /\ rfd \in FDs /\ Retries \in Nat
  BY Client4Assumption DEF ClientInv, CallTypes, CallOK, ReceiversOK, Send
<1>2. req \in Request /\ new \in Receiver
  BY <1>1 DEF Request, Receiver
<1>3. req.xid = attempt /\ req.type = "request" /\ req.to = step
  OBVIOUS
<1>4. new.attempt = attempt /\ new.step = step /\ new.st = "start" /\ new.err = "none"
  OBVIOUS
<1>5. receivers' = Append(receivers, new) /\ UNCHANGED <<prog, sfd, rfd, files>>
  BY DEF Send
<1>6. \/ /\ conv' = sent /\ asked' = asked \cup {[xid |-> attempt, to |-> step]}
         /\ pc' = "wait" /\ UNCHANGED <<attempt, step, fds>>
      \/ Close /\ Failed(sent) /\ asked' = asked
  BY DEF Send
<1> HIDE DEF req, new
<1>7. /\ sent \in Seq(Packet \cup Request) /\ Len(sent) = 2 * step - 1
      /\ \A k \in 1..Len(conv) : sent[k] = conv[k]
      /\ sent[Len(conv) + 1] = req
  BY <1>1, <1>2, AppendProperties
<1>8. /\ receivers' \in Seq(Receiver) /\ Len(receivers') = Len(receivers) + 1
      /\ \A i \in 1..Len(receivers) : receivers'[i] = receivers[i]
      /\ receivers'[Len(receivers')] = new /\ Len(receivers) \in Nat
  BY <1>1, <1>2, <1>5, AppendProperties
<1> HIDE DEF sent
<1>9. Shape(sent)
  <2>1. DOMAIN sent = 1..(2 * step - 1)
    BY <1>1, <1>7
  <2>2. ASSUME NEW k \in DOMAIN sent, k # Len(conv) + 1
        PROVE  k \in DOMAIN conv /\ sent[k] = conv[k]
    BY <1>1, <1>7, <2>1, <2>2
  <2>3. Len(conv) + 1 = 2 * step - 1 /\ (step = 1 \/ step = 2)
    BY <1>1
  <2>4. \A k \in DOMAIN sent : k = 2 * step - 1 \/ (k \in DOMAIN conv /\ sent[k] = conv[k])
    BY <2>2, <2>3
  <2>5. sent[2 * step - 1] = req
    BY <1>7, <2>3
  <2>6. CASE step = 1
    <3>1. ShapeAt(req, 1)
      BY <1>3, <2>6 DEF ShapeAt
    <3> QED
      BY <1>1, <2>4, <2>5, <2>6, <3>1 DEF Shape
  <2>7. CASE step = 2
    <3>1. ShapeAt(req, 3)
      BY <1>3, <2>7 DEF ShapeAt
    <3> QED
      BY <1>1, <2>4, <2>5, <2>7, <3>1 DEF Shape
  <2> QED
    BY <2>3, <2>6, <2>7
<1>10. Later
  <2>1. CASE Failed(sent) /\ asked' = asked
    BY <1>5, <2>1, FailedLater
  <2>2. CASE asked \subseteq asked' /\ attempt' = attempt
    BY <1>1, <1>5, <2>2 DEF Later
  <2> QED
    BY <1>6, <2>1, <2>2
<1>11. ReceiversOK'
  <2>1. \A i \in 1..Len(receivers) : ReceiverOK(receivers[i])'
    BY <1>1, <1>5, <1>8, <1>10, ReceiverStays DEF ClientInv, ReceiversOK
  <2>2. attempt' \in Nat /\ attempt \in 1..attempt'
    BY <1>1, <1>10 DEF Later
  <2>3. ReceiverOK(receivers[Len(receivers)])'
    BY <1>1, <1>4, <1>8, <2>2 DEF ReceiverOK
  <2>4. DOMAIN receivers' = 1..(Len(receivers) + 1)
    BY <1>8
  <2> QED
    BY <1>8, <2>1, <2>3, <2>4 DEF ReceiversOK
<1>12. KernelTypes' /\ QueuesOK'
  BY <1>5, <1>6, <1>10, CloseStep, QueuesStay
<1>13. CASE /\ conv' = sent /\ asked' = asked \cup {[xid |-> attempt, to |-> step]}
            /\ pc' = "wait" /\ UNCHANGED <<attempt, step, fds>>
  <2>1. CallTypes'
    BY <1>5, <1>7, <1>13 DEF ClientInv, CallTypes
  <2>2. AskedOK'
    BY <1>1, <1>13 DEF ClientInv, AskedOK
  <2>3. Shape(conv)'
    BY <1>5, <1>9, <1>13 DEF Shape, ShapeAt, Expected
  <2>4. CallOK'
    BY <1>1, <1>4, <1>5, <1>7, <1>8, <1>13, <2>3 DEF CallOK, current
  <2> QED
    BY <1>11, <1>12, <2>1, <2>2, <2>4 DEF ClientInv
<1>14. CASE Close /\ Failed(sent) /\ asked' = asked
  <2>1. Len(sent) <= 3
    BY <1>1, <1>7
  <2>2. /\ CallOK'
        /\ attempt' \in 1..Retries+1 /\ step' \in 1..2
        /\ (attempt' = attempt /\ step' = step) \/ attempt' = attempt + 1
        /\ conv' \in Seq(Packet \cup Request)
    BY <1>5, <1>7, <1>9, <1>14, <2>1, FailedStep
  <2>3. CallTypes'
    BY <1>5, <2>2 DEF ClientInv, CallTypes
  <2>4. AskedOK'
    BY <1>1, <1>14, <2>2, AskedStays
  <2> QED
    BY <1>11, <1>12, <2>2, <2>3, <2>4 DEF ClientInv
<1> QED
  BY <1>6, <1>13, <1>14

LEMMA ResultStep ==
  ASSUME ClientInv, Result
  PROVE  ClientInv'
<1>1. /\ conv \in Seq(Packet \cup Request) /\ Len(conv) = 2 * step - 1
      /\ attempt \in Nat /\ step \in 1..2 /\ Shape(conv)
      /\ receivers \in Seq(Receiver) /\ Len(receivers) > 0
      /\ current.attempt = attempt /\ current.step = step /\ rfd \in FDs
  BY Client4Assumption DEF ClientInv, CallTypes, CallOK, ReceiversOK, Result
<1>2. UNCHANGED <<prog, sfd, rfd, files, receivers, asked>>
  BY DEF Result
<1>3. KernelTypes'
  BY <1>2, CloseStep DEF Result
<1>4. CASE Close /\ Failed(conv)
  <2>1. Len(conv) <= 3
    BY <1>1
  <2> QED
    BY <1>2, <1>3, <1>4, <2>1, GiveUp
<1>5. CASE /\ current.err = "nil" /\ conv' = Append(conv, current.response)
           /\ attempt' = attempt
           /\ \/ step = 1 /\ pc' = "send" /\ step' = 2
              \/ step = 2 /\ pc' = "done" /\ step' = step
  <2> DEFINE p == current.response
  <2>1. ReceiverOK(current)
    <3>1. Len(receivers) \in DOMAIN receivers
      BY <1>1
    <3> QED
      BY <3>1 DEF ClientInv, ReceiversOK, current
  <2>2. /\ p \in Packet /\ Genuine(p) /\ p.xid = attempt /\ p.type = Expected(step)
    BY <1>1, <1>5, <2>1 DEF ReceiverOK
  <2> HIDE DEF p
  <2>3. attempt # 0
    BY DEF ClientInv, CallTypes
  <2>4. /\ p.to \in 1..2 /\ p.to <= step
        /\ prog = "netboot" => (p.type = "offer" <=> p.to = 1)
    BY <2>2, <2>3 DEF Genuine, ClientInv, AskedOK
  <2>5. (step = 1 => p.to = 1) /\ ((step = 2 /\ prog = "netboot") => p.to = 2)
    BY <1>1, <2>2, <2>4 DEF Expected
  <2>6. conv' = Append(conv, p)
    BY <1>5 DEF p
  <2>7. /\ conv' \in Seq(Packet \cup Request) /\ Len(conv') = 2 * step
        /\ \A k \in 1..Len(conv) : conv'[k] = conv[k]
        /\ conv'[Len(conv) + 1] = p
    BY <1>1, <2>2, <2>6, AppendProperties
  <2>8. Shape(conv)'
    <3>1. DOMAIN conv' = 1..(2 * step)
      BY <2>7
    <3>2. Len(conv) + 1 = 2 * step /\ (step = 1 \/ step = 2)
      BY <1>1
    <3>3. conv'[2 * step] = p
      BY <2>7, <3>2
    <3>4. \A k \in DOMAIN conv' : k = 2 * step \/ (conv'[k] = conv[k] /\ k \in DOMAIN conv)
      BY <1>1, <2>7, <3>1
    <3>5. \A m, k : ShapeAt(m, k) => ShapeAt(m, k)'
      BY <1>2, <1>5 DEF ShapeAt, Expected
    <3>6. ShapeAt(p, 2 * step)
      <4>1. CASE step = 1
        BY <2>2, <2>5, <4>1 DEF ShapeAt
      <4>2. CASE step = 2
        BY <2>2, <2>4, <2>5, <4>2 DEF ShapeAt
      <4> QED
        BY <3>2, <4>1, <4>2
    <3>7. \A k \in DOMAIN conv' : ShapeAt(conv'[k], k)
      BY <1>1, <3>3, <3>4, <3>6 DEF Shape
    <3> QED
      BY <3>5, <3>7 DEF Shape
  <2>9. step' \in 1..2 /\ step' >= step
    BY <1>1, <1>5
  <2>10. CallOK'
    BY <1>1, <1>2, <1>5, <2>7, <2>8 DEF CallOK
  <2>11. CallTypes'
    BY <1>2, <1>5, <2>7, <2>9 DEF ClientInv, CallTypes
  <2>12. Later
    BY <1>1, <1>2, <1>5 DEF Later
  <2>13. AskedOK'
    BY <1>1, <1>2, <1>5, <2>9, AskedStays
  <2> QED
    BY <1>2, <1>3, <2>10, <2>11, <2>12, <2>13, QueuesStay, ReceiversStay DEF ClientInv
<1> QED
  BY <1>4, <1>5 DEF Result

(* A step of one receiver, which stays that of its call.                   *)
LEMMA ReceiverStep ==
  ASSUME ClientInv, NEW i \in DOMAIN receivers, NEW r \in Receiver,
         r.attempt = receivers[i].attempt, r.step = receivers[i].step, ReceiverOK(r)',
         receivers' = [receivers EXCEPT ![i] = r],
         DOMAIN files' = DOMAIN files, KernelTypes', QueuesOK', UNCHANGED <<caller, asked>>
  PROVE  ClientInv'
<1>1. UNCHANGED <<prog, pc, attempt, step, sfd, rfd, conv, asked>>
  BY DEF caller
<1>2. /\ receivers \in Seq(Receiver) /\ attempt \in Nat
      /\ \A j \in DOMAIN receivers : ReceiverOK(receivers[j])
  BY Client4Assumption DEF ClientInv, ReceiversOK, CallTypes
<1>3. receivers' \in Seq(Receiver) /\ Len(receivers') = Len(receivers)
  BY <1>2
<1>4. DOMAIN receivers' = DOMAIN receivers /\ DOMAIN receivers = 1..Len(receivers)
  BY <1>2, <1>3
<1>5. Later
  BY <1>1, <1>2 DEF Later
<1>6. \A j \in DOMAIN receivers : ReceiverOK(receivers[j])'
  <2>1. SUFFICES ASSUME NEW j \in DOMAIN receivers
                 PROVE  ReceiverOK(receivers[j])'
    OBVIOUS
  <2>2. CASE j = i
    BY <1>2, <2>2
  <2>3. CASE j # i
    <3>1. receivers'[j] = receivers[j]
      BY <1>2, <2>3
    <3> QED
      BY <1>2, <1>5, <3>1, ReceiverStays
  <2> QED
    BY <2>2, <2>3
<1>7. ReceiversOK'
  BY <1>3, <1>4, <1>6 DEF ReceiversOK
<1>8. CallTypes' /\ AskedOK' /\ Shape(conv)'
  BY <1>1 DEF ClientInv, CallTypes, AskedOK, CallOK, Shape, ShapeAt, Expected
<1>9. Len(receivers) > 0 => current'.attempt = current.attempt /\ current'.step = current.step
  BY <1>2, <1>3 DEF current
<1>10. CallOK'
  BY <1>1, <1>3, <1>8, <1>9 DEF ClientInv, CallOK
<1> QED
  BY <1>7, <1>8, <1>10 DEF ClientInv

LEMMA EnterStep ==
  ASSUME ClientInv, NEW i \in DOMAIN receivers, Enter(i) \/ Expire(i)
  PROVE  ClientInv'
<1>0. PICK r0 : r0 = receivers[i]
  OBVIOUS
<1>1. /\ receivers \in Seq(Receiver) /\ r0 \in Receiver /\ ReceiverOK(r0)
      /\ fds \in [FDs -> 0..Len(files)] /\ attempt \in Nat
      /\ DOMAIN files = 1..Len(files) /\ Len(files) \in Nat
  BY <1>0, Client4Assumption DEF ClientInv, ReceiversOK, KernelTypes, CallTypes
<1>2. UNCHANGED <<caller, kernel, asked>>
  BY DEF Enter, Expire
<1>3. Later /\ files' = files /\ fds' = fds /\ KernelTypes'
  BY <1>1, <1>2 DEF caller, kernel, Later, ClientInv, KernelTypes
<1>4. ASSUME NEW e \in {"error", "EAGAIN"}, Report(i, e, 0)
      PROVE  ClientInv'
  <2>0. PICK r : r = [r0 EXCEPT !.st = "ended", !.err = e, !.response = 0]
    OBVIOUS
  <2>1. receivers' = [receivers EXCEPT ![i] = r]
    BY Zenon, <1>0, <1>1, <1>4, <2>0 DEF Report
  <2>2. r \in Receiver
    BY ZenonT(30), <1>1, <2>0 DEF Receiver
  <2>3. r.attempt = r0.attempt /\ r.step = r0.step /\ r.st = "ended" /\ r.err = e
    BY <1>1, <2>0 DEF Receiver
  <2>4. ReceiverOK(r)'
    BY ZenonT(30), <1>1, <1>2, <2>3 DEF ReceiverOK, caller
  <2> QED
    BY Zenon, <1>0, <1>2, <1>3, <2>1, <2>2, <2>3, <2>4, QueuesStay, ReceiverStep
<1>5. CASE Expire(i)
  BY Zenon, <1>4, <1>5 DEF Expire
<1>6. CASE Enter(i) /\ fds[r0.fd] = 0
  BY <1>0, <1>4, <1>6 DEF Enter
<1>7. CASE Enter(i) /\ fds[r0.fd] # 0
  <2>0. PICK id, r : id = fds[r0.fd] /\ r = [r0 EXCEPT !.st = "recv", !.file = id]
    BY Zenon
  <2>1. receivers' = [receivers EXCEPT ![i] = r]
    BY <1>0, <1>1, <1>7, <2>0 DEF Enter
  <2>2. id \in DOMAIN files /\ id \in Nat
    BY <1>1, <1>7, <2>0 DEF Receiver
  <2>3. r \in Receiver
    BY ZenonT(30), <1>1, <2>0, <2>2 DEF Receiver
  <2>4. /\ r.attempt = r0.attempt /\ r.step = r0.step /\ r.st = "recv" /\ r.file = id
        /\ r.err = r0.err /\ r.response = r0.response
    BY <1>1, <2>0 DEF Receiver
  <2>5. r.file \in DOMAIN files'
    BY <1>3, <2>2, <2>4
  <2>6. ReceiverOK(r0)'
    BY <1>1, <1>3, ReceiverStays
  <2>7. ReceiverOK(r)'
    BY <2>4, <2>5, <2>6 DEF ReceiverOK
  <2> QED
    BY Zenon, <1>0, <1>2, <1>3, <2>1, <2>3, <2>4, <2>7, QueuesStay, ReceiverStep
<1> QED
  BY <1>5, <1>6, <1>7

LEMMA RecvStep ==
  ASSUME ClientInv, NEW i \in DOMAIN receivers, Recv(i)
  PROVE  ClientInv'
<1>1. PICK r0, id, p :
        r0 = receivers[i] /\ id = r0.file /\ p = Head(files[id].queue)
  OBVIOUS
<1>2. /\ receivers \in Seq(Receiver) /\ r0 \in Receiver /\ ReceiverOK(r0)
      /\ files \in Seq(File) /\ fds \in [FDs -> 0..Len(files)] /\ attempt \in Nat
  BY <1>1, Client4Assumption DEF ClientInv, ReceiversOK, KernelTypes, CallTypes
<1>3. /\ id \in DOMAIN files /\ files[id].queue # <<>>
      /\ files' = [files EXCEPT ![id].queue = Tail(@)]
      /\ UNCHANGED <<caller, fds, asked>>
  BY <1>1, <1>2 DEF Recv, ReceiverOK
<1>4. Later
  BY <1>2, <1>3 DEF caller, Later
<1>5. files[id] \in File /\ files[id].queue \in Seq(Packet)
  <2>1. DOMAIN files = 1..Len(files)
    BY <1>2
  <2>2. files[id] \in File
    BY <1>2, <1>3, <2>1, ElementOfSeq
  <2> QED
    BY <2>2 DEF File
<1>6. /\ p \in Packet /\ p = files[id].queue[1] /\ 1 \in DOMAIN files[id].queue
      /\ Tail(files[id].queue) \in Seq(Packet)
      /\ \A k \in DOMAIN Tail(files[id].queue) :
           /\ Tail(files[id].queue)[k] = files[id].queue[k + 1]
           /\ k + 1 \in DOMAIN files[id].queue
  BY <1>1, <1>3, <1>5, HeadTailProperties
<1>7. /\ files' \in Seq(File) /\ DOMAIN files' = DOMAIN files
      /\ files'[id].queue = Tail(files[id].queue)
      /\ \A d \in DOMAIN files : d # id => files'[d] = files[d]
  <2>1. PICK f : f = [files[id] EXCEPT !.queue = Tail(@)]
    BY Zenon
  <2>2. f \in File /\ f.queue = Tail(files[id].queue)
    BY Zenon, <1>5, <1>6, <2>1 DEF File
  <2>3. files' = [files EXCEPT ![id] = f]
    BY <1>3, <2>1
  <2>4. files' \in Seq(File)
    <3>1. id \in DOMAIN files
      BY <1>3
    <3> QED
      BY <1>2, <2>2, <2>3, <3>1
  <2>5. files'[id] = f /\ DOMAIN files' = DOMAIN files
    BY <1>3, <2>3, Zenon
  <2> QED
    BY Zenon, <1>3, <2>2, <2>3, <2>4, <2>5
<1>8. KernelTypes'
  <2>1. Len(files') = Len(files)
    BY <1>2, <1>7
  <2> QED
    BY <1>2, <1>3, <1>7, <2>1 DEF KernelTypes
<1>9. QueuesOK'
  <2>1. SUFFICES ASSUME NEW d \in DOMAIN files', NEW k \in DOMAIN files'[d].queue
                 PROVE  Genuine(files[d].queue[k])'
    BY DEF QueuesOK
  <2>2. CASE d = id
    <3>1. Genuine(files[id].queue[k + 1])
      BY Zenon, <1>3, <1>6, <1>7, <2>1, <2>2 DEF ClientInv, QueuesOK
    <3>2. files'[d].queue[k] = files[id].queue[k + 1]
      BY ZenonT(30), <1>6, <1>7, <2>1, <2>2
    <3> QED
      BY <1>4, <3>1, <3>2, GenuineStays
  <2>3. CASE d # id
    <3>1. Genuine(files[d].queue[k]) /\ files'[d] = files[d]
      BY Zenon, <1>7, <2>1, <2>3 DEF ClientInv, QueuesOK
    <3> QED
      BY <1>4, <3>1, GenuineStays
  <2> QED
    BY <2>2, <2>3
<1>10. Genuine(p)'
  BY <1>3, <1>4, <1>6, GenuineStays DEF ClientInv, QueuesOK
<1>11. ASSUME NEW e \in {"error", "nil"}, NEW q \in Packet \cup {0}, Report(i, e, q),
              e = "nil" => q = p /\ Matches(r0, p)
       PROVE  ClientInv'
  <2>1. PICK r : r = [r0 EXCEPT !.st = "ended", !.err = e, !.response = q]
    OBVIOUS
  <2>2. receivers' = [receivers EXCEPT ![i] = r]
    BY Zenon, <1>1, <1>2, <1>11, <2>1 DEF Report
  <2>3. r \in Receiver
    BY Zenon, <1>2, <1>11, <2>1 DEF Receiver
  <2>4. /\ r.attempt = r0.attempt /\ r.step = r0.step /\ r.st = "ended"
        /\ r.err = e /\ r.response = q
    BY <1>2, <2>1 DEF Receiver
  <2>5. e = "nil" => p.xid = r0.attempt /\ p.type = Expected(r0.step)
    BY <1>11 DEF Matches
  <2>6. ReceiverOK(r)'
    BY <1>2, <1>3, <1>6, <1>10, <1>11, <2>4, <2>5 DEF ReceiverOK, Expected, caller
  <2> QED
    BY Zenon, <1>1, <1>3, <1>7, <1>8, <1>9, <2>2, <2>3, <2>4, <2>6, ReceiverStep
<1>12. CASE p.type = "junk" /\ Report(i, "error", 0)
  BY <1>11, <1>12
<1>13. CASE Matches(r0, p) /\ Report(i, "nil", p)
  BY <1>6, <1>11, <1>13
<1>14. CASE receivers' = [receivers EXCEPT ![i].st = "start"]
  <2>1. PICK r : r = [r0 EXCEPT !.st = "start"]
    BY Zenon
  <2>2. receivers' = [receivers EXCEPT ![i] = r]
    BY <1>1, <1>2, <1>14, <2>1
  <2>3. r \in Receiver
    BY Zenon, <1>2, <2>1 DEF Receiver
  <2>4. /\ r.attempt = r0.attempt /\ r.step = r0.step /\ r.st = "start"
        /\ r.err = r0.err /\ r.response = r0.response
    BY <1>2, <2>1 DEF Receiver
  <2>5. ReceiverOK(r0)'
    BY <1>2, <1>4, <1>7, ReceiverStays
  <2>6. ReceiverOK(r)'
    BY <2>4, <2>5 DEF ReceiverOK
  <2> QED
    BY Zenon, <1>1, <1>3, <1>7, <1>8, <1>9, <2>2, <2>3, <2>4, <2>6, ReceiverStep
<1> QED
  BY <1>1, <1>12, <1>13, <1>14 DEF Recv

(* A packet from the network goes to the end of the queues.                *)
LEMMA ArriveStep ==
  ASSUME ClientInv, NEW p \in (UNION {Answers(q) : q \in asked}) \cup Others, Arrives(p)
  PROVE  ClientInv'
<1>1. p \in Packet /\ Genuine(p)
  <2>1. CASE p \in Others
    <3>1. PICK b \in BOOLEAN, t \in {"ack", "junk"} :
            p = [xid |-> 0, to |-> 0, reply |-> b, type |-> t]
      BY Zenon, <2>1 DEF Others
    <3>2. p.xid = 0
      BY <3>1
    <3> QED
      BY <3>1, <3>2 DEF Packet, Genuine
  <2>2. ASSUME NEW q \in asked, p \in Answers(q)
        PROVE  p \in Packet /\ Genuine(p)
    <3>1. /\ q = [xid |-> q.xid, to |-> q.to] /\ q.xid \in Nat /\ q.to \in Nat
          /\ q.to = 1 \/ q.to = 2
      BY DEF ClientInv, AskedOK
    <3>2. PICK t \in {"offer", "ack", "nak"} :
            /\ p = [xid |-> q.xid, to |-> q.to, reply |-> TRUE, type |-> t]
            /\ prog = "netboot" => (t = "offer" <=> q.to = 1)
      BY <2>2, <3>1 DEF Answers, Expected
    <3> QED
      BY <3>1, <3>2 DEF Packet, Genuine
  <2>3. CASE p \in UNION {Answers(q) : q \in asked}
    <3>1. PICK q \in asked : p \in Answers(q)
      BY <2>3
    <3> QED
      BY <2>2, <3>1
  <2> QED
    BY <2>1, <2>3
<1>2. UNCHANGED <<caller, fds, receivers, asked>>
  BY DEF Arrives
<1>3. UNCHANGED <<prog, pc, attempt, step, sfd, rfd, conv>>
  BY <1>2 DEF caller
<1>4. /\ files \in Seq(File) /\ fds \in [FDs -> 0..Len(files)] /\ attempt \in Nat
      /\ \A id \in DOMAIN files : files[id] \in File
  <2>1. files \in Seq(File) /\ fds \in [FDs -> 0..Len(files)] /\ attempt \in Nat
    BY Client4Assumption DEF ClientInv, KernelTypes, CallTypes
  <2>2. DOMAIN files = 1..Len(files)
    BY <2>1
  <2> QED
    BY <2>1, <2>2, ElementOfSeq
<1>5. Later
  BY <1>2, <1>3, <1>4 DEF Later
<1>6. DOMAIN files' = DOMAIN files
  BY DEF Arrives
<1>7. ASSUME NEW id \in DOMAIN files
      PROVE  /\ files'[id] \in File
             /\ \A k \in DOMAIN files'[id].queue : Genuine(files[id].queue[k])'
  <2>1. files[id] \in File /\ files[id].queue \in Seq(Packet)
    BY <1>4 DEF File
  <2>2. \A k \in DOMAIN files[id].queue : Genuine(files[id].queue[k])
    BY DEF ClientInv, QueuesOK
  <2>3. CASE files'[id] = files[id]
    BY <1>5, <2>1, <2>2, <2>3, GenuineStays
  <2>4. CASE files'[id] = [files[id] EXCEPT !.queue = Append(@, p)]
    <3>1. PICK s : s = Append(files[id].queue, p)
      BY Zenon
    <3>2. /\ s \in Seq(Packet) /\ Len(s) = Len(files[id].queue) + 1
          /\ \A k \in 1..Len(files[id].queue) : s[k] = files[id].queue[k]
          /\ s[Len(files[id].queue) + 1] = p
      <4>1. p \in Packet /\ files[id].queue \in Seq(Packet)
        BY <1>1, <2>1
      <4> QED
        BY <3>1, <4>1, AppendProperties
    <3>3. files'[id] \in File /\ files'[id].queue = s
      BY Zenon, <2>1, <2>4, <3>1, <3>2 DEF File
    <3>4. ASSUME NEW k \in DOMAIN s
          PROVE  s[k] = p \/ (k \in DOMAIN files[id].queue /\ s[k] = files[id].queue[k])
      BY <2>1, <3>2
    <3>5. ASSUME NEW k \in DOMAIN s
          PROVE  Genuine(s[k])'
      <4>1. PICK x : x = s[k]
        OBVIOUS
      <4>2. Genuine(x)
        BY <1>1, <2>2, <3>4, <4>1
      <4> QED
        BY <1>5, <4>1, <4>2, GenuineStays
    <3> QED
      BY <3>3, <3>5
  <2> QED
    BY <2>3, <2>4 DEF Arrives
<1>8. files' \in Seq(File) /\ Len(files') = Len(files)
  <2>1. DOMAIN files = 1..Len(files) /\ Len(files) \in Nat
    BY <1>4
  <2>2. files' = [id \in 1..Len(files) |-> files'[id]]
    BY <2>1 DEF Arrives
  <2>3. \A id \in 1..Len(files) : files'[id] \in File
    BY <1>7, <2>1
  <2> QED
    BY <2>1, <2>2, <2>3
<1>9. KernelTypes' /\ QueuesOK'
  BY <1>2, <1>4, <1>6, <1>7, <1>8 DEF KernelTypes, QueuesOK
<1>10. ReceiversOK'
  BY <1>2, <1>5, <1>6, ReceiversStay
<1>11. CallTypes' /\ AskedOK'
  BY <1>2, <1>3 DEF ClientInv, CallTypes, AskedOK
<1>12. CallOK'
  BY <1>2, <1>3 DEF ClientInv, CallOK, Shape, ShapeAt, Expected, current
<1> QED
  BY <1>9, <1>10, <1>11, <1>12 DEF ClientInv

-----------------------------------------------------------------------------
(* The sockets.  A file has one descriptor number as long as it has one,   *)
(* and a receiver waits for the file of its own number.                    *)
Numbers ==
  /\ \A n, m \in FDs : (fds[n] # 0 /\ fds[n] = fds[m]) => n = m
  /\ \A i \in DOMAIN receivers : receivers[i].st = "recv" =>
       \A n \in FDs : fds[n] = receivers[i].file => n = receivers[i].fd

(* A receiver that has reported has ended; of this attempt at most the     *)
(* last receiver has not, and that only while SendReceive waits for it.    *)
Ended ==
  \A i \in DOMAIN receivers :
    /\ receivers[i].err # "none" => receivers[i].st = "ended"
    /\ receivers[i].attempt = attempt =>
         /\ pc \notin {"open", "listen"}
         /\ pc = "send" \/ (pc = "wait" /\ i # Len(receivers)) => receivers[i].st = "ended"

(* The descriptors that Exchange has yet to close.                         *)
Ours == {n \in FDs : (pc \in {"listen", "send", "wait"} /\ n = sfd)
                     \/ (pc \in {"send", "wait"} /\ n = rfd)}

(* The others belong to attempts that started no receiver.                 *)
Owned ==
  prog = "netboot" =>
    /\ pc \in {"listen", "send", "wait"} => sfd \in FDs
    /\ \A n \in FDs : fds[n] # 0 =>
         LET a == files[fds[n]].attempt
         IN /\ a <= attempt
            /\ n \in Ours => a = attempt
            /\ n \notin Ours => /\ a < attempt \/ pc = "done"
                                /\ \A i \in DOMAIN receivers : receivers[i].attempt # a

SocketInv == Numbers /\ Ended /\ Owned

(* No step changes whose a file is.                                        *)
FilesStay == \A id \in DOMAIN files : files'[id].attempt = files[id].attempt

LEMMA KernelFacts ==
  ASSUME ClientInv
  PROVE  /\ files \in Seq(File) /\ DOMAIN files = 1..Len(files) /\ Len(files) \in Nat
         /\ fds \in [FDs -> 0..Len(files)] /\ attempt \in 1..Retries+1 /\ attempt \in Nat
         /\ \A id \in DOMAIN files : files[id] \in File /\ files[id].attempt \in Nat
         /\ \A n \in FDs : fds[n] # 0 => fds[n] \in DOMAIN files
         /\ receivers \in Seq(Receiver) /\ Len(receivers) \in Nat
         /\ DOMAIN receivers = 1..Len(receivers)
         /\ \A i \in DOMAIN receivers : /\ receivers[i] \in Receiver
                                        /\ receivers[i].attempt \in 1..attempt
                                        /\ receivers[i].attempt \in Nat
                                        /\ receivers[i].fd \in FDs
                                        /\ receivers[i].st = "recv" =>
                                             receivers[i].file \in DOMAIN files
<1>1. /\ files \in Seq(File) /\ fds \in [FDs -> 0..Len(files)]
      /\ attempt \in 1..Retries+1 /\ receivers \in Seq(Receiver)
      /\ \A i \in DOMAIN receivers : ReceiverOK(receivers[i])
  BY DEF ClientInv, KernelTypes, CallTypes, ReceiversOK
<1>2. /\ DOMAIN files = 1..Len(files) /\ Len(files) \in Nat
      /\ DOMAIN receivers = 1..Len(receivers) /\ Len(receivers) \in Nat
  BY <1>1, LenProperties
<1>3. attempt \in Nat
  BY <1>1, Client4Assumption
<1>4. \A id \in DOMAIN files : files[id] \in File
  BY <1>1, <1>2, ElementOfSeq
<1>5. \A id \in DOMAIN files : files[id].attempt \in Nat
  BY <1>4 DEF File
<1>6. \A n \in FDs : fds[n] # 0 => fds[n] \in DOMAIN files
  BY <1>1, <1>2
<1>7. \A i \in DOMAIN receivers : receivers[i] \in Receiver
  BY <1>1, <1>2, ElementOfSeq
<1>8. \A i \in DOMAIN receivers : /\ receivers[i].attempt \in 1..attempt
                                  /\ receivers[i].st = "recv" =>
                                       receivers[i].file \in DOMAIN files
  BY <1>1 DEF ReceiverOK
<1>9. \A i \in DOMAIN receivers : receivers[i].fd \in FDs /\ receivers[i].attempt \in Nat
  BY <1>7 DEF Receiver
<1> QED
  BY <1>1, <1>2, <1>3, <1>4, <1>5, <1>6, <1>7, <1>8, <1>9

(* Descriptors are closed, receivers end, and new ones start.              *)
LEMMA NumbersStay ==
  ASSUME ClientInv, Numbers,
         \A n \in FDs : fds'[n] \in {fds[n], 0},
         \A i \in DOMAIN receivers' : receivers'[i].st = "recv" =>
           /\ i \in DOMAIN receivers /\ receivers[i].st = "recv"
           /\ receivers'[i].file = receivers[i].file /\ receivers'[i].fd = receivers[i].fd
  PROVE  Numbers'
<1>1. \A n, m \in FDs : (fds'[n] # 0 /\ fds'[n] = fds'[m]) => n = m
  BY DEF Numbers
<1>2. ASSUME NEW i \in DOMAIN receivers', receivers'[i].st = "recv", NEW n \in FDs,
             fds'[n] = receivers'[i].file
      PROVE  n = receivers'[i].fd
  <2>1. /\ i \in DOMAIN receivers /\ receivers[i].st = "recv"
        /\ receivers'[i].file = receivers[i].file /\ receivers'[i].fd = receivers[i].fd
    BY <1>2
  <2>2. receivers[i].file # 0
    BY <2>1, KernelFacts
  <2> QED
    BY <1>2, <2>1, <2>2 DEF Numbers
<1> QED
  BY <1>1, <1>2 DEF Numbers

(* The deferred close, at the end of an attempt that had both sockets.     *)
LEMMA OwnedClose ==
  ASSUME ClientInv, Owned, Close, prog' = prog, files' = files, pc \in {"send", "wait"},
         pc' \in {"open", "done"}, attempt' \in {attempt, attempt + 1},
         pc' = "open" => attempt' = attempt + 1,
         \A i \in DOMAIN receivers' :
           \/ i \in DOMAIN receivers /\ receivers'[i].attempt = receivers[i].attempt
           \/ receivers'[i].attempt = attempt
  PROVE  Owned'
<1>1. SUFFICES ASSUME prog = "netboot", NEW n \in FDs, fds'[n] # 0
               PROVE  LET a == files'[fds'[n]].attempt
                      IN /\ a <= attempt'
                         /\ a < attempt' \/ pc' = "done"
                         /\ \A i \in DOMAIN receivers' : receivers'[i].attempt # a
  BY DEF Owned, Ours
<1>2. fds' = [fds EXCEPT ![sfd] = 0, ![rfd] = 0] /\ sfd \in FDs /\ rfd \in FDs
  BY <1>1 DEF Close, Owned, ClientInv, CallOK
<1>3. fds'[n] = fds[n] /\ n # sfd /\ n # rfd
  BY <1>1, <1>2, KernelFacts
<1>4. n \notin Ours
  BY <1>3 DEF Ours
<1>5. PICK a : a = files[fds[n]].attempt
  OBVIOUS
<1>6. a \in Nat /\ attempt \in Nat /\ a < attempt
  BY <1>1, <1>3, <1>4, <1>5, KernelFacts DEF Owned
<1>7. \A i \in DOMAIN receivers : receivers[i].attempt # a
  BY <1>1, <1>3, <1>4, <1>5 DEF Owned
<1>8. a <= attempt' /\ (a < attempt' \/ pc' = "done")
  BY <1>6
<1>9. \A i \in DOMAIN receivers' : receivers'[i].attempt # a
  BY <1>6, <1>7
<1> QED
  BY <1>3, <1>5, <1>8, <1>9
LEMMA AppendFacts ==
  ASSUME NEW S, NEW s \in Seq(S), NEW e \in S
  PROVE  /\ DOMAIN Append(s, e) = 1..(Len(s) + 1) /\ Len(Append(s, e)) = Len(s) + 1
         /\ \A i \in DOMAIN s : Append(s, e)[i] = s[i] /\ i \in DOMAIN Append(s, e)
         /\ Append(s, e)[Len(s) + 1] = e
         /\ \A i \in DOMAIN Append(s, e) : i \in DOMAIN s \/ i = Len(s) + 1
<1>1. /\ Append(s, e) \in Seq(S) /\ Len(Append(s, e)) = Len(s) + 1
      /\ \A i \in 1..Len(s) : Append(s, e)[i] = s[i]
      /\ Append(s, e)[Len(s) + 1] = e
  BY AppendProperties
<1>2. /\ DOMAIN s = 1..Len(s) /\ Len(s) \in Nat
      /\ DOMAIN Append(s, e) = 1..Len(Append(s, e))
  BY <1>1, LenProperties
<1> QED
  BY <1>1, <1>2

(* A step of the caller with its receivers, at the end of an attempt.      *)
LEMMA EndedClose ==
  ASSUME ClientInv, Ended, NEW c, Failed(c),
         \/ receivers' = receivers
         \/ \E r \in Receiver : /\ receivers' = Append(receivers, r)
                                /\ r.err = "none" /\ r.attempt = attempt
  PROVE  Ended'
<1>1. attempt \in Nat /\ Retries \in Nat
  BY KernelFacts, Client4Assumption
<1>2. \/ pc' = "done" /\ attempt' = attempt
      \/ pc' = "open" /\ attempt' = attempt + 1
  BY DEF Failed
<1>3. \A i \in DOMAIN receivers' :
        /\ receivers'[i].err # "none" => receivers'[i].st = "ended"
        /\ receivers'[i].attempt \in Nat /\ receivers'[i].attempt <= attempt
  <2>1. CASE receivers' = receivers
    BY <1>1, <2>1, KernelFacts DEF Ended
  <2>2. ASSUME NEW r \in Receiver, receivers' = Append(receivers, r), r.err = "none",
               r.attempt = attempt
        PROVE  \A i \in DOMAIN receivers' :
                 /\ receivers'[i].err # "none" => receivers'[i].st = "ended"
                 /\ receivers'[i].attempt \in Nat /\ receivers'[i].attempt <= attempt
    <3>1. \A i \in DOMAIN receivers' :
            \/ i \in DOMAIN receivers /\ receivers'[i] = receivers[i]
            \/ receivers'[i] = r
      <4>1. receivers \in Seq(Receiver)
        BY KernelFacts
      <4> QED
        BY <2>2, <4>1, AppendFacts
    <3>2. \A i \in DOMAIN receivers :
            /\ receivers[i].err # "none" => receivers[i].st = "ended"
            /\ receivers[i].attempt \in Nat /\ receivers[i].attempt <= attempt
      BY <1>1, KernelFacts DEF Ended
    <3> QED
      BY <1>1, <2>2, <3>1, <3>2
  <2> QED
    BY <2>1, <2>2
<1>4. \A i \in DOMAIN receivers' : receivers'[i].attempt = attempt' => pc' = "done"
  BY <1>1, <1>2, <1>3
<1> QED
  BY <1>3, <1>4, <1>2 DEF Ended

(* An attempt that had both sockets fails.                                 *)
LEMMA CloseFails ==
  ASSUME ClientInv, SocketInv, pc \in {"send", "wait"}, Close, NEW c, Failed(c),
         UNCHANGED <<prog, files>>,
         \/ receivers' = receivers
         \/ \E r \in Receiver : /\ receivers' = Append(receivers, r)
                                /\ r.err = "none" /\ r.st = "start" /\ r.attempt = attempt
  PROVE  SocketInv'
<1>1. \A i \in DOMAIN receivers' :
        \/ i \in DOMAIN receivers /\ receivers'[i] = receivers[i]
        \/ receivers'[i].attempt = attempt /\ receivers'[i].st = "start"
  <2>1. ASSUME NEW r \in Receiver, receivers' = Append(receivers, r)
        PROVE  \A i \in DOMAIN receivers' :
                 \/ i \in DOMAIN receivers /\ receivers'[i] = receivers[i]
                 \/ receivers'[i] = r
    <3>1. receivers \in Seq(Receiver)
      BY KernelFacts
    <3> QED
      BY <2>1, <3>1, AppendFacts
  <2> QED
    BY <2>1
<1>2. /\ pc' \in {"open", "done"} /\ attempt' \in {attempt, attempt + 1}
      /\ pc' = "open" => attempt' = attempt + 1
  BY DEF Failed
<1>3. \A n \in FDs : fds'[n] \in {fds[n], 0}
  BY KernelFacts DEF Close
<1>4. Numbers'
  BY <1>1, <1>3, NumbersStay DEF SocketInv
<1>5. Ended'
  BY EndedClose DEF SocketInv
<1>6. Owned'
  BY <1>1, <1>2, OwnedClose DEF SocketInv
<1> QED
  BY <1>4, <1>5, <1>6 DEF SocketInv

(* A socket is opened, and perhaps cannot be used.                         *)
LEMMA SocketOpened ==
  ASSUME ClientInv, SocketInv, NEW n \in FDs, Socket("send", n) \/ Socket("recv", n),
         UNCHANGED <<prog, receivers>>, pc \in {"open", "listen"},
         \/ Failed(conv) /\ UNCHANGED <<sfd, rfd>>
         \/ pc = "open" /\ sfd' = n /\ pc' = "listen" /\ attempt' = attempt
         \/ pc = "listen" /\ rfd' = n /\ sfd' = sfd /\ pc' = "send" /\ attempt' = attempt
  PROVE  SocketInv'
<1>1. PICK f : /\ f \in File /\ f.attempt = attempt /\ files' = Append(files, f)
               /\ fds' = [fds EXCEPT ![n] = Len(files) + 1] /\ fds[n] = 0
  <2>1. PICK kind \in {"send", "recv"} :
          /\ files' = Append(files, [kind |-> kind, attempt |-> attempt, queue |-> <<>>])
          /\ fds' = [fds EXCEPT ![n] = Len(files) + 1] /\ fds[n] = 0
    BY DEF Socket, Free
  <2> DEFINE g == [kind |-> kind, attempt |-> attempt, queue |-> <<>>]
  <2>2. g \in File /\ g.attempt = attempt
    BY KernelFacts DEF File
  <2> QED
    BY <2>1, <2>2
<1>2. /\ fds'[n] = Len(files) + 1 /\ files'[Len(files) + 1] = f
      /\ \A m \in FDs : m # n => fds'[m] = fds[m]
      /\ \A id \in 1..Len(files) : files'[id] = files[id]
  BY <1>1, KernelFacts, AppendProperties
<1>3. \A m \in FDs : fds[m] # Len(files) + 1
  BY KernelFacts
<1>4. Numbers'
  <2>1. \A i \in DOMAIN receivers : receivers[i].st = "recv" =>
          receivers[i].file # Len(files) + 1
    BY KernelFacts
  <2> QED
    BY <1>2, <1>3, <2>1 DEF SocketInv, Numbers
<1>5. /\ pc' \in {"open", "listen", "send", "done"} /\ attempt' \in {attempt, attempt + 1}
      /\ pc' = "open" => attempt' = attempt + 1
      /\ pc' \in {"listen", "send"} => attempt' = attempt /\ n = (IF pc' = "send" THEN rfd' ELSE sfd')
      /\ pc' = "done" => attempt' = attempt
      /\ pc' = "send" => pc = "listen" /\ sfd' = sfd
      /\ pc' = "listen" => pc = "open"
  BY DEF Failed
<1>6. \A i \in DOMAIN receivers : receivers[i].attempt \in Nat /\ receivers[i].attempt < attempt
  BY KernelFacts DEF SocketInv, Ended
<1>7. \A i \in DOMAIN receivers : receivers[i].attempt # attempt /\ receivers[i].attempt # attempt'
  BY <1>5, <1>6, KernelFacts
<1>8. Ended'
  BY <1>7 DEF SocketInv, Ended
<1>9. ASSUME prog = "netboot", NEW m \in FDs, fds'[m] # 0
      PROVE  LET a == files'[fds'[m]].attempt
             IN /\ a <= attempt'
                /\ m \in Ours' => a = attempt'
                /\ m \notin Ours' => /\ a < attempt' \/ pc' = "done"
                                    /\ \A i \in DOMAIN receivers' : receivers'[i].attempt # a
  <2>1. CASE m = n
    <3>1. files'[fds'[m]].attempt = attempt
      BY <1>1, <1>2, <2>1
    <3>2. pc' \in {"listen", "send"} => m \in Ours'
      BY <1>5, <2>1 DEF Ours
    <3>3. attempt \in Nat /\ attempt <= attempt' /\ (pc' = "open" => attempt < attempt')
      BY <1>5, KernelFacts
    <3>4. m \in Ours' => attempt' = attempt
      BY <1>5 DEF Ours
    <3> QED
      BY <1>5, <1>7, <3>1, <3>2, <3>3, <3>4
  <2>2. CASE m # n
    <3>1. fds'[m] = fds[m] /\ fds[m] \in DOMAIN files /\ files'[fds'[m]] = files[fds[m]]
      BY <1>2, <1>9, <2>2, KernelFacts
    <3>2. PICK a : a = files[fds[m]].attempt /\ a \in Nat
      BY <3>1, KernelFacts
    <3>3. a <= attempt /\ (m \notin Ours => a < attempt) /\ (m \in Ours => a = attempt)
      BY <1>9, <3>1, <3>2 DEF SocketInv, Owned
    <3>4. m \in Ours => pc = "listen" /\ m = sfd
      BY DEF Ours
    <3>5. /\ m \in Ours /\ pc' = "send" => m \in Ours'
          /\ m \in Ours' => m \in Ours /\ attempt' = attempt
      BY <1>5, <2>2, <3>4 DEF Ours
    <3>6. a <= attempt' /\ (pc' = "open" => a < attempt')
      BY <1>5, <3>2, <3>3, KernelFacts
    <3>7. \A i \in DOMAIN receivers : m \notin Ours => receivers[i].attempt # a
      BY <1>9, <3>1, <3>2 DEF SocketInv, Owned
    <3>8. m \notin Ours' => /\ a < attempt' \/ pc' = "done"
                            /\ \A i \in DOMAIN receivers : receivers[i].attempt # a
      BY <1>5, <1>7, <3>2, <3>3, <3>4, <3>5, <3>6, <3>7, KernelFacts
    <3> QED
      BY <3>1, <3>2, <3>3, <3>5, <3>6, <3>8
  <2> QED
    BY <2>1, <2>2
<1>10. prog = "netboot" /\ pc' \in {"listen", "send", "wait"} => sfd' \in FDs
  BY <1>5 DEF SocketInv, Owned
<1>11. Owned'
  BY <1>9, <1>10 DEF Owned
<1> QED
  BY <1>4, <1>8, <1>11 DEF SocketInv
LEMMA OpenSockets ==
  ASSUME ClientInv, SocketInv, OpenSender \/ Listen
  PROVE  SocketInv'
<1>1. UNCHANGED <<prog, receivers>> /\ pc \in {"open", "listen"}
  BY DEF OpenSender, Listen
<1>2. CASE Failed(conv) /\ UNCHANGED kernel
  <2>1. UNCHANGED <<fds, files>>
    BY <1>2 DEF kernel
  <2>2. Numbers'
    BY <1>1, <2>1 DEF SocketInv, Numbers
  <2>3. Ended'
    BY <1>1, <1>2, EndedClose DEF SocketInv
  <2>4. /\ pc' \in {"open", "done"} /\ attempt' \in {attempt, attempt + 1}
        /\ pc' = "open" => attempt' = attempt + 1
    BY <1>2 DEF Failed
  <2>5. ASSUME prog = "netboot", NEW n \in FDs, fds[n] # 0
        PROVE  LET a == files[fds[n]].attempt
               IN /\ a <= attempt'
                  /\ a < attempt' \/ pc' = "done"
                  /\ \A i \in DOMAIN receivers : receivers[i].attempt # a
    <3>1. PICK a : a = files[fds[n]].attempt /\ a \in Nat
      BY <2>5, KernelFacts
    <3>2. a <= attempt /\ (n \in Ours => a = attempt)
      BY <2>5, <3>1 DEF SocketInv, Owned
    <3>3. n \notin Ours => \A i \in DOMAIN receivers : receivers[i].attempt # a
      BY <2>5, <3>1 DEF SocketInv, Owned
    <3>4. \A i \in DOMAIN receivers : receivers[i].attempt # attempt
      BY <1>1 DEF SocketInv, Ended
    <3>5. attempt \in Nat
      BY KernelFacts
    <3> QED
      BY <2>4, <3>1, <3>2, <3>3, <3>4, <3>5
  <2>6. Ours' = {}
    BY <2>4 DEF Ours
  <2>7. Owned'
    BY <1>1, <2>1, <2>4, <2>5, <2>6 DEF Owned
  <2> QED
    BY <2>2, <2>3, <2>7 DEF SocketInv
<1>3. CASE OpenSender
  <2>1. CASE (\E n \in FDs : Socket("send", n)) /\ Failed(conv) /\ UNCHANGED sfd
    <3>1. PICK n \in FDs : Socket("send", n)
      BY <2>1
    <3>2. UNCHANGED <<sfd, rfd>>
      BY <1>3, <2>1 DEF OpenSender
    <3> QED
      BY Zenon, <1>1, <2>1, <3>1, <3>2, SocketOpened
  <2>2. CASE (\E n \in FDs : Socket("send", n) /\ sfd' = n) /\ pc' = "listen"
             /\ UNCHANGED <<attempt, step, conv>>
    <3>1. PICK n \in FDs : Socket("send", n) /\ sfd' = n
      BY <2>2
    <3>2. pc = "open" /\ attempt' = attempt
      BY <1>3, <2>2 DEF OpenSender
    <3> QED
      BY Zenon, <1>1, <2>2, <3>1, <3>2, SocketOpened
  <2> QED
    BY <1>2, <1>3, <2>1, <2>2 DEF OpenSender
<1>4. CASE Listen
  <2>1. CASE (\E n \in FDs : Socket("recv", n)) /\ Failed(conv) /\ UNCHANGED rfd
    <3>1. PICK n \in FDs : Socket("recv", n)
      BY <2>1
    <3>2. UNCHANGED <<sfd, rfd>>
      BY <1>4, <2>1 DEF Listen
    <3> QED
      BY Zenon, <1>1, <2>1, <3>1, <3>2, SocketOpened
  <2>2. CASE (\E n \in FDs : Socket("recv", n) /\ rfd' = n) /\ pc' = "send"
             /\ UNCHANGED <<attempt, step, conv>>
    <3>1. PICK n \in FDs : Socket("recv", n) /\ rfd' = n
      BY <2>2
    <3>2. pc = "listen" /\ sfd' = sfd /\ attempt' = attempt
      BY <1>4, <2>2 DEF Listen
    <3> QED
      BY Zenon, <1>1, <2>2, <3>1, <3>2, SocketOpened
  <2> QED
    BY <1>2, <1>4, <2>1, <2>2 DEF Listen
<1> QED
  BY <1>3, <1>4

LEMMA CallSockets ==
  ASSUME ClientInv, SocketInv, NoRequest \/ Timer \/ Send \/ Result
  PROVE  SocketInv'
<1>0. /\ receivers \in Seq(Receiver) /\ attempt \in Nat
      /\ DOMAIN receivers = 1..Len(receivers) /\ Len(receivers) \in Nat
  BY KernelFacts
<1>1. /\ UNCHANGED <<prog, sfd, rfd, files>> /\ pc \in {"send", "wait"}
  BY DEF NoRequest, Timer, Send, Result
<1>2. CASE NoRequest \/ Timer
  BY <1>1, <1>2, CloseFails DEF NoRequest, Timer
<1>3. CASE Send
  <2> DEFINE new == [attempt |-> attempt, step |-> step, fd |-> rfd, st |-> "start",
                     file |-> 0, err |-> "none", response |-> 0]
  <2>1. step \in Nat /\ rfd \in FDs
    BY <1>3 DEF ClientInv, CallTypes, CallOK, Send
  <2>2. /\ new \in Receiver /\ new.attempt = attempt /\ new.st = "start"
        /\ new.err = "none"
    BY <1>0, <2>1 DEF Receiver
  <2>3. receivers' = Append(receivers, new) /\ pc = "send"
    BY <1>3 DEF Send
  <2> HIDE DEF new
  <2>4. CASE Close /\ Failed(Append(conv, [xid |-> attempt, type |-> "request", to |-> step]))
    BY <1>1, <2>2, <2>3, <2>4, CloseFails
  <2>5. CASE pc' = "wait" /\ UNCHANGED <<attempt, fds>>
    <3>1. /\ DOMAIN receivers' = 1..(Len(receivers) + 1) /\ Len(receivers') = Len(receivers) + 1
          /\ \A i \in DOMAIN receivers : receivers'[i] = receivers[i]
          /\ receivers'[Len(receivers) + 1] = new
          /\ \A i \in DOMAIN receivers' : i \in DOMAIN receivers \/ i = Len(receivers) + 1
      BY <1>0, <2>2, <2>3, AppendFacts
    <3>2. Numbers'
      BY <2>2, <2>5, <3>1, NumbersStay DEF SocketInv
    <3>3. Ended'
      <4>1. SUFFICES ASSUME NEW i \in DOMAIN receivers'
                     PROVE  /\ receivers'[i].err # "none" => receivers'[i].st = "ended"
                            /\ receivers'[i].attempt = attempt' /\ i # Len(receivers') =>
                                 receivers'[i].st = "ended"
        BY <2>5 DEF Ended
      <4>2. CASE i = Len(receivers) + 1
        BY <2>2, <3>1, <4>2
      <4>3. CASE i \in DOMAIN receivers
        BY <2>3, <2>5, <3>1, <4>3 DEF SocketInv, Ended
      <4> QED
        BY <3>1, <4>2, <4>3
    <3>4. Ours' = Ours
      BY <1>1, <2>3, <2>5 DEF Ours
    <3>5. \A i \in DOMAIN receivers' :
            \/ i \in DOMAIN receivers /\ receivers'[i].attempt = receivers[i].attempt
            \/ receivers'[i].attempt = attempt
      BY <2>2, <3>1
    <3>6. Owned'
      <4>1. SUFFICES ASSUME prog = "netboot", NEW n \in FDs, fds[n] # 0, n \notin Ours,
                            NEW i \in DOMAIN receivers'
                     PROVE  receivers'[i].attempt # files[fds[n]].attempt
        BY <1>1, <2>3, <2>5, <3>4 DEF SocketInv, Owned
      <4>2. files[fds[n]].attempt \in Nat /\ files[fds[n]].attempt < attempt
        BY <2>3, <4>1, KernelFacts DEF SocketInv, Owned
      <4>3. \A j \in DOMAIN receivers : receivers[j].attempt # files[fds[n]].attempt
        BY <4>1 DEF SocketInv, Owned
      <4> QED
        BY <1>0, <3>5, <4>2, <4>3
    <3> QED
      BY <3>2, <3>3, <3>6 DEF SocketInv
  <2> QED
    BY <1>3, <2>4, <2>5 DEF Send
<1>4. CASE Result
  <2>1. receivers' = receivers /\ pc = "wait" /\ current.err # "none"
    BY <1>4 DEF Result
  <2>2. CASE Close /\ Failed(conv)
    BY <1>1, <2>1, <2>2, CloseFails
  <2>3. CASE pc' = "send" /\ UNCHANGED <<attempt, fds>>
    <3>1. Numbers'
      BY <2>1, <2>3 DEF SocketInv, Numbers
    <3>2. Ended'
      <4>1. Len(receivers) \in DOMAIN receivers
        BY <1>0, <2>1 DEF ClientInv, CallOK
      <4>2. receivers[Len(receivers)].st = "ended"
        BY <2>1, <4>1 DEF SocketInv, Ended, current
      <4> QED
        BY <2>1, <2>3, <4>2 DEF SocketInv, Ended
    <3>3. Ours' = Ours
      BY <1>1, <2>1, <2>3 DEF Ours
    <3>4. Owned'
      BY <1>1, <2>1, <2>3, <3>3 DEF SocketInv, Owned
    <3> QED
      BY <3>1, <3>2, <3>4 DEF SocketInv
  <2>4. CASE pc' = "done" /\ Close /\ attempt' = attempt
    <3>1. \A n \in FDs : fds'[n] \in {fds[n], 0}
      BY <2>4, KernelFacts DEF Close
    <3>2. Numbers'
      BY <2>1, <3>1, NumbersStay DEF SocketInv
    <3>3. Ended'
      BY <2>1, <2>4 DEF SocketInv, Ended
    <3>4. Owned'
      BY <1>1, <2>1, <2>4, OwnedClose DEF SocketInv
    <3> QED
      BY <3>2, <3>3, <3>4 DEF SocketInv
  <2> QED
    BY <1>4, <2>2, <2>3, <2>4 DEF Result
<1> QED
  BY <1>2, <1>3, <1>4

(* A step of one receiver, and packets that arrive.                        *)
LEMMA ReceiverSockets ==
  ASSUME ClientInv, SocketInv, UNCHANGED <<prog, pc, attempt, sfd, rfd, fds>>, FilesStay,
         DOMAIN receivers' = DOMAIN receivers, Len(receivers') = Len(receivers),
         \A i \in DOMAIN receivers :
           /\ receivers'[i].attempt = receivers[i].attempt
           /\ receivers'[i].fd = receivers[i].fd
           /\ receivers[i].st = "ended" => receivers'[i] = receivers[i]
           /\ receivers'[i].err # "none" => receivers'[i].st = "ended"
           /\ receivers'[i].st = "recv" =>
                \/ receivers[i].st = "recv" /\ receivers'[i].file = receivers[i].file
                \/ receivers'[i].file # 0 /\ receivers'[i].file = fds[receivers[i].fd]
  PROVE  SocketInv'
<1>1. Numbers'
  <2>1. SUFFICES ASSUME NEW i \in DOMAIN receivers, receivers'[i].st = "recv",
                        NEW n \in FDs, fds[n] = receivers'[i].file
                 PROVE  n = receivers[i].fd
    BY DEF SocketInv, Numbers
  <2>2. receivers[i].fd \in FDs
    BY KernelFacts
  <2> QED
    BY <2>1, <2>2 DEF SocketInv, Numbers
<1>2. Ended'
  BY DEF SocketInv, Ended
<1>3. Ours' = Ours
  BY DEF Ours
<1>4. \A n \in FDs : fds[n] # 0 => files'[fds[n]].attempt = files[fds[n]].attempt
  BY KernelFacts, Zenon DEF FilesStay
<1>5. ASSUME prog = "netboot", NEW n \in FDs, fds[n] # 0
      PROVE  LET a == files'[fds[n]].attempt
             IN /\ a <= attempt
                /\ n \in Ours => a = attempt
                /\ n \notin Ours => /\ a < attempt \/ pc = "done"
                                    /\ \A i \in DOMAIN receivers' : receivers'[i].attempt # a
  <2>1. /\ files[fds[n]].attempt <= attempt
        /\ n \in Ours => files[fds[n]].attempt = attempt
        /\ n \notin Ours => files[fds[n]].attempt < attempt \/ pc = "done"
    BY <1>5 DEF SocketInv, Owned
  <2>2. n \notin Ours => \A i \in DOMAIN receivers : receivers[i].attempt # files[fds[n]].attempt
    BY <1>5 DEF SocketInv, Owned
  <2>3. files'[fds[n]].attempt = files[fds[n]].attempt
    BY <1>4, <1>5
  <2>4. \A i \in DOMAIN receivers' : receivers'[i].attempt = receivers[i].attempt
    OBVIOUS
  <2> QED
    BY <2>1, <2>2, <2>3, <2>4, Zenon
<1>6. prog = "netboot" /\ pc \in {"listen", "send", "wait"} => sfd \in FDs
  BY DEF SocketInv, Owned
<1>7. Owned'
  BY <1>3, <1>5, <1>6 DEF Owned
<1> QED
  BY <1>1, <1>2, <1>7 DEF SocketInv
LEMMA RecvSockets ==
  ASSUME ClientInv, SocketInv, NEW i \in DOMAIN receivers, Enter(i) \/ Recv(i) \/ Expire(i)
  PROVE  SocketInv'
<1>1. PICK r0 : r0 = receivers[i]
  OBVIOUS
<1>2. /\ r0 \in Receiver /\ r0.st # "ended" /\ receivers \in Seq(Receiver)
      /\ files \in Seq(File) /\ DOMAIN receivers = 1..Len(receivers)
  BY <1>1, KernelFacts DEF Enter, Recv, Expire
<1>3. r0.err = "none"
  BY <1>1, <1>2 DEF SocketInv, Ended
<1>4. UNCHANGED <<prog, pc, attempt, sfd, rfd, fds>>
  BY DEF Enter, Recv, Expire, caller, kernel
<1>5. FilesStay
  <2>1. CASE files' = files
    BY <2>1 DEF FilesStay
  <2>2. CASE files' = [files EXCEPT ![r0.file].queue = Tail(@)]
    <3>1. SUFFICES ASSUME NEW id \in DOMAIN files
                   PROVE  files'[id].attempt = files[id].attempt
      BY DEF FilesStay
    <3>2. files[id] \in File
      BY <3>1, KernelFacts
    <3>3. \/ files'[id] = files[id]
          \/ files'[id] = [files[id] EXCEPT !.queue = Tail(@)]
      BY ZenonT(30), <1>2, <2>2, <3>1
    <3> QED
      BY <3>2, <3>3 DEF File
  <2> QED
    BY <1>1, <2>1, <2>2 DEF Enter, Recv, Expire, kernel
<1>6. ASSUME NEW r, receivers' = [receivers EXCEPT ![i] = r],
             r.attempt = r0.attempt, r.fd = r0.fd, r.err # "none" => r.st = "ended",
             r.st = "recv" => r.file # 0 /\ r.file = fds[r0.fd]
      PROVE  SocketInv'
  <2>1. DOMAIN receivers' = DOMAIN receivers
    BY <1>6
  <2>2. Len(receivers') = Len(receivers)
    BY <1>2, <1>6
  <2>3. receivers'[i] = r /\ \A j \in DOMAIN receivers : j # i => receivers'[j] = receivers[j]
    BY <1>2, <1>6
  <2>4. \A j \in DOMAIN receivers : receivers[j].err # "none" => receivers[j].st = "ended"
    BY DEF SocketInv, Ended
  <2>5. ASSUME NEW j \in DOMAIN receivers
        PROVE  /\ receivers'[j].attempt = receivers[j].attempt
               /\ receivers'[j].fd = receivers[j].fd
               /\ receivers[j].st = "ended" => receivers'[j] = receivers[j]
               /\ receivers'[j].err # "none" => receivers'[j].st = "ended"
               /\ receivers'[j].st = "recv" =>
                    \/ receivers[j].st = "recv" /\ receivers'[j].file = receivers[j].file
                    \/ receivers'[j].file # 0 /\ receivers'[j].file = fds[receivers[j].fd]
    BY <1>1, <1>2, <1>6, <2>3, <2>4
  <2> QED
    BY <1>4, <1>5, <2>1, <2>2, <2>5, ReceiverSockets, Zenon
<1>7. ASSUME NEW e, NEW p, Report(i, e, p)
      PROVE  SocketInv'
  <2>1. PICK r : r = [r0 EXCEPT !.st = "ended", !.err = e, !.response = p]
    BY Zenon
  <2>2. receivers' = [receivers EXCEPT ![i] = r]
    BY Zenon, <1>1, <1>2, <1>7, <2>1 DEF Report
  <2>3. r.attempt = r0.attempt /\ r.fd = r0.fd /\ r.st = "ended"
    BY <1>2, <2>1 DEF Receiver
  <2> QED
    BY Zenon, <1>6, <2>2, <2>3
<1>8. CASE Enter(i)
  <2>1. CASE fds[r0.fd] = 0
    BY <1>1, <1>7, <1>8, <2>1 DEF Enter
  <2>2. CASE fds[r0.fd] # 0
    <3>1. PICK id, r : id = fds[r0.fd] /\ r = [r0 EXCEPT !.st = "recv", !.file = id]
      BY Zenon
    <3>2. receivers' = [receivers EXCEPT ![i] = r]
      BY ZenonT(30), <1>1, <1>2, <1>8, <2>2, <3>1 DEF Enter
    <3>3. /\ r.attempt = r0.attempt /\ r.fd = r0.fd /\ r.err = r0.err /\ r.file = id
      BY <1>2, <3>1 DEF Receiver
    <3> QED
      BY Zenon, <1>3, <1>6, <2>2, <3>1, <3>2, <3>3
  <2> QED
    BY <2>1, <2>2
<1>9. CASE Expire(i)
  BY <1>7, <1>9 DEF Expire
<1>10. CASE Recv(i)
  <2>1. CASE receivers' = [receivers EXCEPT ![i].st = "start"]
    <3>1. PICK r : r = [r0 EXCEPT !.st = "start"]
      BY Zenon
    <3>2. receivers' = [receivers EXCEPT ![i] = r]
      BY <1>1, <1>2, <2>1, <3>1
    <3>3. r.attempt = r0.attempt /\ r.fd = r0.fd /\ r.err = r0.err /\ r.st = "start"
      BY <1>2, <3>1 DEF Receiver
    <3> QED
      BY Zenon, <1>3, <1>6, <3>2, <3>3
  <2> QED
    BY <1>7, <1>10, <2>1 DEF Recv
<1> QED
  BY <1>8, <1>9, <1>10

LEMMA ArriveSockets ==
  ASSUME ClientInv, SocketInv, NEW p, Arrives(p)
  PROVE  SocketInv'
<1>1. UNCHANGED <<prog, pc, attempt, sfd, rfd, fds, receivers>>
  BY DEF Arrives, caller
<1>2. FilesStay
  <2>1. SUFFICES ASSUME NEW id \in DOMAIN files
                 PROVE  files'[id].attempt = files[id].attempt
    BY DEF FilesStay
  <2>2. files[id] \in File
    BY <2>1, KernelFacts
  <2>3. \/ files'[id] = files[id]
        \/ files'[id] = [files[id] EXCEPT !.queue = Append(@, p)]
    BY <2>1 DEF Arrives
  <2> QED
    BY <2>2, <2>3 DEF File
<1>3. \A i \in DOMAIN receivers : receivers[i].err # "none" => receivers[i].st = "ended"
  BY DEF SocketInv, Ended
<1> QED
  BY <1>1, <1>2, <1>3, ReceiverSockets

LEMMA SocketsUnchanged ==
  ASSUME SocketInv, UNCHANGED client4
  PROVE  SocketInv'
<1>1. UNCHANGED <<prog, pc, attempt, sfd, rfd, fds, files, receivers>>
  BY DEF client4, caller, kernel
<1> QED
  BY <1>1, Zenon DEF SocketInv, Numbers, Ended, Owned, Ours

-----------------------------------------------------------------------------
(* The theorems.                                                           *)

LEMMA InitNetboot == Init => ClientInv /\ ConfigInv
<1> SUFFICES ASSUME Init
             PROVE  ClientInv /\ ConfigInv
  OBVIOUS
<1>1. CallTypes /\ KernelTypes
  BY Client4Assumption DEF Init, Client4Init, CallTypes, KernelTypes
<1>2. AskedOK /\ QueuesOK
  BY DEF Init, Client4Init, AskedOK, QueuesOK
<1>3. ReceiversOK
  BY DEF Init, Client4Init, ReceiversOK
<1>4. CallOK
  BY DEF Init, Client4Init, CallOK, Shape, ShapeAt
<1>5. ConfigInv
  BY DEF Init, NetconfInit, ConfigInv, Configured
<1> QED
  BY <1>1, <1>2, <1>3, <1>4, <1>5 DEF ClientInv

LEMMA ClientStep ==
  ASSUME ClientInv, Client4Next
  PROVE  ClientInv' /\ (pc = "done" => UNCHANGED <<pc, prog, conv>>)
<1>1. ClientInv'
  BY OpenStep, NoRequestStep, SendStep, ResultStep, EnterStep, RecvStep, ArriveStep
     DEF Client4Next
<1>2. pc = "done" => UNCHANGED <<pc, prog, conv>>
  BY ZenonT(30) DEF Client4Next, OpenSender, Listen, NoRequest, Send, Result, Timer, Enter, Recv,
     Expire, Arrives, caller
<1> QED
  BY <1>1, <1>2

LEMMA NextNetboot ==
  ASSUME ClientInv, ConfigInv, [Next]_vars
  PROVE  ClientInv' /\ ConfigInv'
<1>1. CASE Client4Next /\ UNCHANGED netconfVars
  <2>1. ClientInv' /\ (pc = "done" => UNCHANGED <<pc, prog, conv>>)
    BY <1>1, ClientStep
  <2> QED
    BY Zenon, <1>1, <2>1 DEF ConfigInv, Configured, netconfVars
<1>2. ASSUME UNCHANGED client4
      PROVE  ClientInv'
  <2>1. UNCHANGED <<prog, pc, attempt, step, sfd, rfd, conv, fds, files, receivers, asked>>
    BY <1>2 DEF client4, caller, kernel
  <2>2. CallTypes' /\ KernelTypes' /\ AskedOK'
    BY <2>1 DEF ClientInv, CallTypes, KernelTypes, AskedOK
  <2>3. Later
    BY <2>1, Client4Assumption DEF ClientInv, CallTypes, Later
  <2>4. QueuesOK' /\ ReceiversOK'
    BY <2>1, <2>3, QueuesStay, ReceiversStay
  <2>5. CallOK'
    BY <2>1 DEF ClientInv, CallOK, Shape, ShapeAt, Expected, current
  <2> QED
    BY <2>2, <2>4, <2>5 DEF ClientInv
<1>3. CASE /\ IfUp \/ ConfigureInterface
           /\ UNCHANGED client4
  BY <1>2, <1>3, ConfigureStep
<1>4. CASE /\ pc = "done" /\ prog = "netboot" /\ ConversationToNetconfv4(conv)
           /\ UNCHANGED client4
  BY <1>2, <1>4, ConversationStep
<1>5. CASE UNCHANGED vars
  <2>1. UNCHANGED <<client4, netconfVars, pc, prog, conv>>
    BY <1>5 DEF vars, client4, caller
  <2> QED
    BY <1>2, <2>1 DEF ConfigInv, Configured, netconfVars
<1> QED
  BY <1>1, <1>3, <1>4, <1>5 DEF Next

LEMMA NetbootImplied ==
  ASSUME ClientInv, ConfigInv
  PROVE  AnswersMatch /\ Configured /\ Acknowledged
<1>1. AnswersMatch
  <2>1. SUFFICES ASSUME NEW k \in {2, 4} \cap DOMAIN conv
                 PROVE  /\ conv[k].xid = attempt
                        /\ conv[k].type = Expected(k \div 2)
                        /\ \/ conv[k].to = conv[k - 1].to
                           \/ prog # "netboot" /\ conv[k].to < conv[k - 1].to
    BY DEF AnswersMatch
  <2>2. Shape(conv) /\ conv \in Seq(Packet \cup Request)
    BY DEF ClientInv, CallOK, CallTypes
  <2>3. CASE k = 2
    <3>1. 1 \in DOMAIN conv
      BY <2>2, <2>3
    <3> QED
      BY <2>2, <2>3, <3>1 DEF Shape, ShapeAt
  <2>4. CASE k = 4
    <3>1. 3 \in DOMAIN conv
      BY <2>2, <2>4
    <3> QED
      BY <2>2, <2>4, <3>1 DEF Shape, ShapeAt
  <2> QED
    BY <2>3, <2>4
<1>2. Acknowledged
  <2>1. SUFFICES ASSUME npc = "configured"
                 PROVE  /\ conv[2].xid = attempt
                        /\ Len(conv) = 4 => conv[4].type = "ack"
                        /\ Len(conv) < 4 => attempt = Retries + 1
    BY DEF Acknowledged
  <2>2. /\ Len(conv) >= 2 /\ pc = "done" /\ prog = "netboot"
        /\ conv \in Seq(Packet \cup Request) /\ Shape(conv)
    BY <2>1 DEF ConfigInv, ClientInv, CallTypes, CallOK
  <2>3. 2 \in DOMAIN conv /\ (Len(conv) = 4 => 4 \in DOMAIN conv)
    BY <2>2
  <2> QED
    BY <2>2, <2>3 DEF ClientInv, CallOK, Shape, ShapeAt, Expected
<1> QED
  BY <1>1, <1>2 DEF ConfigInv

LEMMA NextSockets ==
  ASSUME ClientInv, SocketInv, [Next]_vars
  PROVE  SocketInv'
<1>1. CASE Client4Next
  BY <1>1, OpenSockets, CallSockets, RecvSockets, ArriveSockets DEF Client4Next
<1>2. CASE UNCHANGED client4
  BY <1>2, SocketsUnchanged
<1> QED
  BY <1>1, <1>2 DEF Next, vars

LEMMA InitSockets == Init => SocketInv
<1> SUFFICES ASSUME Init PROVE SocketInv
  OBVIOUS
<1> QED
  BY DEF Init, Client4Init, SocketInv, Numbers, Ended, Owned

LEMMA NetbootInvariance == Spec => [](ClientInv /\ ConfigInv /\ SocketInv)
<1>1. Init => ClientInv /\ ConfigInv /\ SocketInv
  BY InitNetboot, InitSockets
<1>2. (ClientInv /\ ConfigInv /\ SocketInv) /\ [Next]_vars =>
        (ClientInv /\ ConfigInv /\ SocketInv)'
  BY NextNetboot, NextSockets
<1> QED
  BY <1>1, <1>2, PTL DEF Spec

(* SendReceive puts only the answer to its own request into the            *)
(* conversation, whatever receivers of earlier attempts still run.         *)
THEOREM AnswerSafety == Spec => []AnswersMatch
<1>1. ClientInv /\ ConfigInv /\ SocketInv => AnswersMatch
  BY NetbootImplied
<1> QED
  BY NetbootInvariance, <1>1, PTL

(* An interface that ConfigureInterface has configured has the address,    *)
(* the resolver and the route of the OFFER.                                *)
THEOREM NetbootSafety == Spec => []Configured
<1>1. ClientInv /\ ConfigInv /\ SocketInv => Configured
  BY NetbootImplied
<1> QED
  BY NetbootInvariance, <1>1, PTL

(* RequestNetbootv4 gives ConfigureInterface an OFFER that no ACK followed *)
(* only after its last retry.                                              *)
THEOREM AcknowledgedSafety == Spec => []Acknowledged
<1>1. ClientInv /\ ConfigInv /\ SocketInv => Acknowledged
  BY NetbootImplied
<1> QED
  BY NetbootInvariance, <1>1, PTL

(* Between attempts and at the end of RequestNetbootv4 no descriptor is in *)
(* use that belongs to an attempt which got as far as SendReceive: the     *)
(* deferred close of Exchange closes both sockets on every path.           *)
THEOREM SocketSafety == Spec => []NoLeakedSocket
<1>1. ClientInv /\ ConfigInv /\ SocketInv => NoLeakedSocket
  <2> SUFFICES ASSUME ClientInv, SocketInv, pc \in {"open", "done"}, prog = "netboot",
                      NEW n \in FDs, fds[n] # 0, NEW i \in DOMAIN receivers
               PROVE  receivers[i].attempt # files[fds[n]].attempt
    BY DEF NoLeakedSocket
  <2>1. n \notin Ours
    BY DEF Ours
  <2> QED
    BY <2>1 DEF SocketInv, Owned
<1> QED
  BY NetbootInvariance, <1>1, PTL

(* An answer to the request being waited for is read by the receiver of    *)
(* that request, or by one of an earlier attempt whose descriptor number   *)
(* the kernel has reused for this attempt's socket; never by the receiver  *)
(* of this attempt's first request while the second one is waited for.     *)
THEOREM StealSafety == Spec => OnlyStaleSteals
<1>1. ClientInv /\ ConfigInv /\ SocketInv /\ [Next]_vars =>
        [\A i \in DOMAIN receivers :
           (pc = "wait" /\ Recv(i)) =>
             LET p == Head(files[receivers[i].file].queue)
             IN (p.xid = attempt /\ p.to = step /\ receivers[i].file = fds[rfd]) =>
                  \/ i = Len(receivers)
                  \/ receivers[i].attempt < attempt /\ receivers[i].fd = rfd]_client4
  <2> SUFFICES ASSUME ClientInv, SocketInv, NEW i \in DOMAIN receivers, pc = "wait", Recv(i),
                      receivers[i].file = fds[rfd], i # Len(receivers)
               PROVE  receivers[i].attempt < attempt /\ receivers[i].fd = rfd
    BY Zenon
  <2>1. receivers[i].st = "recv"
    BY DEF Recv
  <2>2. receivers[i].attempt # attempt
    BY <2>1 DEF SocketInv, Ended
  <2>3. receivers[i].attempt < attempt
    BY <2>2, KernelFacts
  <2>4. rfd \in FDs
    BY DEF ClientInv, CallOK
  <2> QED
    BY <2>1, <2>3, <2>4 DEF SocketInv, Numbers
<1> QED
  BY NetbootInvariance, <1>1, PTL DEF Spec, OnlyStaleSteals
=============================================================================
