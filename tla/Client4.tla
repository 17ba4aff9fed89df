------------------------------ MODULE Client4 -------------------------------
(***************************************************************************)
(* The synchronous DHCPv4 client (dhcpv4/client4/client.go), used by       *)
(* netboot.RequestNetbootv4, which retries, and by the BSDP client         *)
(* (dhcpv4/bsdp/client.go).  SendReceive starts a goroutine that receives  *)
(* from a raw socket, sends the request and waits for the goroutine or for *)
(* a timer.  The goroutine knows its socket by number: the kernel gives    *)
(* the number to another file once it was closed, while a recvfrom that is *)
(* blocked stays with the file that it was called for.                     *)
(***************************************************************************)
EXTENDS Integers, Sequences, FiniteSets

CONSTANTS
  Programs,    \* "netboot", "bsdp" and "bsdp0", which is bsdp.NewClient()
  Retries,     \* how many attempts may follow the first
  FDs,         \* the file descriptors, 1..n
  MaxPackets   \* bound on the packets that arrive

ASSUME Client4Assumption ==
  /\ Programs \subseteq {"netboot", "bsdp", "bsdp0"}
  /\ Retries \in Nat
  /\ FDs = 1..Cardinality(FDs)
  /\ MaxPackets \in Nat

VARIABLES
  prog, pc, attempt,
  step,        \* 1 or 2: the first or the second SendReceive
  sfd, rfd,    \* the sockets of this attempt
  fds,         \* the file of each descriptor, 0 if it is free
  files,       \* the files: kind, the attempt that opened it, receive queue
  receivers,   \* the goroutines, in the order of their start
  conv,        \* the conversation of the last attempt
  asked,       \* the requests that were sent
  packets      \* the number of packets so far

kernel == <<fds, files>>
caller == <<prog, pc, attempt, step, sfd, rfd, conv>>
client4 == <<caller, kernel, receivers, asked, packets>>

Client4Init ==
  /\ prog \in Programs
  /\ pc = "open" /\ attempt = 1 /\ step = 1
  /\ sfd = 0 /\ rfd = 0
  /\ fds = [n \in FDs |-> 0] /\ files = <<>>
  /\ receivers = <<>> /\ conv = <<>> /\ asked = {} /\ packets = 0

-----------------------------------------------------------------------------
(* Sockets.                                                                *)

(* The kernel hands out the lowest descriptor that is free.                *)
Free(n) == fds[n] = 0 /\ \A m \in FDs : m < n => fds[m] # 0

Socket(kind, n) ==
  /\ Free(n)
  /\ fds' = [fds EXCEPT ![n] = Len(files) + 1]
  /\ files' = Append(files, [kind |-> kind, attempt |-> attempt, queue |-> <<>>])

(* A file lives while it has a descriptor or somebody waits for it.        *)
Live(id) ==
  \/ \E n \in FDs : fds[n] = id
  \/ \E i \in DOMAIN receivers : receivers[i].st = "recv" /\ receivers[i].file = id

(* Mutant: only the sending socket is closed.                              *)
CloseSender == fds' = [fds EXCEPT ![sfd] = 0]

(* The deferred close of client4's Exchange; bsdp's Exchange has none.     *)
Close == fds' = IF prog = "netboot" THEN [fds EXCEPT ![sfd] = 0, ![rfd] = 0] ELSE fds

(* Mutant: the messages of a failed attempt are kept.                      *)
FailedKeeps(c) ==
  /\ conv' = c
  /\ IF attempt > Retries THEN pc' = "done" /\ UNCHANGED <<attempt, step>>
     ELSE pc' = "open" /\ attempt' = attempt + 1 /\ step' = 1

(* Exchange returns an error and the messages so far.  RequestNetbootv4    *)
(* tries again, up to its number of retries; then it returns the messages  *)
(* of the last attempt, without the error.                                 *)
Failed(c) ==
  IF attempt > Retries
  THEN pc' = "done" /\ conv' = c /\ UNCHANGED <<attempt, step>>
  ELSE pc' = "open" /\ attempt' = attempt + 1 /\ step' = 1 /\ conv' = <<>>

-----------------------------------------------------------------------------
(* Exchange and SendReceive.                                               *)

(* MakeBroadcastSocket.  It returns an error without a socket, or, when an *)
(* option cannot be set, with one that nobody closes.                      *)
OpenSender ==
  /\ pc = "open"
  /\ \/ /\ \E n \in FDs : Socket("send", n) /\ sfd' = n
        /\ pc' = "listen" /\ UNCHANGED <<attempt, step, conv>>
     \/ Failed(conv) /\ UNCHANGED <<kernel, sfd>>
     \/ (\E n \in FDs : Socket("send", n)) /\ Failed(conv) /\ UNCHANGED sfd
  /\ UNCHANGED <<prog, rfd, receivers, asked, packets>>

(* makeListeningSocketWithCustomPort.  The deferred close comes after it.  *)
Listen ==
  /\ pc = "listen"
  /\ \/ /\ \E n \in FDs : Socket("recv", n) /\ rfd' = n
        /\ pc' = "send" /\ UNCHANGED <<attempt, step, conv>>
     \/ Failed(conv) /\ UNCHANGED <<kernel, rfd>>
     \/ (\E n \in FDs : Socket("recv", n)) /\ Failed(conv) /\ UNCHANGED rfd
  /\ UNCHANGED <<prog, sfd, receivers, asked, packets>>

(* The type of the answer that is waited for.                              *)
Expected(s) == IF prog = "netboot" /\ s = 1 THEN "offer" ELSE "ack"

(* The request cannot be built.                                            *)
NoRequest ==
  /\ pc = "send"
  /\ Close
  /\ Failed(conv)
  /\ UNCHANGED <<prog, sfd, rfd, files, receivers, asked, packets>>

(* The goroutine is started and the request sent, if sendto succeeds.  All *)
(* requests of an attempt have its transaction ID.                         *)
Send ==
  LET sent == Append(conv, [xid |-> attempt, type |-> "request", to |-> step])
  IN /\ pc = "send"
     /\ receivers' = Append(receivers,
          [attempt |-> attempt, step |-> step, fd |-> rfd, st |-> "start", file |-> 0,
           err |-> "none", response |-> 0])
     /\ \/ /\ conv' = sent
           /\ asked' = asked \cup {[xid |-> attempt, to |-> step]}
           /\ pc' = "wait"
           /\ UNCHANGED <<attempt, step, fds>>
        \/ Close /\ Failed(sent) /\ UNCHANGED asked
     /\ UNCHANGED <<prog, sfd, rfd, files, packets>>

current == receivers[Len(receivers)]

(* select: the goroutine's result.                                         *)
Result ==
  /\ pc = "wait" /\ current.err # "none"
  /\ \/ /\ current.err = "nil" /\ step = 1
        /\ conv' = Append(conv, current.response)
        /\ pc' = "send" /\ step' = 2
        /\ UNCHANGED <<attempt, fds>>
     \/ /\ current.err = "nil" /\ step = 2
        /\ conv' = Append(conv, current.response)
        /\ pc' = "done"
        /\ Close
        /\ UNCHANGED <<attempt, step>>
     \/ current.err # "nil" /\ Close /\ Failed(conv)
  /\ UNCHANGED <<prog, sfd, rfd, files, receivers, asked, packets>>

(* Mutant: the request is sent again, with another receiver.               *)
TimerSendsAgain ==
  /\ pc = "wait" /\ Len(receivers) < Retries + 3
  /\ receivers' = Append(receivers, [current EXCEPT !.st = "start"])
  /\ UNCHANGED <<caller, kernel, asked, packets>>

(* select: time.After(c.ReadTimeout).                                      *)
Timer ==
  /\ pc = "wait"
  /\ Close
  /\ Failed(conv)
  /\ UNCHANGED <<prog, sfd, rfd, files, receivers, asked, packets>>

-----------------------------------------------------------------------------
(* The receiving goroutine.                                                *)

(* Mutant: recvErrors has no buffer, so that somebody must be waiting.     *)
ReportUnbuffered(i, e, p) ==
  /\ pc = "wait" /\ i = Len(receivers)
  /\ receivers' = [receivers EXCEPT ![i].st = "ended", ![i].err = e, ![i].response = p]

(* errs <- e; the channel has room for the one value that is sent.         *)
Report(i, e, p) ==
  receivers' = [receivers EXCEPT ![i].st = "ended", ![i].err = e, ![i].response = p]

(* recvfrom is called with whatever file the number has now.               *)
Enter(i) ==
  /\ receivers[i].st = "start"
  /\ LET id == fds[receivers[i].fd]
     IN IF id = 0 THEN Report(i, "error", 0)
        ELSE receivers' = [receivers EXCEPT ![i].st = "recv", ![i].file = id]
  /\ UNCHANGED <<caller, kernel, asked, packets>>

(* Mutant: the transaction ID is not compared.                             *)
MatchesType(r, p) == p.reply /\ p.type = Expected(r.step)

Matches(r, p) == p.xid = r.attempt /\ p.reply /\ p.type = Expected(r.step)

(* A packet: one that cannot be decoded ends the call, one that does not   *)
(* match is skipped.                                                       *)
Recv(i) ==
  /\ receivers[i].st = "recv"
  /\ LET id == receivers[i].file
         p == Head(files[id].queue)
     IN /\ files[id].queue # <<>>
        /\ files' = [files EXCEPT ![id].queue = Tail(@)]
        /\ \/ p.type = "junk" /\ Report(i, "error", 0)
           \/ p.type # "junk" /\ Matches(receivers[i], p) /\ Report(i, "nil", p)
           \/ /\ p.type # "junk" /\ ~Matches(receivers[i], p)
              /\ receivers' = [receivers EXCEPT ![i].st = "start"]
  /\ UNCHANGED <<caller, fds, asked, packets>>

(* SO_RCVTIMEO, which 0 turns off.                                         *)
Expire(i) ==
  /\ receivers[i].st = "recv" /\ prog # "bsdp0"
  /\ files[receivers[i].file].queue = <<>>
  /\ Report(i, "EAGAIN", 0)
  /\ UNCHANGED <<caller, kernel, asked, packets>>

-----------------------------------------------------------------------------
(* The network.  A server answers a request, perhaps more than once and    *)
(* late; other packets between the two ports are answers for others and    *)
(* packets that are no DHCP.                                               *)

Arrives(p) ==
  /\ packets < MaxPackets
  /\ packets' = packets + 1
  /\ files' = [id \in DOMAIN files |->
       IF Live(id) /\ files[id].kind = "recv" THEN [files[id] EXCEPT !.queue = Append(@, p)]
       ELSE files[id]]
  /\ UNCHANGED <<caller, fds, receivers, asked>>

Answers(q) ==
  {[xid |-> q.xid, to |-> q.to, reply |-> TRUE, type |-> t] :
     t \in IF q.to = 2 /\ prog = "netboot" THEN {"ack", "nak"} ELSE {Expected(q.to)}}
Others ==
  {[xid |-> 0, to |-> 0, reply |-> r, type |-> "ack"] : r \in BOOLEAN}
  \cup {[xid |-> 0, to |-> 0, reply |-> TRUE, type |-> "junk"]}

Client4Next ==
  \/ OpenSender \/ Listen \/ NoRequest \/ Send \/ Result \/ Timer
  \/ \E i \in DOMAIN receivers : Enter(i) \/ Recv(i) \/ Expire(i)
  \/ \E p \in (UNION {Answers(q) : q \in asked}) \cup Others : Arrives(p)

(* The caller and its timer, and the goroutines with theirs, go on.        *)
Client4Fairness ==
  /\ WF_client4(OpenSender \/ Listen \/ NoRequest \/ Send \/ Result)
  /\ WF_client4(Timer)
  /\ \A i \in 1..(2 * (Retries + 1)) :
       WF_client4(i \in DOMAIN receivers /\ (Enter(i) \/ Recv(i) \/ Expire(i)))

-----------------------------------------------------------------------------
(* Properties.                                                             *)

(* SendReceive: an answer in the conversation has the transaction ID of    *)
(* its request, the type that was waited for, and answers that request,    *)
(* whatever receivers are left over and whatever else arrives.  In BSDP    *)
(* both answers are ACKs with one transaction ID, and the ACK of the list, *)
(* duplicated, is taken for that of the selection.                         *)
AnswersMatch ==
  \A k \in {2, 4} \cap DOMAIN conv :
    /\ conv[k].xid = attempt
    /\ conv[k].type = Expected(k \div 2)
    /\ conv[k].to = conv[k - 1].to \/ (prog # "netboot" /\ conv[k].to < conv[k - 1].to)

(* Exchange closes what it opened: between attempts and at the end, no     *)
(* descriptor is in use that belongs to an attempt which got as far as     *)
(* SendReceive.  The exceptions are attempts in which a socket could not   *)
(* be opened or set up, and BSDP exchanges, which close nothing.           *)
NoLeakedSocket ==
  (pc \in {"open", "done"} /\ prog = "netboot") =>
    \A n \in FDs : fds[n] # 0 =>
      ~\E i \in DOMAIN receivers : receivers[i].attempt = files[fds[n]].attempt

(* A packet that answers the request being waited for is taken by the      *)
(* receiver of that request.  The exception is a receiver that outlived    *)
(* the timeout of an earlier attempt, and whose descriptor number now      *)
(* stands for the socket of this one: it takes the answer and drops it.    *)
OnlyStaleSteals ==
  [][\A i \in DOMAIN receivers :
       (pc = "wait" /\ Recv(i)) =>
         LET p == Head(files[receivers[i].file].queue)
         IN (p.xid = attempt /\ p.to = step /\ receivers[i].file = fds[rfd]) =>
              \/ i = Len(receivers)
              \/ receivers[i].attempt < attempt /\ receivers[i].fd = rfd]_client4

(* When the packets stop, every receiver ends, also those that nobody      *)
(* waits for any more, and the caller returns.  The exception is the       *)
(* client that bsdp.NewClient makes: its ReadTimeout is 0, which for       *)
(* SO_RCVTIMEO means to wait for ever.                                     *)
ReceiversEnd ==
  (prog # "bsdp0" /\ attempt = 1 /\ pc = "listen") ~>
    (pc = "done" /\ \A i \in DOMAIN receivers : receivers[i].st = "ended")
=============================================================================
