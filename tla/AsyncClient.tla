---------------------------- MODULE AsyncClient ----------------------------
(***************************************************************************)
(* The asynchronous clients of dhcpv4/async/client.go and                  *)
(* dhcpv6/async/client.go, which differ only in how a transaction ID is    *)
(* read from a message: Send registers a promise under the message's       *)
(* transaction ID and queues the message, senderLoop writes queued         *)
(* messages and passes one token per message to receiverLoop, which reads  *)
(* one datagram per token and resolves the promise it belongs to.          *)
(*                                                                         *)
(* A message and its promise are named by the Send call that made them.    *)
(* receive ignores the packet it is given, so receiveQueue is a count.     *)
(***************************************************************************)
EXTENDS Integers, Sequences

CONSTANTS
  Sends,        \* calls of Send, each in a goroutine of its own
  Xids,         \* transaction IDs
  XidOf,        \* XidOf[i]: the transaction ID of the message of call i
  BufferSize,   \* the argument of Open
  NoXid,        \* a DHCPv6 datagram without a transaction ID
  Strays,       \* datagrams that arrive unasked: IDs or NoXid
  MaxStrays,    \* bound: datagrams that arrive unasked or as duplicates
  None          \* nil

Datagrams == Xids \cup {NoXid}

ASSUME AsyncAssumption ==
  /\ XidOf \in [Sends -> Xids]
  /\ BufferSize \in Nat /\ MaxStrays \in Nat
  /\ NoXid \notin Xids
  /\ Strays \subseteq Datagrams
  /\ None \notin Sends \cup Datagrams

(* No two messages carry the same transaction ID. *)
DistinctXidOf == \A i, j \in Sends : XidOf[i] = XidOf[j] => i = j

VARIABLES
  call,      \* where each Send is: "idle", "queue" or "returned"
  promise,   \* "none", "pending", "resolved" or "rejected"
  packets,   \* c.packets: the call whose promise an ID leads to
  sendQueue, \* the messages in c.sendQueue
  tokens,    \* the number of packets in c.receiveQueue
  txpc,      \* where senderLoop is
  txMsg,     \* its packet
  txP,       \* its p: the promise it would reject
  rxpc,      \* where receiverLoop is
  rxMsg,     \* the datagram it received
  socket,    \* how many copies of each datagram wait to be read
  strays,    \* how many datagrams arrived unasked
  ctx,       \* the context is cancelled
  qClosed,   \* the queues and the connection are closed
  closepc,   \* where Close is
  panic,     \* "no", or the runtime error that killed the process
  drained,   \* IgnoreErrors is set, or someone reads Errors(): never changes
  prompt,    \* the server answers every request once, before the read for it
             \* times out, and reads do not fail: never changes
  written    \* history: the messages written to the connection

sendVars  == <<call, promise, packets>>
txVars    == <<txpc, txMsg, txP>>
rxVars    == <<rxpc, rxMsg>>
netVars   == <<socket, strays, written>>
closeVars == <<ctx, qClosed, closepc>>
envVars   == <<drained, prompt>>
clientVars == <<sendVars, sendQueue, tokens, txVars, rxVars, netVars,
                closeVars, panic>>
vars == <<clientVars, envVars>>

(* Every variable has its type and no queue exceeds its capacity.          *)
TypeOK ==
  /\ call \in [Sends -> {"idle", "queue", "returned"}]
  /\ promise \in [Sends -> {"none", "pending", "resolved", "rejected"}]
  /\ packets \in [Xids -> Sends \cup {None}]
  /\ sendQueue \in Seq(Sends) /\ Len(sendQueue) <= BufferSize
  /\ tokens \in 0..BufferSize
  /\ txpc \in {"select", "lookup", "write", "push", "exited"}
  /\ txMsg \in Sends \cup {None} /\ txP \in Sends \cup {None}
  /\ rxpc \in {"select", "read", "lookup", "error", "exited"}
  /\ rxMsg \in Datagrams \cup {None}
  /\ socket \in [Datagrams -> Nat] /\ strays \in 0..MaxStrays
  /\ ctx \in BOOLEAN /\ qClosed \in BOOLEAN
  /\ closepc \in {"idle", "wait", "returned"}
  /\ panic \in {"no", "closed queue", "nil promise"}
  /\ drained \in BOOLEAN /\ prompt \in BOOLEAN
  /\ written \subseteq Sends

(* Open. *)
Init ==
  /\ call = [i \in Sends |-> "idle"]
  /\ promise = [i \in Sends |-> "none"]
  /\ packets = [x \in Xids |-> None]
  /\ sendQueue = <<>> /\ tokens = 0
  /\ txpc = "select" /\ txMsg = None /\ txP = None
  /\ rxpc = "select" /\ rxMsg = None
  /\ socket = [d \in Datagrams |-> 0] /\ strays = 0
  /\ ctx = FALSE /\ qClosed = FALSE /\ closepc = "idle"
  /\ panic = "no"
  /\ drained \in BOOLEAN /\ prompt \in BOOLEAN
  /\ written = {}

-----------------------------------------------------------------------------
(* Send.                                                                   *)

(* The locked part: a new promise takes the place of any older one.        *)
SendRegister(i) ==
  /\ call[i] = "idle"
  /\ call' = [call EXCEPT ![i] = "queue"]
  /\ promise' = [promise EXCEPT ![i] = "pending"]
  /\ packets' = [packets EXCEPT ![XidOf[i]] = i]
  /\ UNCHANGED <<sendQueue, tokens, txVars, rxVars, netVars, closeVars, panic>>

(* c.sendQueue <- message: blocks while the queue is full, needs senderLoop *)
(* in its select if it is unbuffered, and panics once the queue is closed. *)
SendQueue(i) ==
  /\ call[i] = "queue"
  /\ IF qClosed
       THEN panic' = "closed queue" /\ UNCHANGED <<call, sendQueue, txpc, txMsg>>
       ELSE /\ call' = [call EXCEPT ![i] = "returned"]
            /\ IF BufferSize = 0
                 THEN /\ txpc = "select" /\ txpc' = "lookup" /\ txMsg' = i
                      /\ UNCHANGED sendQueue
                 ELSE /\ Len(sendQueue) < BufferSize
                      /\ sendQueue' = Append(sendQueue, i)
                      /\ UNCHANGED <<txpc, txMsg>>
            /\ UNCHANGED panic
  /\ UNCHANGED <<promise, packets, tokens, txP, rxVars, netVars, closeVars>>

-----------------------------------------------------------------------------
(* senderLoop and send.                                                    *)

(* Reject and Resolve settle a promise once; a nil promise is a panic.     *)
Settle(p, r) ==
  IF p = None
  THEN panic' = "nil promise" /\ UNCHANGED promise
  ELSE /\ promise' = [promise EXCEPT ![p] = IF @ = "pending" THEN r ELSE @]
       /\ UNCHANGED panic

(* Mutant: cancellation is noticed only when the queue is empty.           *)
TxExitDrained ==
  /\ txpc = "select" /\ ctx /\ sendQueue = <<>> /\ tokens = 0
  /\ txpc' = "exited"
  /\ UNCHANGED <<sendVars, sendQueue, tokens, txMsg, txP, rxVars, netVars,
                 closeVars, panic>>

TxExit ==
  /\ txpc = "select" /\ ctx
  /\ txpc' = "exited"
  /\ UNCHANGED <<sendVars, sendQueue, tokens, txMsg, txP, rxVars, netVars,
                 closeVars, panic>>

TxTake ==
  /\ txpc = "select" /\ sendQueue # <<>>
  /\ sendQueue' = Tail(sendQueue)
  /\ txpc' = "lookup" /\ txMsg' = Head(sendQueue)
  /\ UNCHANGED <<sendVars, tokens, txP, rxVars, netVars, closeVars, panic>>

(* The locked lookup of the promise: nil if the ID has no entry.           *)
TxLookup ==
  /\ txpc = "lookup"
  /\ txpc' = "write" /\ txP' = packets[XidOf[txMsg]]
  /\ UNCHANGED <<sendVars, sendQueue, tokens, txMsg, rxVars, netVars,
                 closeVars, panic>>

(* WriteTo succeeds; a prompt server answers at once.                      *)
TxWrite ==
  /\ txpc = "write"
  /\ txpc' = "push"
  /\ written' = written \cup {txMsg}
  /\ socket' = IF prompt THEN [socket EXCEPT ![XidOf[txMsg]] = @ + 1] ELSE socket
  /\ UNCHANGED <<sendVars, sendQueue, tokens, txMsg, txP, rxVars, strays,
                 closeVars, panic>>

(* Mutant: the error is handed to Resolve.                                 *)
TxFailResolves ==
  /\ txpc = "write"
  /\ Settle(txP, "resolved")
  /\ txpc' = "select" /\ txMsg' = None /\ txP' = None
  /\ UNCHANGED <<call, packets, sendQueue, tokens, rxVars, netVars, closeVars>>

(* The remote address is not usable or WriteTo fails: the promise is       *)
(* rejected; its entry stays.                                              *)
TxFail ==
  /\ txpc = "write"
  /\ Settle(txP, "rejected")
  /\ txpc' = "select" /\ txMsg' = None /\ txP' = None
  /\ UNCHANGED <<call, packets, sendQueue, tokens, rxVars, netVars, closeVars>>

(* Mutant: the token is dropped when the queue is full.                    *)
TxPushOrDrop ==
  /\ txpc = "push"
  /\ tokens' = IF tokens < BufferSize THEN tokens + 1 ELSE tokens
  /\ UNCHANGED rxpc
  /\ txpc' = "select" /\ txMsg' = None /\ txP' = None
  /\ UNCHANGED <<sendVars, sendQueue, rxMsg, netVars, closeVars, panic>>

(* c.receiveQueue <- packet.                                               *)
TxPush ==
  /\ txpc = "push"
  /\ IF BufferSize = 0
       THEN rxpc = "select" /\ rxpc' = "read" /\ UNCHANGED tokens
       ELSE tokens < BufferSize /\ tokens' = tokens + 1 /\ UNCHANGED rxpc
  /\ txpc' = "select" /\ txMsg' = None /\ txP' = None
  /\ UNCHANGED <<sendVars, sendQueue, rxMsg, netVars, closeVars, panic>>

-----------------------------------------------------------------------------
(* receiverLoop and receive.                                               *)

RxGoto(l) ==
  /\ rxpc' = l
  /\ UNCHANGED <<sendQueue, txVars, strays, written, closeVars>>

RxExit ==
  /\ rxpc = "select" /\ ctx
  /\ RxGoto("exited")
  /\ UNCHANGED <<sendVars, tokens, rxMsg, socket, panic>>

RxTake ==
  /\ rxpc = "select" /\ tokens > 0
  /\ tokens' = tokens - 1
  /\ RxGoto("read")
  /\ UNCHANGED <<sendVars, rxMsg, socket, panic>>

(* ReadMsgUDP returns a DHCP message.  One without a transaction ID is an  *)
(* error to report.  Datagrams that are not DHCP do not leave the loop and *)
(* do not extend its deadline: they are left out.                          *)
RxRead(d) ==
  /\ rxpc = "read" /\ socket[d] > 0
  /\ socket' = [socket EXCEPT ![d] = @ - 1]
  /\ IF d = NoXid THEN RxGoto("error") /\ UNCHANGED rxMsg
                  ELSE RxGoto("lookup") /\ rxMsg' = d
  /\ UNCHANGED <<sendVars, tokens, panic>>

(* The deadline passes: the token is spent without an answer.              *)
RxTimeout ==
  /\ rxpc = "read"
  /\ prompt => \A d \in Datagrams : socket[d] = 0
  /\ RxGoto("select")
  /\ UNCHANGED <<sendVars, tokens, rxMsg, socket, panic>>

(* Any other read error.                                                   *)
RxError ==
  /\ rxpc = "read" /\ ~prompt
  /\ RxGoto("error")
  /\ UNCHANGED <<sendVars, tokens, rxMsg, socket, panic>>

(* addError: c.errors is unbuffered and blocks until it is read.           *)
RxAddError ==
  /\ rxpc = "error" /\ drained
  /\ RxGoto("select")
  /\ UNCHANGED <<sendVars, tokens, rxMsg, socket, panic>>

(* Mutant: the entry is removed but its promise is not resolved.           *)
RxResolveForgets ==
  /\ rxpc = "lookup"
  /\ packets' = [packets EXCEPT ![rxMsg] = None]
  /\ RxGoto("select") /\ rxMsg' = None
  /\ UNCHANGED <<call, promise, panic, tokens, socket>>

(* Mutant: the lookup's ok is not tested.                                  *)
RxResolveUnchecked ==
  /\ rxpc = "lookup"
  /\ packets' = [packets EXCEPT ![rxMsg] = None]
  /\ Settle(packets[rxMsg], "resolved")
  /\ RxGoto("select") /\ rxMsg' = None
  /\ UNCHANGED <<call, tokens, socket>>

(* The locked part: the entry, if there is one, is removed and resolved.   *)
RxResolve ==
  /\ rxpc = "lookup"
  /\ IF packets[rxMsg] # None
       THEN /\ packets' = [packets EXCEPT ![rxMsg] = None]
            /\ Settle(packets[rxMsg], "resolved")
       ELSE UNCHANGED <<packets, promise, panic>>
  /\ RxGoto("select") /\ rxMsg' = None
  /\ UNCHANGED <<call, tokens, socket>>

-----------------------------------------------------------------------------
(* Close, called once, and the network.                                    *)

CloseCancel ==
  /\ closepc = "idle"
  /\ closepc' = "wait" /\ ctx' = TRUE
  /\ UNCHANGED <<sendVars, sendQueue, tokens, txVars, rxVars, netVars, qClosed, panic>>

(* stopping.Wait, and the closes that only a Send can notice.              *)
CloseQueues ==
  /\ closepc = "wait" /\ txpc = "exited" /\ rxpc = "exited"
  /\ closepc' = "returned" /\ qClosed' = TRUE
  /\ UNCHANGED <<sendVars, sendQueue, tokens, txVars, rxVars, netVars, ctx, panic>>

Arrive(d) ==
  /\ strays < MaxStrays
  /\ strays' = strays + 1
  /\ socket' = [socket EXCEPT ![d] = @ + 1]
  /\ UNCHANGED <<sendVars, sendQueue, tokens, txVars, rxVars, written,
                 closeVars, panic>>

(* The server answers a request it got, perhaps again, perhaps late.       *)
Reply(i) == ~prompt /\ i \in written /\ Arrive(XidOf[i])

Stray(d) == Arrive(d)

-----------------------------------------------------------------------------
Next ==
  /\ panic = "no"
  /\ UNCHANGED envVars
  /\ \/ \E i \in Sends : SendRegister(i) \/ SendQueue(i) \/ Reply(i)
     \/ TxExit \/ TxTake \/ TxLookup \/ TxWrite \/ TxFail \/ TxPush
     \/ RxExit \/ RxTake \/ RxTimeout \/ RxError \/ RxAddError \/ RxResolve
     \/ \E d \in Datagrams : RxRead(d)
     \/ \E d \in Strays : Stray(d)
     \/ CloseCancel \/ CloseQueues

Spec == Init /\ [][Next]_vars

(* Fairness: every goroutine that can run does, a read returns by its      *)
(* deadline, and a select whose ctx.Done case is ready again and again     *)
(* picks it at some point, since select chooses among ready cases at       *)
(* random.  Nothing is assumed of the network or of calls to Close.        *)
Fairness ==
  /\ \A i \in Sends : WF_clientVars(SendQueue(i))
  /\ WF_clientVars(TxTake \/ TxLookup \/ TxWrite \/ TxFail \/ TxPush)
  /\ WF_clientVars(\/ RxTake \/ RxTimeout \/ RxAddError \/ RxResolve
                   \/ \E d \in Datagrams : RxRead(d))
  /\ SF_clientVars(TxExit) /\ SF_clientVars(RxExit)
  /\ WF_clientVars(CloseQueues)

FairSpec == Spec /\ Fairness

-----------------------------------------------------------------------------
Settled(i) == promise[i] \in {"resolved", "rejected"}

(* With distinct transaction IDs no promise is orphaned: until it is       *)
(* settled, the map leads from its ID to it, so a reply that is read       *)
(* resolves it (lines 177-182 and 204-206).  Of those that are settled,    *)
(* only the rejected ones (line 141) leave their entry behind.             *)
Tracked ==
  /\ \A i \in Sends : promise[i] = "pending" => packets[XidOf[i]] = i
  /\ \A x \in Xids : packets[x] # None => promise[packets[x]] \in {"pending", "rejected"}

(* send (lines 136-149) and receive (178-181) never use a nil promise,     *)
(* although the lookup and the use are apart and the receiver removes      *)
(* entries in between; the only panic is that of a Send which has not yet  *)
(* queued its message when Close has closed the queue (line 92).           *)
OnlySendPanics ==
  /\ panic # "nil promise"
  /\ panic = "closed queue" => closepc = "returned" /\ \E i \in Sends : call[i] = "queue"

(* A promise is resolved only if its message was written, and rejected     *)
(* only if it was not: the answer of one message never settles another's.  *)
SettledAsSent ==
  \A i \in Sends : /\ promise[i] = "resolved" => i \in written
                   /\ promise[i] = "rejected" => i \notin written

(* The two ways in which a loop stays where it is without looking at ctx:  *)
(* senderLoop waits for room that receiverLoop, gone already, would make   *)
(* (line 152), or receiverLoop waits for a reader of Errors() (line 106).  *)
LoopStuck ==
  \/ txpc = "push" /\ rxpc = "exited"
  \/ rxpc = "error" /\ ~drained

(* Close stops the client (line 85) in every other case: the loops cannot  *)
(* miss ctx.Done, keep each other busy for ever, or wait for each other in *)
(* any third way.                                                          *)
CloseStopsOrStuck == closepc # "idle" ~> closepc = "returned" \/ LoopStuck

(* The future of Send settles (line 197) if the client is not closed, the  *)
(* server answers in time and nothing else arrives: there are as many      *)
(* reads as replies, and no token, reply or promise is lost between the    *)
(* two loops, their queues and the map.                                    *)
FutureSettles ==
  prompt /\ [](~ctx /\ strays = 0) =>
    \A i \in Sends : call[i] = "returned" ~> Settled(i)
=============================================================================
