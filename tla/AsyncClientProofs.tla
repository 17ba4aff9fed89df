------------------------- MODULE AsyncClientProofs -------------------------
(***************************************************************************)
(* What becomes of the promises of the asynchronous clients, for any       *)
(* number of Sends and any queue size.  The messages on their way from     *)
(* Send to WriteTo are the ones whose promise is pending and that no       *)
(* datagram answers yet; so the promise senderLoop looks up is still there *)
(* when the write fails, and a reply finds a promise whose message went    *)
(* out.                                                                    *)
(***************************************************************************)
EXTENDS AsyncClient, SequenceTheorems, TLAPS

(* TypeOK in two parts: the provers like Boolean variables best alone.     *)
FlagsOK == ctx \in BOOLEAN /\ qClosed \in BOOLEAN /\ drained \in BOOLEAN /\ prompt \in BOOLEAN

DataOK ==
  /\ call \in [Sends -> {"idle", "queue", "returned"}]
  /\ promise \in [Sends -> {"none", "pending", "resolved", "rejected"}]
  /\ packets \in [Xids -> Sends \cup {None}]
  /\ sendQueue \in Seq(Sends) /\ Len(sendQueue) <= BufferSize
  /\ tokens \in 0..BufferSize
  /\ txpc \in {"select", "lookup", "write", "push", "exited"}
  /\ txMsg \in Sends \cup {None} /\ txP \in Sends \cup {None}
  /\ rxpc \in {"select", "read", "lookup", "error", "exited"}
  /\ rxMsg \in Datagrams \cup {None}
  /\ socket \in [Datagrams -> Nat] /\ strays \in 0..MaxStrays
  /\ closepc \in {"idle", "wait", "returned"}
  /\ panic \in {"no", "closed queue", "nil promise"}
  /\ written \subseteq Sends

(* Nothing that arrives unasked carries the ID of a message. *)
Unasked == \A i \in Sends : XidOf[i] \notin Strays

(* A promise exists from the registration on; only a message that Send has *)
(* queued can be written.                                                  *)
CallInv ==
  \A i \in Sends :
    /\ call[i] = "idle" <=> promise[i] = "none"
    /\ call[i] = "queue" => promise[i] = "pending"
    /\ i \in written => call[i] = "returned"

(* A message that was queued and is not written yet. *)
Waiting(i) == call[i] = "returned" /\ promise[i] = "pending" /\ i \notin written

(* The queue holds each such message once, and not the one being sent.     *)
QueueInv ==
  /\ \A m, n \in 1..Len(sendQueue) : sendQueue[m] = sendQueue[n] => m = n
  /\ \A n \in 1..Len(sendQueue) : Waiting(sendQueue[n])
  /\ txpc \in {"lookup", "write"} => \A n \in 1..Len(sendQueue) : sendQueue[n] # txMsg

(* The message senderLoop has taken, and the promise it has looked up. *)
TxInv ==
  /\ txpc \in {"lookup", "write", "push"} => txMsg \in Sends
  /\ txpc \in {"lookup", "write"} => Waiting(txMsg)
  /\ txpc = "write" => txP = txMsg

(* No datagram answers a message that was not written. *)
NetInv ==
  /\ \A i \in Sends : i \notin written => socket[XidOf[i]] = 0 /\ rxMsg # XidOf[i]
  /\ rxpc = "lookup" => rxMsg \in Xids

MapInv == \A x \in Xids : packets[x] # None => XidOf[packets[x]] = x

CloseInv == qClosed => closepc = "returned"

AsyncInv ==
  /\ FlagsOK /\ DataOK /\ CallInv /\ QueueInv /\ TxInv /\ NetInv /\ MapInv /\ CloseInv
  /\ Tracked /\ SettledAsSent /\ OnlySendPanics

USE DEF sendVars, txVars, rxVars, netVars, closeVars

LEMMA Types == FlagsOK /\ DataOK => TypeOK
BY Zenon DEF FlagsOK, DataOK, TypeOK

LEMMA KeepsFlags ==
  ASSUME FlagsOK, UNCHANGED envVars, UNCHANGED <<ctx, qClosed>>
  PROVE  FlagsOK'
BY DEF FlagsOK, envVars

(* The types after a step of receiverLoop or of the network. *)
LEMMA KeepsData ==
  ASSUME DataOK, UNCHANGED <<call, promise, packets, sendQueue, txpc, txMsg, txP>>,
         UNCHANGED <<closepc, panic, written>>,
         tokens' \in 0..BufferSize,
         rxpc' \in {"select", "read", "lookup", "error", "exited"},
         rxMsg' \in Datagrams \cup {None},
         socket' \in [Datagrams -> Nat], strays' \in 0..MaxStrays
  PROVE  DataOK'
BY Zenon DEF DataOK

LEMMA InitAsync == Init => AsyncInv
<1> SUFFICES ASSUME Init PROVE AsyncInv
  OBVIOUS
<1> USE AsyncAssumption DEF Init
<1>1. DataOK
  BY EmptySeq DEF DataOK, Datagrams
<1>5. FlagsOK
  BY Zenon DEF FlagsOK
<1>2. CallInv /\ QueueInv /\ TxInv /\ MapInv /\ CloseInv
  BY DEF CallInv, QueueInv, TxInv, MapInv, CloseInv
<1>3. NetInv
  BY DEF NetInv, Datagrams
<1>4. Tracked /\ SettledAsSent /\ OnlySendPanics
  BY DEF Tracked, SettledAsSent, OnlySendPanics
<1> QED
  BY <1>1, <1>2, <1>3, <1>4, <1>5 DEF AsyncInv

LEMMA RegisterStep ==
  ASSUME DistinctXidOf, AsyncInv, panic = "no", UNCHANGED envVars,
         NEW i \in Sends, SendRegister(i)
  PROVE  AsyncInv'
<1>1. /\ \A j \in Sends \ {i} : call'[j] = call[j] /\ promise'[j] = promise[j]
      /\ call[i] = "idle" /\ call'[i] = "queue"
      /\ promise[i] = "none" /\ promise'[i] = "pending"
      /\ i \notin written
      /\ UNCHANGED <<sendQueue, txpc, txMsg, txP, written, socket, rxpc, rxMsg, panic>>
      /\ UNCHANGED <<closepc, qClosed>>
  BY DEF AsyncInv, DataOK, CallInv, SendRegister
<1>2. XidOf[i] \in Xids /\ XidOf \in [Sends -> Xids] /\ i # None
  BY AsyncAssumption
<1>3. /\ packets'[XidOf[i]] = i
      /\ \A x \in Xids \ {XidOf[i]} : packets'[x] = packets[x]
  BY <1>2 DEF AsyncInv, DataOK, SendRegister
<1>4. FlagsOK' /\ DataOK'
  <2>1. FlagsOK'
    BY KeepsFlags DEF AsyncInv, SendRegister
  <2>2. DataOK'
    BY <1>2 DEF AsyncInv, DataOK, SendRegister
  <2> QED
    BY <2>1, <2>2
<1>5. CallInv' /\ SettledAsSent'
  BY <1>1 DEF AsyncInv, CallInv, SettledAsSent
<1>6. \A j \in Sends : Waiting(j) => Waiting(j)'
  BY <1>1 DEF Waiting
<1>7. QueueInv' /\ TxInv'
  BY <1>1, <1>6 DEF AsyncInv, DataOK, QueueInv, TxInv
<1>8. NetInv' /\ CloseInv' /\ OnlySendPanics'
  BY <1>1 DEF AsyncInv, NetInv, CloseInv, OnlySendPanics
<1>9. MapInv'
  BY <1>2, <1>3 DEF AsyncInv, MapInv
<1>10. Tracked'
  <2>1. \A j \in Sends : promise'[j] = "pending" => packets'[XidOf[j]] = j
    BY <1>1, <1>2, <1>3 DEF AsyncInv, Tracked, DistinctXidOf
  <2>2. ASSUME NEW x \in Xids, packets'[x] # None
        PROVE  promise'[packets'[x]] \in {"pending", "rejected"}
    <3>1. CASE x = XidOf[i]
      BY <1>1, <1>3, <3>1
    <3>2. CASE x # XidOf[i]
      <4>1. packets'[x] = packets[x] /\ packets[x] \in Sends
        BY <1>3, <2>2, <3>2 DEF AsyncInv, DataOK
      <4>2. promise[packets[x]] \in {"pending", "rejected"}
        BY <2>2, <4>1 DEF AsyncInv, Tracked
      <4> QED
        BY <1>1, <4>1, <4>2
    <3> QED
      BY <3>1, <3>2
  <2> QED
    BY <2>1, <2>2 DEF Tracked
<1> QED
  BY <1>4, <1>5, <1>7, <1>8, <1>9, <1>10 DEF AsyncInv

-----------------------------------------------------------------------------
(* Steps that leave parts of the state alone.                              *)

LEMMA KeepsMap ==
  ASSUME AsyncInv, UNCHANGED <<call, promise, packets, written, socket, rxMsg>>,
         rxpc' \in {rxpc, "select", "read", "error", "exited"}
  PROVE  CallInv' /\ NetInv' /\ MapInv' /\ Tracked' /\ SettledAsSent'
BY DEF AsyncInv, CallInv, NetInv, MapInv, Tracked, SettledAsSent

LEMMA KeepsTx ==
  ASSUME AsyncInv, UNCHANGED <<call, promise, written, sendQueue, txpc, txMsg, txP>>
  PROVE  QueueInv' /\ TxInv'
BY DEF AsyncInv, QueueInv, TxInv, Waiting

LEMMA KeepsClose ==
  ASSUME AsyncInv, UNCHANGED <<call, panic, closepc, qClosed>>
  PROVE  CloseInv' /\ OnlySendPanics'
BY DEF AsyncInv, CloseInv, OnlySendPanics

LEMMA TxLocal ==
  ASSUME AsyncInv, UNCHANGED envVars, TxExit \/ TxLookup \/ TxPush
  PROVE  AsyncInv'
<1>1. /\ UNCHANGED <<call, promise, packets, written, socket, rxMsg, panic, closepc, qClosed, sendQueue>>
      /\ rxpc' \in {rxpc, "read"}
  BY DEF TxExit, TxLookup, TxPush
<1>5. FlagsOK'
  BY KeepsFlags DEF AsyncInv, TxExit, TxLookup, TxPush
<1>2. CASE TxExit
  <2>1. FlagsOK' /\ DataOK'
    BY <1>2, <1>5 DEF AsyncInv, DataOK, TxExit
  <2>2. QueueInv' /\ TxInv'
    BY <1>1, <1>2 DEF AsyncInv, QueueInv, TxInv, Waiting, TxExit
  <2> QED
    BY <1>1, <2>1, <2>2, KeepsMap, KeepsClose DEF AsyncInv
<1>3. CASE TxLookup
  <2>1. txMsg \in Sends /\ Waiting(txMsg) /\ packets[XidOf[txMsg]] = txMsg
    BY <1>3 DEF AsyncInv, TxInv, Waiting, Tracked, TxLookup
  <2>2. FlagsOK' /\ DataOK'
    BY <1>3, <1>5, <2>1 DEF AsyncInv, DataOK, TxLookup
  <2>3. QueueInv' /\ TxInv'
    BY <1>1, <1>3, <2>1 DEF AsyncInv, QueueInv, TxInv, Waiting, TxLookup
  <2> QED
    BY <1>1, <2>2, <2>3, KeepsMap, KeepsClose DEF AsyncInv
<1>4. CASE TxPush
  <2>1. FlagsOK' /\ DataOK'
    <3>1. BufferSize \in Nat /\ tokens \in 0..BufferSize
      BY AsyncAssumption DEF AsyncInv, DataOK
    <3>2. tokens' \in 0..BufferSize
      BY <1>4, <3>1 DEF TxPush
    <3>3. /\ rxpc' \in {"select", "read", "lookup", "error", "exited"} /\ UNCHANGED strays
          /\ txpc' = "select" /\ txMsg' = None /\ txP' = None
      BY <1>4 DEF AsyncInv, DataOK, TxPush
    <3> QED
      BY <1>1, <1>5, <3>2, <3>3 DEF AsyncInv, DataOK
  <2>2. QueueInv' /\ TxInv'
    BY <1>1, <1>4 DEF AsyncInv, QueueInv, TxInv, Waiting, TxPush
  <2> QED
    BY <1>1, <2>1, <2>2, KeepsMap, KeepsClose DEF AsyncInv
<1> QED
  BY <1>2, <1>3, <1>4

LEMMA RxLocal ==
  ASSUME AsyncInv, UNCHANGED envVars, RxExit \/ RxTake \/ RxTimeout \/ RxError \/ RxAddError
  PROVE  AsyncInv'
<1>1. /\ UNCHANGED <<call, promise, packets, written, socket, rxMsg, panic, closepc>>
      /\ UNCHANGED <<sendQueue, txpc, txMsg, txP>>
      /\ rxpc' \in {"select", "read", "exited", "error"}
  BY DEF RxExit, RxTake, RxTimeout, RxError, RxAddError, RxGoto
<1>2. UNCHANGED qClosed /\ UNCHANGED ctx
  BY DEF RxExit, RxTake, RxTimeout, RxError, RxAddError, RxGoto
<1>3. FlagsOK' /\ DataOK'
  <2>1. tokens' \in 0..BufferSize
    <3>1. BufferSize \in Nat /\ tokens \in 0..BufferSize
      BY AsyncAssumption DEF AsyncInv, DataOK
    <3>2. tokens' = tokens \/ (tokens > 0 /\ tokens' = tokens - 1)
      BY DEF RxExit, RxTake, RxTimeout, RxError, RxAddError
    <3> QED
      BY <3>1, <3>2
  <2>2. UNCHANGED strays
    BY DEF RxExit, RxTake, RxTimeout, RxError, RxAddError, RxGoto
  <2>3. DataOK'
    <3>1. /\ rxMsg' \in Datagrams \cup {None} /\ socket' \in [Datagrams -> Nat]
          /\ strays' \in 0..MaxStrays
      BY <1>1, <2>2 DEF AsyncInv, DataOK
    <3> QED
      BY <1>1, <2>1, <3>1, KeepsData DEF AsyncInv
  <2> QED
    BY <1>2, <2>3, KeepsFlags DEF AsyncInv
<1> QED
  BY <1>1, <1>3, <1>2, KeepsMap, KeepsTx, KeepsClose DEF AsyncInv

LEMMA CloseLocal ==
  ASSUME AsyncInv, panic = "no", UNCHANGED envVars, CloseCancel \/ CloseQueues
  PROVE  AsyncInv'
<1>1. /\ UNCHANGED <<call, promise, packets, written, socket, rxMsg, panic>>
      /\ UNCHANGED <<sendQueue, txpc, txMsg, txP, tokens, strays, rxpc>>
  BY DEF CloseCancel, CloseQueues
<1>2. /\ closepc' \in {"wait", "returned"}
      /\ ctx' \in BOOLEAN /\ qClosed' \in BOOLEAN
      /\ qClosed' => closepc' = "returned"
  <2>1. CASE CloseCancel
    BY <2>1, Zenon DEF AsyncInv, FlagsOK, CloseInv, CloseCancel
  <2>2. CASE CloseQueues
    BY <2>2, Zenon DEF AsyncInv, FlagsOK, CloseQueues
  <2> QED
    BY <2>1, <2>2
<1>3. FlagsOK' /\ DataOK'
  <2>1. FlagsOK'
    BY <1>2, Zenon DEF AsyncInv, FlagsOK, envVars
  <2>2. DataOK'
    BY <1>1, <1>2 DEF AsyncInv, DataOK
  <2> QED
    BY <2>1, <2>2
<1>4. CloseInv' /\ OnlySendPanics'
  BY <1>1, <1>2 DEF AsyncInv, CloseInv, OnlySendPanics
<1> QED
  BY <1>1, <1>3, <1>4, KeepsMap, KeepsTx DEF AsyncInv

-----------------------------------------------------------------------------
(* The way of a message to the connection.                                 *)

(* Send hands its message over, unless the queue is closed. *)
LEMMA QueueStep ==
  ASSUME AsyncInv, panic = "no", UNCHANGED envVars, NEW i \in Sends, SendQueue(i)
  PROVE  AsyncInv'
<1>1. /\ UNCHANGED <<promise, packets, tokens, txP, rxpc, rxMsg, socket, strays, written>>
      /\ UNCHANGED closepc
      /\ call[i] = "queue" /\ promise[i] = "pending" /\ i \notin written
  BY DEF AsyncInv, CallInv, SendQueue
<1>2. FlagsOK' /\ UNCHANGED qClosed
  BY KeepsFlags DEF AsyncInv, SendQueue
<1>3. CASE qClosed
  <2>1. UNCHANGED <<call, sendQueue, txpc, txMsg>> /\ panic' = "closed queue"
    BY <1>3 DEF SendQueue
  <2>2. DataOK'
    BY <1>1, <2>1 DEF AsyncInv, DataOK
  <2>3. CloseInv' /\ OnlySendPanics'
    BY <1>1, <1>2, <1>3, <2>1 DEF AsyncInv, CloseInv, OnlySendPanics
  <2> QED
    BY <1>1, <1>2, <2>1, <2>2, <2>3, KeepsMap, KeepsTx DEF AsyncInv
<1>4. CASE ~qClosed
  <2>1. /\ call' = [call EXCEPT ![i] = "returned"] /\ UNCHANGED panic
        /\ \/ /\ txpc = "select" /\ txpc' = "lookup" /\ txMsg' = i
              /\ UNCHANGED sendQueue
           \/ /\ Len(sendQueue) < BufferSize /\ sendQueue' = Append(sendQueue, i)
              /\ UNCHANGED <<txpc, txMsg>>
    BY <1>4 DEF SendQueue
  <2>2. /\ call'[i] = "returned"
        /\ \A j \in Sends \ {i} : call'[j] = call[j]
    BY <2>1 DEF AsyncInv, DataOK
  <2>3. Waiting(i)' /\ \A j \in Sends : Waiting(j) => j # i /\ Waiting(j)'
    BY <1>1, <2>2 DEF Waiting
  <2>4. CallInv' /\ NetInv' /\ MapInv' /\ Tracked' /\ SettledAsSent'
    BY <1>1, <2>2 DEF AsyncInv, CallInv, NetInv, MapInv, Tracked, SettledAsSent
  <2>5. CloseInv' /\ OnlySendPanics'
    BY <1>1, <1>2, <2>1 DEF AsyncInv, CloseInv, OnlySendPanics
  <2>6. sendQueue \in Seq(Sends)
    BY DEF AsyncInv, DataOK
  <2>7. CASE txpc = "select" /\ txpc' = "lookup" /\ txMsg' = i /\ UNCHANGED sendQueue
    <3>1. DataOK'
      BY <1>1, <2>1, <2>7 DEF AsyncInv, DataOK
    <3>2. \A n \in 1..Len(sendQueue) : sendQueue[n] \in Sends /\ Waiting(sendQueue[n])
      BY <2>6 DEF AsyncInv, QueueInv
    <3>3. QueueInv' /\ TxInv'
      BY <2>3, <2>7, <3>2 DEF AsyncInv, QueueInv, TxInv
    <3> QED
      BY <1>2, <2>4, <2>5, <3>1, <3>3 DEF AsyncInv
  <2>8. CASE /\ Len(sendQueue) < BufferSize /\ sendQueue' = Append(sendQueue, i)
             /\ UNCHANGED <<txpc, txMsg>>
    <3>1. /\ sendQueue' \in Seq(Sends) /\ Len(sendQueue') = Len(sendQueue) + 1
          /\ \A n \in 1..Len(sendQueue) : sendQueue'[n] = sendQueue[n]
          /\ sendQueue'[Len(sendQueue) + 1] = i
      BY <2>6, <2>8, AppendProperties
    <3>2. DataOK'
      BY <1>1, <2>1, <2>8, <3>1, AsyncAssumption DEF AsyncInv, DataOK
    <3>3. \A n \in 1..Len(sendQueue) : sendQueue[n] \in Sends /\ Waiting(sendQueue[n])
      BY <2>6 DEF AsyncInv, QueueInv
    <3>4. txpc \in {"lookup", "write"} => txMsg \in Sends /\ Waiting(txMsg)
      BY DEF AsyncInv, TxInv
    <3>5. Len(sendQueue) \in Nat
      BY <2>6
    <3>6. \A n \in 1..Len(sendQueue') : n \in 1..Len(sendQueue) \/ n = Len(sendQueue) + 1
      BY <3>1, <3>5
    <3>7. QueueInv'
      BY <2>3, <2>8, <3>1, <3>3, <3>4, <3>6 DEF AsyncInv, QueueInv
    <3>8. TxInv'
      BY <1>1, <2>3, <2>8, <3>4 DEF AsyncInv, TxInv
    <3> QED
      BY <1>2, <2>4, <2>5, <3>2, <3>7, <3>8 DEF AsyncInv
  <2> QED
    BY <2>1, <2>7, <2>8
<1> QED
  BY <1>3, <1>4

(* senderLoop takes the first message of the queue. *)
LEMMA TakeStep ==
  ASSUME AsyncInv, UNCHANGED envVars, TxTake
  PROVE  AsyncInv'
<1>1. /\ UNCHANGED <<call, promise, packets, written, socket, rxMsg, panic, closepc>>
      /\ UNCHANGED <<tokens, txP, rxpc, strays>>
      /\ txpc = "select" /\ txpc' = "lookup"
  BY DEF TxTake
<1>2. FlagsOK' /\ UNCHANGED qClosed
  BY KeepsFlags DEF AsyncInv, TxTake
<1>3. /\ sendQueue \in Seq(Sends) /\ sendQueue # <<>>
      /\ sendQueue' = Tail(sendQueue) /\ txMsg' = Head(sendQueue)
  BY DEF AsyncInv, DataOK, TxTake
<1>4. /\ sendQueue' \in Seq(Sends) /\ Len(sendQueue') = Len(sendQueue) - 1
      /\ \A n \in 1..Len(sendQueue') : sendQueue'[n] = sendQueue[n + 1]
      /\ txMsg' = sendQueue[1] /\ txMsg' \in Sends /\ Len(sendQueue) \in Nat \ {0}
  BY <1>3, HeadTailProperties, EmptySeq
<1>5. \A n \in 1..Len(sendQueue') : n \in Nat /\ n + 1 \in 1..Len(sendQueue) /\ n + 1 # 1
  BY <1>4
<1>6. DataOK'
  <2>1. BufferSize \in Nat /\ Len(sendQueue) <= BufferSize
    BY AsyncAssumption DEF AsyncInv, DataOK
  <2>2. sendQueue' \in Seq(Sends) /\ Len(sendQueue') <= BufferSize /\ txMsg' \in Sends
    BY <1>4, <2>1
  <2> QED
    BY <1>1, <2>2 DEF AsyncInv, DataOK
<1>7. \A j \in Sends : Waiting(j)' = Waiting(j)
  BY <1>1 DEF Waiting
<1>8. \A n \in 1..Len(sendQueue) : sendQueue[n] \in Sends /\ Waiting(sendQueue[n])
  BY <1>3 DEF AsyncInv, QueueInv
<1>9. 1 \in 1..Len(sendQueue)
  BY <1>4
<1>10. TxInv'
  BY <1>1, <1>4, <1>7, <1>8, <1>9 DEF TxInv
<1>11. QueueInv'
  <2>1. \A m, n \in 1..Len(sendQueue) : sendQueue[m] = sendQueue[n] => m = n
    BY DEF AsyncInv, QueueInv
  <2>2. \A m, n \in 1..Len(sendQueue') : m + 1 = n + 1 => m = n
    BY <1>4
  <2>3. \A m, n \in 1..Len(sendQueue') : sendQueue'[m] = sendQueue'[n] => m = n
    BY <1>4, <1>5, <2>1, <2>2
  <2>4. \A n \in 1..Len(sendQueue') : sendQueue'[n] # txMsg'
    BY <1>4, <1>5, <1>9, <2>1
  <2> QED
    BY <1>4, <1>5, <1>7, <1>8, <2>3, <2>4 DEF QueueInv
<1> QED
  BY <1>1, <1>2, <1>6, <1>10, <1>11, KeepsMap, KeepsClose DEF AsyncInv

(* The message is written; from now on it may be answered. *)
LEMMA WriteStep ==
  ASSUME DistinctXidOf, AsyncInv, UNCHANGED envVars, TxWrite
  PROVE  AsyncInv'
<1>1. /\ UNCHANGED <<call, promise, packets, sendQueue, tokens, txMsg, txP, rxpc, rxMsg>>
      /\ UNCHANGED <<strays, closepc, panic>>
      /\ txpc = "write" /\ txpc' = "push" /\ written' = written \cup {txMsg}
  BY DEF TxWrite
<1>2. FlagsOK' /\ UNCHANGED qClosed
  BY KeepsFlags DEF AsyncInv, TxWrite
<1>3. txMsg \in Sends /\ Waiting(txMsg)
  BY <1>1 DEF AsyncInv, TxInv
<1>4. socket' = socket \/ socket' = [socket EXCEPT ![XidOf[txMsg]] = @ + 1]
  BY DEF TxWrite
<1>5. XidOf \in [Sends -> Xids] /\ Xids \subseteq Datagrams
  BY AsyncAssumption DEF Datagrams
<1>6. socket \in [Datagrams -> Nat]
  BY DEF AsyncInv, DataOK
<1>7. socket' \in [Datagrams -> Nat] /\ \A d \in Datagrams \ {XidOf[txMsg]} : socket'[d] = socket[d]
  BY <1>3, <1>4, <1>5, <1>6
<1>8. DataOK'
  BY <1>1, <1>3, <1>7 DEF AsyncInv, DataOK
<1>9. CallInv' /\ MapInv' /\ Tracked' /\ SettledAsSent'
  BY <1>1, <1>3 DEF AsyncInv, CallInv, MapInv, Tracked, SettledAsSent, Waiting
<1>10. NetInv'
  BY <1>1, <1>3, <1>5, <1>7 DEF AsyncInv, NetInv, DistinctXidOf
<1>11. TxInv'
  BY <1>1, <1>3 DEF TxInv
<1>12. QueueInv'
  <2>1. \A n \in 1..Len(sendQueue) : sendQueue[n] # txMsg
    BY <1>1 DEF AsyncInv, QueueInv
  <2> QED
    BY <1>1, <2>1 DEF AsyncInv, QueueInv, Waiting
<1> QED
  BY <1>1, <1>2, <1>8, <1>9, <1>10, <1>11, <1>12, KeepsClose DEF AsyncInv

(* The write fails: the promise is still there to be rejected. *)
LEMMA FailStep ==
  ASSUME AsyncInv, panic = "no", UNCHANGED envVars, TxFail
  PROVE  AsyncInv'
<1>1. /\ UNCHANGED <<call, packets, sendQueue, tokens, rxpc, rxMsg, socket, strays, written>>
      /\ UNCHANGED closepc
      /\ txpc = "write" /\ txpc' = "select" /\ txMsg' = None /\ txP' = None
  BY DEF TxFail
<1>2. FlagsOK' /\ UNCHANGED qClosed
  BY KeepsFlags DEF AsyncInv, TxFail
<1>3. txMsg \in Sends /\ Waiting(txMsg) /\ txP = txMsg /\ txMsg # None
  BY <1>1, AsyncAssumption DEF AsyncInv, TxInv
<1>4. promise' = [promise EXCEPT ![txMsg] = "rejected"] /\ UNCHANGED panic
  BY <1>3 DEF TxFail, Settle, Waiting, AsyncInv, DataOK
<1>5. promise'[txMsg] = "rejected" /\ \A j \in Sends \ {txMsg} : promise'[j] = promise[j]
  BY <1>3, <1>4 DEF AsyncInv, DataOK
<1>6. DataOK'
  BY <1>1, <1>4 DEF AsyncInv, DataOK
<1>7. CallInv' /\ NetInv' /\ MapInv' /\ SettledAsSent'
  BY <1>1, <1>3, <1>5 DEF AsyncInv, CallInv, NetInv, MapInv, SettledAsSent, Waiting
<1>8. Tracked'
  BY <1>1, <1>3, <1>5 DEF AsyncInv, DataOK, Tracked
<1>9. TxInv'
  BY <1>1 DEF TxInv
<1>10. QueueInv'
  <2>1. \A n \in 1..Len(sendQueue) : sendQueue[n] # txMsg /\ sendQueue[n] \in Sends
    BY <1>1 DEF AsyncInv, DataOK, QueueInv
  <2> QED
    BY <1>1, <1>5, <2>1 DEF AsyncInv, QueueInv, Waiting
<1> QED
  BY <1>1, <1>2, <1>4, <1>6, <1>7, <1>8, <1>9, <1>10, KeepsClose DEF AsyncInv

-----------------------------------------------------------------------------
(* The way of a datagram to a promise.                                     *)

LEMMA ArriveStep ==
  ASSUME AsyncInv, UNCHANGED envVars, NEW d \in Datagrams, Arrive(d),
         \A i \in Sends : XidOf[i] = d => i \in written
  PROVE  AsyncInv'
<1>1. /\ UNCHANGED <<call, promise, packets, sendQueue, tokens, txpc, txMsg, txP, rxpc, rxMsg>>
      /\ UNCHANGED <<written, closepc, panic>>
      /\ strays < MaxStrays /\ strays' = strays + 1
      /\ socket' = [socket EXCEPT ![d] = @ + 1]
  BY DEF Arrive
<1>2. FlagsOK' /\ UNCHANGED qClosed
  BY KeepsFlags DEF AsyncInv, Arrive
<1>3. MaxStrays \in Nat /\ XidOf \in [Sends -> Xids] /\ Xids \subseteq Datagrams
  BY AsyncAssumption DEF Datagrams
<1>4. /\ strays \in 0..MaxStrays /\ socket \in [Datagrams -> Nat]
      /\ tokens \in 0..BufferSize /\ rxMsg \in Datagrams \cup {None}
      /\ rxpc \in {"select", "read", "lookup", "error", "exited"}
  BY DEF AsyncInv, DataOK
<1>5. /\ socket' \in [Datagrams -> Nat] /\ strays' \in 0..MaxStrays
      /\ \A e \in Datagrams \ {d} : socket'[e] = socket[e]
  BY <1>1, <1>3, <1>4
<1>6. DataOK'
  BY <1>1, <1>4, <1>5, KeepsData DEF AsyncInv
<1>7. NetInv'
  BY <1>1, <1>3, <1>5 DEF AsyncInv, NetInv
<1>8. CallInv' /\ MapInv' /\ Tracked' /\ SettledAsSent'
  BY <1>1 DEF AsyncInv, CallInv, MapInv, Tracked, SettledAsSent
<1> QED
  BY <1>1, <1>2, <1>6, <1>7, <1>8, KeepsTx, KeepsClose DEF AsyncInv

LEMMA ReadStep ==
  ASSUME AsyncInv, UNCHANGED envVars, NEW d \in Datagrams, RxRead(d)
  PROVE  AsyncInv'
<1>1. /\ UNCHANGED <<call, promise, packets, sendQueue, tokens, txpc, txMsg, txP>>
      /\ UNCHANGED <<strays, written, closepc, panic>>
      /\ socket[d] > 0 /\ socket' = [socket EXCEPT ![d] = @ - 1]
      /\ rxMsg' \in {rxMsg, d} /\ rxpc' \in {"error", "lookup"}
  BY DEF RxRead, RxGoto
<1>2. FlagsOK' /\ UNCHANGED qClosed
  BY KeepsFlags DEF AsyncInv, RxRead, RxGoto
<1>3. XidOf \in [Sends -> Xids] /\ Xids \subseteq Datagrams
  BY AsyncAssumption DEF Datagrams
<1>10. rxpc' = "lookup" => rxMsg' \in Xids
  BY DEF RxRead, RxGoto, Datagrams
<1>9. /\ strays \in 0..MaxStrays /\ socket \in [Datagrams -> Nat]
      /\ tokens \in 0..BufferSize /\ rxMsg \in Datagrams \cup {None}
  BY DEF AsyncInv, DataOK
<1>4. /\ socket' \in [Datagrams -> Nat]
      /\ \A e \in Datagrams \ {d} : socket'[e] = socket[e]
  BY <1>1, <1>9
<1>5. DataOK'
  BY <1>1, <1>4, <1>9, KeepsData DEF AsyncInv
<1>6. \A i \in Sends : i \notin written => XidOf[i] # d
  BY <1>1 DEF AsyncInv, NetInv
<1>7. NetInv'
  BY <1>1, <1>3, <1>4, <1>6, <1>10 DEF AsyncInv, NetInv
<1>8. CallInv' /\ MapInv' /\ Tracked' /\ SettledAsSent'
  BY <1>1 DEF AsyncInv, CallInv, MapInv, Tracked, SettledAsSent
<1> QED
  BY <1>1, <1>2, <1>5, <1>7, <1>8, KeepsTx, KeepsClose DEF AsyncInv

(* receive resolves the promise that the ID leads to: its message was      *)
(* written, so it is none that senderLoop still holds.                     *)
LEMMA ResolveStep ==
  ASSUME DistinctXidOf, AsyncInv, panic = "no", UNCHANGED envVars, RxResolve
  PROVE  AsyncInv'
<1>1. /\ UNCHANGED <<call, sendQueue, tokens, txpc, txMsg, txP, socket>>
      /\ UNCHANGED <<strays, written, closepc>>
      /\ rxpc = "lookup" /\ rxpc' = "select" /\ rxMsg' = None
  BY DEF RxResolve, RxGoto
<1>2. FlagsOK' /\ UNCHANGED qClosed
  BY KeepsFlags DEF AsyncInv, RxResolve, RxGoto
<1>3. XidOf \in [Sends -> Xids] /\ None \notin Sends \cup Datagrams /\ Xids \subseteq Datagrams
  BY AsyncAssumption DEF Datagrams
<1>4. NetInv'
  BY <1>1, <1>3 DEF AsyncInv, NetInv
<1>5. CASE packets[rxMsg] = None
  <2>1. UNCHANGED <<packets, promise, panic>>
    BY <1>5 DEF RxResolve
  <2>2. DataOK'
    BY <1>1, <2>1 DEF AsyncInv, DataOK
  <2>3. CallInv' /\ MapInv' /\ Tracked' /\ SettledAsSent'
    BY <1>1, <2>1 DEF AsyncInv, CallInv, MapInv, Tracked, SettledAsSent
  <2> QED
    BY <1>1, <1>2, <1>4, <2>1, <2>2, <2>3, KeepsTx, KeepsClose DEF AsyncInv
<1>6. CASE packets[rxMsg] # None
  <2> DEFINE i == packets[rxMsg]
  <2>1. /\ rxMsg \in Xids /\ i \in Sends /\ XidOf[i] = rxMsg
        /\ promise[i] \in {"pending", "rejected"} /\ i \in written
    <3>1. rxMsg \in Xids
      BY <1>1 DEF AsyncInv, NetInv
    <3>2. i \in Sends
      BY <1>6, <3>1 DEF AsyncInv, DataOK
    <3>3. XidOf[i] = rxMsg /\ promise[i] \in {"pending", "rejected"}
      BY <1>6, <3>1 DEF AsyncInv, MapInv, Tracked
    <3>4. i \in written
      BY <3>2, <3>3 DEF AsyncInv, NetInv
    <3> QED
      BY <3>1, <3>2, <3>3, <3>4
  <2>2. promise[i] = "pending"
    BY <2>1 DEF AsyncInv, SettledAsSent
  <2>3. /\ packets' = [packets EXCEPT ![rxMsg] = None]
        /\ promise' = [promise EXCEPT ![i] = "resolved"] /\ UNCHANGED panic
    BY <1>6, <2>1, <2>2 DEF RxResolve, Settle, AsyncInv, DataOK
  <2>4. /\ promise'[i] = "resolved" /\ \A j \in Sends \ {i} : promise'[j] = promise[j]
        /\ packets'[rxMsg] = None /\ \A x \in Xids \ {rxMsg} : packets'[x] = packets[x]
    BY <2>1, <2>3 DEF AsyncInv, DataOK
  <2>5. DataOK'
    BY <1>1, <2>3 DEF AsyncInv, DataOK
  <2>11. \A x \in Xids \ {rxMsg} : packets[x] # i
    BY <1>3, <2>1 DEF AsyncInv, MapInv
  <2> HIDE DEF i
  <2>6. CallInv' /\ SettledAsSent'
    <3>1. call[i] = "returned"
      BY <2>1 DEF AsyncInv, CallInv
    <3> QED
      BY <1>1, <2>1, <2>4, <3>1 DEF AsyncInv, CallInv, SettledAsSent
  <2>7. MapInv'
    BY <2>4 DEF AsyncInv, MapInv
  <2>8. Tracked'
    <3>1. \A j \in Sends \ {i} : XidOf[j] \in Xids \ {rxMsg}
      BY <1>3, <2>1 DEF DistinctXidOf
    <3>2. \A j \in Sends : promise'[j] = "pending" => packets'[XidOf[j]] = j
      BY <2>4, <3>1 DEF AsyncInv, Tracked
    <3>3. ASSUME NEW x \in Xids, packets'[x] # None
          PROVE  promise'[packets'[x]] \in {"pending", "rejected"}
      <4>1. x # rxMsg /\ packets'[x] = packets[x] /\ packets[x] # i /\ packets[x] \in Sends
        BY <2>4, <2>11, <3>3 DEF AsyncInv, DataOK
      <4> QED
        BY <2>4, <3>3, <4>1 DEF AsyncInv, Tracked
    <3> QED
      BY <3>2, <3>3 DEF Tracked
  <2>9. \A j \in Sends : Waiting(j) => Waiting(j)'
    BY <1>1, <2>1, <2>4 DEF Waiting
  <2>10. QueueInv' /\ TxInv'
    <3>1. \A n \in 1..Len(sendQueue) : sendQueue[n] \in Sends /\ Waiting(sendQueue[n])
      BY DEF AsyncInv, DataOK, QueueInv
    <3> QED
      BY <1>1, <2>9, <3>1 DEF AsyncInv, QueueInv, TxInv
  <2> QED
    BY <1>1, <1>2, <1>4, <2>3, <2>5, <2>6, <2>7, <2>8, <2>10, KeepsClose DEF AsyncInv
<1> QED
  BY <1>5, <1>6

-----------------------------------------------------------------------------
(* The invariant needs that the transaction IDs are distinct and that      *)
(* nothing which arrives unasked carries one of them.                      *)
LEMMA AsyncInvariance ==
  ASSUME DistinctXidOf, Unasked
  PROVE  Spec => []AsyncInv
<1>1. AsyncInv /\ [Next]_vars => AsyncInv'
  <2> SUFFICES ASSUME AsyncInv, [Next]_vars PROVE AsyncInv'
    OBVIOUS
  <2>1. CASE UNCHANGED vars
    <3>1. /\ UNCHANGED <<call, promise, packets, written, socket, rxMsg, rxpc, tokens, strays>>
          /\ UNCHANGED <<sendQueue, txpc, txMsg, txP, panic, closepc>>
      BY <2>1 DEF vars, clientVars
    <3>4. UNCHANGED <<ctx, qClosed>> /\ UNCHANGED envVars
      BY <2>1 DEF vars, clientVars
    <3>2. FlagsOK'
      BY <3>4, KeepsFlags DEF AsyncInv
    <3>3. DataOK'
      <4>1. /\ tokens \in 0..BufferSize /\ rxMsg \in Datagrams \cup {None}
            /\ rxpc \in {"select", "read", "lookup", "error", "exited"}
            /\ socket \in [Datagrams -> Nat] /\ strays \in 0..MaxStrays
        BY DEF AsyncInv, DataOK
      <4> QED
        BY <3>1, <4>1, KeepsData DEF AsyncInv
    <3> QED
      BY <3>1, <3>4, <3>2, <3>3, KeepsMap, KeepsTx, KeepsClose DEF AsyncInv
  <2>2. CASE Next
    <3>1. panic = "no" /\ UNCHANGED envVars
      BY <2>2 DEF Next
    <3>2. ASSUME NEW i \in Sends, Reply(i) PROVE AsyncInv'
      <4>1. XidOf[i] \in Datagrams
        BY AsyncAssumption DEF Datagrams
      <4> QED
        BY <3>1, <3>2, <4>1, ArriveStep DEF Reply, DistinctXidOf
    <3>3. ASSUME NEW d \in Strays, Stray(d) PROVE AsyncInv'
      <4>1. d \in Datagrams
        BY AsyncAssumption
      <4> QED
        BY <3>1, <3>3, <4>1, ArriveStep DEF Stray, Unasked
    <3> QED
      BY <2>2, <3>1, <3>2, <3>3, RegisterStep, QueueStep, TxLocal, TakeStep, WriteStep,
         FailStep, RxLocal, ReadStep, ResolveStep, CloseLocal DEF Next
  <2> QED
    BY <2>1, <2>2
<1> QED
  BY InitAsync, <1>1, PTL DEF Spec

(* For any number of Sends and any queue size, receive resolves a promise  *)
(* only if send wrote its message, and send rejects one only if it did not *)
(* write it: no promise is settled by the answer to another's message.     *)
THEOREM PromiseSafety ==
  ASSUME DistinctXidOf, Unasked
  PROVE  Spec => [](TypeOK /\ SettledAsSent)
<1>1. AsyncInv => TypeOK /\ SettledAsSent
  BY Types DEF AsyncInv
<1> QED
  BY AsyncInvariance, <1>1, PTL

(* No promise is orphaned: until it is settled c.packets leads from its    *)
(* transaction ID to it, whatever the two loops look up and remove, and    *)
(* the map keeps no promise that receive has resolved.                     *)
THEOREM PromisesTracked ==
  ASSUME DistinctXidOf, Unasked
  PROVE  Spec => []Tracked
<1>1. AsyncInv => Tracked
  BY DEF AsyncInv
<1> QED
  BY AsyncInvariance, <1>1, PTL

(* send and receive never use a nil promise; the only panic is that of a   *)
(* Send whose client was closed before it queued its message.              *)
THEOREM OnlyClosedSendPanics ==
  ASSUME DistinctXidOf, Unasked
  PROVE  Spec => []OnlySendPanics
<1>1. AsyncInv => OnlySendPanics
  BY DEF AsyncInv
<1> QED
  BY AsyncInvariance, <1>1, PTL
=============================================================================
