------------------------- MODULE NClient4CallProofs -------------------------
(* Proofs about what the calls of NClient4 return. *)
EXTENDS NClient4Proofs

USE DEF Goto, connVars, rxVars,
    callVars, replyVars, chanVars

(* A caller uses only its own transaction IDs. *)
OwnRequest == \A c \in Callers : pc[c] # "idle" => req[c].xid \in XidsOf[c]

(* A call that is alone and has decided on success holds its packet. *)
HasResponse ==
  \A c \in Callers :
    Alone(c) /\ pc[c] \in {"cancel", "remove", "returned"} /\ err[c] = "nil"
      => response[c] # None

(* Only send refuses an ID, before it registers, and never one that is     *)
(* used alone.                                                             *)
InUseShared ==
  \A c \in Callers : err[c] = "inUse" => pc[c] = "returned" /\ ~Alone(c)

(* The inductive invariant, on top of Inv. *)
AloneInv == OwnRequest /\ Registered /\ HasResponse /\ InUseShared

LEMMA DistinctXids ==
  ASSUME OwnRequest, NEW c \in Callers, NEW d \in Callers, c # d,
         Alone(c), pc[d] # "idle"
  PROVE  req[c].xid # req[d].xid
BY DEF Alone, OwnRequest

(* Steps that move one caller between the points of an attempt where its   *)
(* entry must be in the map, or to "remove", and leave the map alone.      *)
LEMMA RegisteredKept ==
  ASSUME Registered, UNCHANGED <<pending, req>>,
         \A d \in Callers : pc'[d] \in Attempt \ {"remove"}
                              => pc[d] \in Attempt \ {"remove"}
  PROVE  Registered'
BY DEF Registered, Alone

(* A step that only moves caller c to l with error e. *)
Moves(c, l, e) ==
  /\ pc' = [pc EXCEPT ![c] = l]
  /\ err' = [err EXCEPT ![c] = e]
  /\ UNCHANGED <<pending, rxVars, req, response, chanVars, panic, first>>

(* The errors an attempt can end with once it is registered. *)
Failures == {"ErrNoResponse", "errDeadlineExceeded", "ctx.Err", "write"}

LEMMA LocalMoves ==
  ASSUME Inv, NEW c \in Callers,
         \/ SendWrite(c) \/ Arm(c) \/ SelectDone(c) \/ SelectTimeout(c)
         \/ SelectCtx(c) \/ CancelDone(c) \/ CtxCancel(c)
  PROVE  \/ pc[c] = "write" /\ Moves(c, "arm", err[c])
         \/ pc[c] = "arm" /\ Moves(c, "select", err[c])
         \/ pc[c] = "cancel" /\ Moves(c, "remove", err[c])
         \/ Moves(c, pc[c], err[c])
         \/ /\ pc[c] \in {"write", "select"}
            /\ \E e \in Failures : Moves(c, "cancel", e)
<1>1. err = [err EXCEPT ![c] = err[c]] /\ pc = [pc EXCEPT ![c] = pc[c]]
  BY DEF Inv, TypeOK
<1>2. CASE SendWrite(c)
  BY <1>1, <1>2 DEF SendWrite, Decide, Moves, Failures
<1>3. CASE Arm(c)
  BY <1>1, <1>3 DEF Arm, Moves
<1>4. CASE SelectDone(c)
  BY <1>4 DEF SelectDone, SelectEnds, Decide, Moves, Failures
<1>5. CASE SelectTimeout(c)
  BY <1>5 DEF SelectTimeout, SelectEnds, Decide, Moves, Failures
<1>6. CASE SelectCtx(c)
  BY <1>6 DEF SelectCtx, SelectEnds, Decide, Moves, Failures
<1>7. CASE CancelDone(c)
  BY <1>1, <1>7 DEF CancelDone, Moves
<1>8. CASE CtxCancel(c)
  BY <1>1, <1>8 DEF CtxCancel, Moves
<1> QED
  BY <1>2, <1>3, <1>4, <1>5, <1>6, <1>7, <1>8

LEMMA AloneMoves ==
  ASSUME Inv, AloneInv, NEW c \in Callers, NEW l, NEW e, Moves(c, l, e),
         \/ pc[c] = "write" /\ l = "arm" /\ e = err[c]
         \/ pc[c] = "arm" /\ l = "select" /\ e = err[c]
         \/ pc[c] = "cancel" /\ l = "remove" /\ e = err[c]
         \/ l = pc[c] /\ e = err[c]
         \/ pc[c] \in {"write", "select"} /\ l = "cancel" /\ e \in Failures
  PROVE  AloneInv'
<1>1. /\ pc'[c] = l /\ err'[c] = e /\ response' = response
      /\ \A d \in Callers \ {c} : pc'[d] = pc[d] /\ err'[d] = err[d]
      /\ UNCHANGED <<pending, req, panic>>
  BY DEF Inv, TypeOK, Moves
<1>2. \A d \in Callers : pc'[d] \in Attempt \ {"remove"}
                           => pc[d] \in Attempt \ {"remove"}
  BY <1>1 DEF Attempt
<1>3. Registered'
  BY <1>1, <1>2, RegisteredKept DEF AloneInv
<1>4. OwnRequest'
  BY <1>1 DEF AloneInv, OwnRequest
<1>5. HasResponse' /\ InUseShared'
  BY <1>1 DEF AloneInv, HasResponse, InUseShared, Alone, Failures
<1> QED
  BY <1>1, <1>3, <1>4, <1>5 DEF AloneInv

LEMMA AloneLocal ==
  ASSUME Inv, AloneInv, NEW c \in Callers,
         \/ SendWrite(c) \/ Arm(c) \/ SelectDone(c) \/ SelectTimeout(c)
         \/ SelectCtx(c) \/ CancelDone(c) \/ CtxCancel(c)
  PROVE  AloneInv'
<1>1. CASE pc[c] \in {"write", "select"} /\ \E e \in Failures : Moves(c, "cancel", e)
  BY <1>1, AloneMoves
<1> QED
  BY <1>1, LocalMoves, AloneMoves

LEMMA AloneSelectPacket ==
  ASSUME Inv, AloneInv, NEW c \in Callers, SelectPacket(c)
  PROVE  AloneInv'
<1>1. /\ pc \in [Callers -> {"idle", "send", "returned"} \cup Attempt]
      /\ err \in [Callers -> Errors]
      /\ response \in [Callers -> Packet \cup {None}]
      /\ buf[c] \in Seq(Packet) /\ buf[c] # <<>>
  BY DEF Inv, TypeOK, SelectPacket
<1>2. Head(buf[c]) \in Packet
  BY <1>1
<1>3. /\ \A d \in Callers \ {c} : /\ pc'[d] = pc[d] /\ err'[d] = err[d]
                                  /\ response'[d] = response[d]
      /\ UNCHANGED <<pending, req, panic>>
      /\ pc[c] \in {"select", "recv"}
      /\ \/ pc'[c] = "cancel" /\ err'[c] = "nil" /\ response'[c] \in Packet
         \/ pc'[c] = "arm" /\ err'[c] = err[c]
  <2>1. CASE Matches(req[c].match, Head(buf[c]))
    BY <1>1, <1>2, <2>1 DEF SelectPacket, Decide
  <2>2. CASE ~Matches(req[c].match, Head(buf[c]))
    BY <1>1, <2>2 DEF SelectPacket
  <2> QED
    BY <2>1, <2>2
<1>4. \A d \in Callers : pc'[d] \in Attempt \ {"remove"}
                           => pc[d] \in Attempt \ {"remove"}
  BY <1>3 DEF Attempt
<1>5. Registered'
  BY <1>3, <1>4, RegisteredKept DEF AloneInv
<1>6. OwnRequest'
  BY <1>3 DEF AloneInv, OwnRequest
<1>7. HasResponse' /\ InUseShared'
  BY <1>3, NoneIsNil DEF AloneInv, HasResponse, InUseShared, Alone
<1> QED
  BY <1>3, <1>5, <1>6, <1>7 DEF AloneInv

(* While a call that is alone is in its select its entry is in the map, so *)
(* nobody has closed its channel.                                          *)
LEMMA AloneChannelOpen ==
  ASSUME Inv, AloneInv, NEW c \in Callers, Alone(c), pc[c] = "select"
  PROVE  ~chClosed[c]
<1>1. pc[c] \in Attempt \ {"remove"} /\ pc[c] # "idle"
  BY DEF Attempt
<1>2. req[c].xid \in Xids /\ pending[req[c].xid] = c
  BY <1>1 DEF Inv, HasRequest, Requests, AloneInv, Registered
<1> QED
  BY <1>2, NoneIsNil DEF Inv, PendingLive

LEMMA AloneSelectNil ==
  ASSUME Inv, AloneInv, NEW c \in Callers, SelectNil(c)
  PROVE  AloneInv'
<1>1. pc[c] = "select" /\ ~Alone(c) /\ UNCHANGED <<pending, req, response>>
  BY AloneChannelOpen DEF SelectNil
<1>2. /\ \A d \in Callers \ {c} : pc'[d] = pc[d] /\ err'[d] = err[d]
      /\ \/ pc'[c] = "cancel" /\ err'[c] = "nil"
         \/ pc'[c] = pc[c] /\ err'[c] = err[c]
  BY DEF Inv, TypeOK, SelectNil, Decide
<1>3. \A d \in Callers : pc'[d] \in Attempt \ {"remove"}
                           => pc[d] \in Attempt \ {"remove"}
  BY <1>1, <1>2 DEF Attempt
<1>4. Registered'
  BY <1>1, <1>3, RegisteredKept DEF AloneInv
<1>5. OwnRequest' /\ HasResponse' /\ InUseShared'
  BY <1>1, <1>2 DEF AloneInv, OwnRequest, HasResponse, InUseShared, Alone
<1> QED
  BY <1>4, <1>5 DEF AloneInv

LEMMA AloneSendAndRead ==
  ASSUME Inv, AloneInv, NEW c \in Callers, NEW r \in Requests, SendAndRead(c, r)
  PROVE  AloneInv'
<1>1. /\ pc \in [Callers -> {"idle", "send", "returned"} \cup Attempt]
      /\ err \in [Callers -> Errors]
      /\ response \in [Callers -> Packet \cup {None}]
      /\ req \in [Callers -> Requests \cup {None}]
  BY DEF Inv, TypeOK
<1>2. /\ \A d \in Callers \ {c} : /\ pc'[d] = pc[d] /\ err'[d] = err[d]
                                  /\ response'[d] = response[d]
                                  /\ req'[d] = req[d]
      /\ req'[c] = r /\ r.xid \in XidsOf[c]
      /\ UNCHANGED <<pending, panic>>
      /\ \/ pc'[c] = "returned" /\ err'[c] = "ErrNoResponse"
         \/ pc'[c] = "send" /\ err'[c] = "nil"
  BY <1>1 DEF SendAndRead
<1>3. Registered'
  BY <1>2 DEF AloneInv, Registered, Attempt, Alone
<1>4. OwnRequest'
  BY <1>2 DEF AloneInv, OwnRequest
<1>5. \A d \in Callers \ {c} : Alone(d)' <=> Alone(d)
  BY <1>2 DEF Alone
<1>6. HasResponse'
  BY <1>2, <1>5 DEF AloneInv, HasResponse
<1>7. InUseShared'
  BY <1>2, <1>5 DEF AloneInv, InUseShared
<1> QED
  BY <1>3, <1>4, <1>6, <1>7 DEF AloneInv

LEMMA AloneSendRegister ==
  ASSUME Inv, AloneInv, NEW c \in Callers, SendRegister(c)
  PROVE  AloneInv'
<1> DEFINE xid == req[c].xid
<1>1. pc[c] = "send" /\ xid \in Xids /\ UNCHANGED <<req, response>>
  BY DEF Inv, HasRequest, Requests, SendRegister
<1>2. /\ pc \in [Callers -> {"idle", "send", "returned"} \cup Attempt]
      /\ err \in [Callers -> Errors]
  BY DEF Inv, TypeOK
<1>3. CASE pending[xid] # None
  <2>1. /\ pending[xid] \in Callers /\ pc[pending[xid]] \in Attempt
        /\ req[pending[xid]].xid = xid
    <3>1. pending[xid] \in Callers
      BY <1>1, <1>3 DEF Inv, TypeOK
    <3> QED
      BY <1>1, <1>3, <3>1 DEF Inv, PendingLive
  <2>2. ~Alone(c)
    BY <1>1, <2>1, DistinctXids DEF AloneInv, Attempt
  <2>3. AttemptEnds(c, "inUse") /\ UNCHANGED pending
    BY <1>3 DEF SendRegister
  <2>4. /\ pc'[c] = "returned" /\ err'[c] = "inUse"
        /\ \A d \in Callers \ {c} : pc'[d] = pc[d] /\ err'[d] = err[d]
    BY <1>2, <2>3 DEF AttemptEnds
  <2>5. Registered'
    BY <1>1, <2>3, <2>4, RegisteredKept DEF AloneInv, Attempt
  <2>6. OwnRequest' /\ HasResponse' /\ InUseShared'
    BY <1>1, <2>2, <2>4 DEF AloneInv, OwnRequest, HasResponse, InUseShared, Alone
  <2> QED
    BY <2>5, <2>6 DEF AloneInv
<1>4. CASE pending[xid] = None
  <2>1. /\ pending' = [pending EXCEPT ![xid] = c]
        /\ pc' = [pc EXCEPT ![c] = "write"]
        /\ UNCHANGED err
    BY <1>4 DEF SendRegister
  <2>2. /\ pc'[c] = "write"
        /\ \A d \in Callers \ {c} : pc'[d] = pc[d]
    BY <1>2, <2>1
  <2>3. ASSUME NEW d \in Callers, pc'[d] \in Attempt \ {"remove"}, Alone(d)
        PROVE  pending'[req[d].xid] = d
    <3>1. CASE d = c
      BY <1>1, <2>1, <3>1 DEF Inv, TypeOK
    <3>2. CASE d # c
      <4>1. pc[d] = pc'[d] /\ pending[req[d].xid] = d
        BY <2>2, <2>3, <3>2 DEF AloneInv, Registered
      <4>2. req[d].xid # xid
        BY <1>1, <2>3, <3>2, DistinctXids DEF AloneInv
      <4>3. req[d].xid \in Xids
        BY <2>3, <4>1 DEF Inv, HasRequest, Requests, Attempt
      <4>4. pending \in [Xids -> Callers \cup {None}]
        BY DEF Inv, TypeOK
      <4> QED
        BY <2>1, <4>1, <4>2, <4>3, <4>4
    <3> QED
      BY <3>1, <3>2
  <2>4. Registered'
    BY <1>1, <2>3 DEF Registered, Alone
  <2>5. OwnRequest' /\ HasResponse' /\ InUseShared'
    BY <1>1, <2>1, <2>2 DEF AloneInv, OwnRequest, HasResponse, InUseShared, Alone
  <2> QED
    BY <2>4, <2>5 DEF AloneInv
<1> QED
  BY <1>3, <1>4

(* Removing the entry of x leaves every other caller's entry in the map.   *)
LEMMA AloneRemoveEntry ==
  ASSUME Inv, Registered, NEW x \in Xids, UNCHANGED req,
         pending' = [pending EXCEPT ![x] = None],
         \A d \in Callers : pc'[d] \in Attempt \ {"remove"}
           => /\ pc[d] \in Attempt \ {"remove"}
              /\ Alone(d) => req[d].xid # x
  PROVE  Registered'
<1> SUFFICES ASSUME NEW d \in Callers, pc'[d] \in Attempt \ {"remove"}, Alone(d)
             PROVE  pending'[req[d].xid] = d
  BY DEF Registered, Alone
<1>1. pc[d] \in Attempt \ {"remove"} /\ req[d].xid # x
  OBVIOUS
<1>2. req[d].xid \in Xids
  BY <1>1 DEF Inv, HasRequest, Requests, Attempt
<1>3. pending \in [Xids -> Callers \cup {None}]
  BY DEF Inv, TypeOK
<1> QED
  BY <1>1, <1>2, <1>3 DEF Registered

LEMMA AloneCancelRemove ==
  ASSUME Inv, AloneInv, NEW c \in Callers, CancelRemove(c)
  PROVE  AloneInv'
<1>1. pc[c] = "remove" /\ req[c].xid \in Xids
  BY DEF Inv, HasRequest, Requests, CancelRemove
<1>2. err[c] \in Errors /\ AttemptEnds(c, err[c])
  BY DEF Inv, TypeOK, CancelRemove
<1>3. /\ pc'[c] \in {"send", "returned"}
      /\ \A d \in Callers \ {c} : pc'[d] = pc[d]
  BY <1>2, AttemptEndsType DEF Inv
<1>4. UNCHANGED <<req, response>>
  BY DEF CancelRemove
<1>5. Registered'
  <2>1. \A d \in Callers : pc'[d] \in Attempt \ {"remove"}
          => /\ pc[d] \in Attempt \ {"remove"}
             /\ Alone(d) => req[d].xid # req[c].xid
    <3> SUFFICES ASSUME NEW d \in Callers, pc'[d] \in Attempt \ {"remove"}
                 PROVE  /\ pc[d] \in Attempt \ {"remove"}
                        /\ Alone(d) => req[d].xid # req[c].xid
      OBVIOUS
    <3>1. d # c
      BY <1>3 DEF Attempt
    <3>2. pc[d] = pc'[d] /\ pc[d] # "idle"
      BY <1>3, <3>1 DEF Attempt
    <3> QED
      BY <1>1, <3>1, <3>2, DistinctXids DEF AloneInv
  <2>2. CASE pending[req[c].xid] # None
    <3>1. pending' = [pending EXCEPT ![req[c].xid] = None]
      BY <2>2 DEF CancelRemove, CloseAndDelete
    <3> QED
      BY <1>1, <1>4, <2>1, <3>1, AloneRemoveEntry DEF AloneInv
  <2>3. CASE pending[req[c].xid] = None
    BY <1>4, <2>1, <2>3, RegisteredKept DEF AloneInv, CancelRemove
  <2> QED
    BY <2>2, <2>3
<1>6. OwnRequest'
  BY <1>1, <1>3, <1>4 DEF AloneInv, OwnRequest
<1>7. /\ pc'[c] = "returned" /\ err'[c] = "nil" => err[c] = "nil"
      /\ err'[c] # "inUse"
      /\ \A d \in Callers \ {c} : err'[d] = err[d]
  <2>1. err \in [Callers -> Errors] /\ err[c] # "inUse"
    BY <1>1 DEF Inv, TypeOK, AloneInv, InUseShared
  <2>2. pc \in [Callers -> {"idle", "send", "returned"} \cup Attempt]
    BY DEF Inv, TypeOK
  <2> QED
    BY <1>2, <2>1, <2>2 DEF AttemptEnds
<1>8. HasResponse' /\ InUseShared'
  BY <1>1, <1>3, <1>4, <1>7 DEF AloneInv, HasResponse, InUseShared, Alone
<1> QED
  BY <1>5, <1>6, <1>8 DEF AloneInv

LEMMA AloneRxDone ==
  ASSUME Inv, AloneInv, NEW c \in Callers, RxDone(c)
  PROVE  AloneInv'
<1>1. /\ rxMsg.xid \in Xids /\ pending[rxMsg.xid] = c
      /\ pc[c] = "remove" /\ req[c].xid = rxMsg.xid
  <2>1. rxMsg.xid \in Xids /\ pending[rxMsg.xid] = c /\ pc[c] = "remove"
    BY DEF Inv, RxHolds, RxDone, Packet
  <2> QED
    BY <2>1, NoneIsNil DEF Inv, PendingLive
<1>2. /\ pending' = [pending EXCEPT ![rxMsg.xid] = None]
      /\ UNCHANGED <<pc, req, err, response>>
  BY DEF RxDone, CloseAndDelete
<1>3. \A d \in Callers : pc[d] \in Attempt \ {"remove"} /\ Alone(d)
                           => req[d].xid # rxMsg.xid
  BY <1>1, DistinctXids DEF AloneInv, Attempt
<1>4. Registered'
  BY <1>1, <1>2, <1>3, AloneRemoveEntry DEF AloneInv
<1>5. OwnRequest' /\ HasResponse' /\ InUseShared'
  BY <1>2 DEF AloneInv, OwnRequest, HasResponse, InUseShared, Alone
<1> QED
  BY <1>4, <1>5 DEF AloneInv

LEMMA AloneRxSend ==
  ASSUME Inv, AloneInv, NEW c \in Callers, RxSend(c)
  PROVE  AloneInv'
<1>1. pc \in [Callers -> {"idle", "send", "returned"} \cup Attempt]
  BY DEF Inv, TypeOK
<1>2. chClosed[c] = FALSE
  <2>1. rxMsg.xid \in Xids /\ pending[rxMsg.xid] = c
    BY DEF Inv, RxHolds, RxSend, Packet
  <2>2. chClosed[c] \in BOOLEAN
    BY DEF Inv, TypeOK
  <2> QED
    BY <2>1, <2>2, NoneIsNil DEF Inv, PendingLive
<1>3. /\ \A d \in Callers : pc'[d] = pc[d] \/ (pc[d] = "select" /\ pc'[d] = "recv")
      /\ UNCHANGED <<pending, req, err, response, panic>>
  <2>1. BufferCap = 0 => pc[c] = "select"
    <3>1. buf[c] \in Seq(Packet)
      BY DEF Inv, TypeOK
    <3> QED
      BY <1>2, <3>1 DEF RxSend, CanSend
  <2> QED
    BY <1>1, <1>2, <2>1 DEF RxSend
<1>4. Registered'
  BY <1>3, RegisteredKept DEF AloneInv, Attempt
<1>5. OwnRequest' /\ HasResponse' /\ InUseShared'
  BY <1>3 DEF AloneInv, OwnRequest, HasResponse, InUseShared, Alone
<1> QED
  BY <1>3, <1>4, <1>5 DEF AloneInv

(* The steps that change nothing the invariant speaks of. *)
LEMMA AloneUnchanged ==
  ASSUME AloneInv, UNCHANGED <<pending, pc, req, err, response>>
  PROVE  AloneInv'
BY DEF AloneInv, OwnRequest, Registered, HasResponse, InUseShared, Alone

LEMMA AloneNext == Inv /\ AloneInv /\ [Next]_vars => AloneInv'
<1> SUFFICES ASSUME Inv, AloneInv, [Next]_vars PROVE AloneInv'
  OBVIOUS
<1>1. ASSUME NEW c \in Callers, NEW r \in Requests, SendAndRead(c, r)
      PROVE  AloneInv'
  BY <1>1, AloneSendAndRead
<1>2. ASSUME NEW c \in Callers, CallStep(c) \/ CtxCancel(c) PROVE AloneInv'
  BY <1>2, AloneLocal, AloneSelectPacket, AloneSelectNil, AloneSendRegister,
     AloneCancelRemove DEF CallStep
<1>3. ASSUME NEW c \in Callers, RxDone(c) \/ RxSend(c) PROVE AloneInv'
  BY <1>3, AloneRxDone, AloneRxSend
<1>4. ASSUME NEW p \in Datagram, RxRead(p) PROVE AloneInv'
  BY <1>4, AloneUnchanged DEF RxRead
<1>5. CASE RxReadError \/ RxLock
  BY <1>5, AloneUnchanged DEF RxReadError, RxLock
<1>6. ASSUME NEW k \in Closers,
             CloseCAS(k) \/ CloseConn(k) \/ CloseDone(k) \/ CloseWait(k)
      PROVE  AloneInv'
  BY <1>6, AloneUnchanged DEF CloseCAS, CloseConn, CloseDone, CloseWait, CloseStep
<1>7. CASE UNCHANGED vars
  BY <1>7, AloneUnchanged DEF vars
<1> QED
  BY <1>1, <1>2, <1>3, <1>4, <1>5, <1>6, <1>7 DEF Next

LEMMA InitAlone == Init => AloneInv
<1> SUFFICES ASSUME Init PROVE AloneInv
  OBVIOUS
<1>1. \A c \in Callers : pc[c] = "idle" /\ err[c] = "nil"
  BY DEF Init
<1> QED
  BY <1>1 DEF AloneInv, OwnRequest, Registered, HasResponse, InUseShared, Attempt

(* A call whose transaction ID no other caller uses keeps its entry in the *)
(* map while it waits, never receives from a closed channel, returns a     *)
(* packet when it returns no error, and is not told its ID is in use: the  *)
(* cancels of other calls and of its own earlier attempts cannot harm it.  *)
THEOREM CallSafety ==
  Spec => []AloneUndisturbed
<1>1. Inv /\ AloneInv => AloneUndisturbed
  BY AloneChannelOpen DEF AloneInv, HasResponse, InUseShared, AloneGetsPacket,
     NeverInUse, AloneUndisturbed
<1> QED
  BY Invariance, InitAlone, AloneNext, <1>1, PTL DEF Spec

-----------------------------------------------------------------------------
(* What a call returns, whether or not transaction IDs are shared.         *)

(* A packet that may answer caller c. *)
ForMe(p) == p.op = "reply" /\ (IfaceHWAddr # None => p.hw = IfaceHWAddr)
Answers(c, p) == ForMe(p) /\ p.xid = req[c].xid

(* Everything between receiveLoop's checks and the caller's select answers *)
(* the call it is on its way to, and what a call holds its matcher took.   *)
RxForMe == rxpc \in {"lock", "deliver"} => ForMe(rxMsg)
BufAnswers ==
  \A c \in Callers : pc[c] \in Attempt =>
    \A i \in 1..Len(buf[c]) : Answers(c, buf[c][i])
HeldMatches ==
  \A c \in Callers : response[c] # None =>
    /\ pc[c] \in {"cancel", "remove", "returned"}
    /\ err[c] = "nil"
    /\ Answers(c, response[c])
    /\ req[c].match # None => response[c].type \in req[c].match

RespInv == RxForMe /\ BufAnswers /\ HeldMatches

(* RespInv survives a step that changes neither requests, responses nor    *)
(* channels and takes no caller into an attempt or out of its decision.    *)
LEMMA RespKept ==
  ASSUME RespInv, RxForMe', UNCHANGED <<req, response, buf>>,
         \A d \in Callers : pc'[d] \in Attempt => pc[d] \in Attempt,
         \A d \in Callers : response[d] # None =>
           pc'[d] \in {"cancel", "remove", "returned"} /\ err'[d] = "nil"
  PROVE  RespInv'
<1>1. BufAnswers'
  BY DEF RespInv, BufAnswers, Answers
<1>2. HeldMatches'
  BY DEF RespInv, HeldMatches, Answers
<1> QED
  BY <1>1, <1>2 DEF RespInv

LEMMA RespLocal ==
  ASSUME Inv, RespInv, NEW c \in Callers,
         \/ SendWrite(c) \/ Arm(c) \/ SelectDone(c) \/ SelectTimeout(c)
         \/ SelectCtx(c) \/ CancelDone(c) \/ CtxCancel(c)
  PROVE  RespInv'
<1>1. ASSUME NEW l, NEW e, Moves(c, l, e),
             \/ pc[c] = "write" /\ l = "arm" /\ e = err[c]
             \/ pc[c] = "arm" /\ l = "select" /\ e = err[c]
             \/ pc[c] = "cancel" /\ l = "remove" /\ e = err[c]
             \/ l = pc[c] /\ e = err[c]
             \/ pc[c] \in {"write", "select"} /\ l = "cancel" /\ e \in Failures
      PROVE  RespInv'
  <2>1. /\ pc'[c] = l /\ err'[c] = e
        /\ \A d \in Callers \ {c} : pc'[d] = pc[d] /\ err'[d] = err[d]
        /\ UNCHANGED <<rxpc, rxMsg, req, response, buf>>
    BY <1>1 DEF Inv, TypeOK, Moves
  <2>2. \A d \in Callers : pc'[d] \in Attempt => pc[d] \in Attempt
    BY <1>1, <2>1 DEF Attempt
  <2>3. \A d \in Callers : response[d] # None =>
          pc'[d] \in {"cancel", "remove", "returned"} /\ err'[d] = "nil"
    BY <1>1, <2>1 DEF RespInv, HeldMatches
  <2>4. RxForMe'
    BY <2>1 DEF RespInv, RxForMe
  <2> QED
    BY <2>1, <2>2, <2>3, <2>4, RespKept
<1>2. CASE pc[c] \in {"write", "select"} /\ \E e \in Failures : Moves(c, "cancel", e)
  BY <1>1, <1>2
<1> QED
  BY <1>1, <1>2, LocalMoves

LEMMA RespSelectNil ==
  ASSUME Inv, RespInv, NEW c \in Callers, SelectNil(c)
  PROVE  RespInv'
<1>1. pc[c] = "select" /\ UNCHANGED <<rxpc, rxMsg, req, response, buf>>
  BY DEF SelectNil
<1>2. /\ pc'[c] \in {"select", "cancel"}
      /\ \A d \in Callers \ {c} : pc'[d] = pc[d] /\ err'[d] = err[d]
  BY DEF Inv, TypeOK, SelectNil, Decide
<1>3. \A d \in Callers : pc'[d] \in Attempt => pc[d] \in Attempt
  BY <1>1, <1>2 DEF Attempt
<1>4. \A d \in Callers : response[d] # None =>
        pc'[d] \in {"cancel", "remove", "returned"} /\ err'[d] = "nil"
  BY <1>1, <1>2 DEF RespInv, HeldMatches
<1>5. RxForMe'
  BY <1>1 DEF RespInv, RxForMe
<1> QED
  BY <1>1, <1>3, <1>4, <1>5, RespKept

LEMMA RespSelectPacket ==
  ASSUME Inv, RespInv, NEW c \in Callers, SelectPacket(c)
  PROVE  RespInv'
<1>1. /\ pc \in [Callers -> {"idle", "send", "returned"} \cup Attempt]
      /\ err \in [Callers -> Errors]
      /\ response \in [Callers -> Packet \cup {None}]
      /\ buf \in [Callers -> Seq(Packet)]
  BY DEF Inv, TypeOK
<1>2. /\ buf[c] \in Seq(Packet) /\ buf[c] # <<>>
      /\ pc[c] \in {"select", "recv"} /\ response[c] = None
  BY <1>1 DEF SelectPacket, RespInv, HeldMatches
<1>3. /\ Head(buf[c]) = buf[c][1] /\ 1 \in 1..Len(buf[c])
      /\ \A i \in 1..Len(Tail(buf[c])) :
           Tail(buf[c])[i] = buf[c][i+1] /\ i+1 \in 1..Len(buf[c])
  <2> DEFINE q == buf[c]
  <2>1. q \in Seq(Packet) /\ q # <<>>
    BY <1>2
  <2>2. /\ Len(Tail(q)) = Len(q) - 1
        /\ \A i \in 1..Len(Tail(q)) : Tail(q)[i] = q[i+1]
    BY <2>1, HeadTailProperties
  <2>3. Len(q) \in Nat \ {0}
    BY <2>1, EmptySeq
  <2>4. Head(q) = q[1]
    BY <2>1
  <2> HIDE DEF q
  <2>5. 1 \in 1..Len(q) /\ \A i \in 1..(Len(q) - 1) : i+1 \in 1..Len(q)
    BY <2>3
  <2>6. /\ Head(q) = q[1] /\ 1 \in 1..Len(q)
        /\ \A i \in 1..Len(Tail(q)) : Tail(q)[i] = q[i+1] /\ i+1 \in 1..Len(q)
    BY <2>2, <2>4, <2>5
  <2> QED
    BY <2>6 DEF q
<1>4. \A i \in 1..Len(buf[c]) : Answers(c, buf[c][i])
  BY <1>2 DEF RespInv, BufAnswers, Attempt
<1>5. /\ UNCHANGED <<rxpc, rxMsg, req>>
      /\ buf' = [buf EXCEPT ![c] = Tail(buf[c])]
      /\ \A d \in Callers \ {c} : /\ pc'[d] = pc[d] /\ err'[d] = err[d]
                                  /\ response'[d] = response[d]
      /\ \/ /\ pc'[c] = "cancel" /\ err'[c] = "nil"
            /\ response'[c] = Head(buf[c])
            /\ Matches(req[c].match, Head(buf[c]))
         \/ pc'[c] = "arm" /\ response'[c] = None
  <2>1. CASE Matches(req[c].match, Head(buf[c]))
    BY <1>1, <2>1 DEF SelectPacket, Decide
  <2>2. CASE ~Matches(req[c].match, Head(buf[c]))
    BY <1>1, <1>2, <2>2 DEF SelectPacket
  <2> QED
    BY <2>1, <2>2
<1>6. RxForMe'
  BY <1>5 DEF RespInv, RxForMe
<1>7. BufAnswers'
  <2> SUFFICES ASSUME NEW d \in Callers, pc'[d] \in Attempt,
                      NEW i \in 1..Len(buf'[d])
               PROVE  Answers(d, buf'[d][i])
    BY <1>5, ZenonT(60) DEF BufAnswers, Answers
  <2>1. CASE d = c
    <3>1. buf'[d] = Tail(buf[c])
      BY <1>1, <1>5, <2>1
    <3> QED
      BY <1>3, <1>4, <2>1, <3>1
  <2>2. CASE d # c
    <3>1. buf'[d] = buf[d] /\ pc[d] \in Attempt
      BY <1>1, <1>5, <2>2
    <3> QED
      BY <3>1 DEF RespInv, BufAnswers
  <2> QED
    BY <2>1, <2>2
<1>8. HeldMatches'
  <2> SUFFICES ASSUME NEW d \in Callers, response'[d] # None
               PROVE  /\ pc'[d] \in {"cancel", "remove", "returned"}
                      /\ err'[d] = "nil"
                      /\ Answers(d, response'[d])
                      /\ req[d].match # None => response'[d].type \in req[d].match
    BY <1>5 DEF HeldMatches, Answers
  <2>1. CASE d = c
    BY <1>3, <1>4, <1>5, <2>1 DEF Matches
  <2>2. CASE d # c
    BY <1>5, <2>2 DEF RespInv, HeldMatches
  <2> QED
    BY <2>1, <2>2
<1> QED
  BY <1>6, <1>7, <1>8 DEF RespInv

LEMMA RespSendAndRead ==
  ASSUME Inv, RespInv, NEW c \in Callers, NEW r \in Requests, SendAndRead(c, r)
  PROVE  RespInv'
<1>1. /\ pc \in [Callers -> {"idle", "send", "returned"} \cup Attempt]
      /\ err \in [Callers -> Errors]
      /\ response \in [Callers -> Packet \cup {None}]
      /\ req \in [Callers -> Requests \cup {None}]
  BY DEF Inv, TypeOK
<1>2. /\ \A d \in Callers \ {c} : /\ pc'[d] = pc[d] /\ err'[d] = err[d]
                                  /\ response'[d] = response[d]
                                  /\ req'[d] = req[d]
      /\ pc'[c] \notin Attempt /\ response'[c] = None
      /\ UNCHANGED <<rxpc, rxMsg, buf>>
  BY <1>1 DEF SendAndRead, Attempt
<1>3. RxForMe'
  BY <1>2 DEF RespInv, RxForMe
<1>4. BufAnswers'
  <2> SUFFICES ASSUME NEW d \in Callers, pc'[d] \in Attempt,
                      NEW i \in 1..Len(buf'[d])
               PROVE  Answers(d, buf[d][i])'
    BY DEF BufAnswers
  <2>1. d # c /\ pc[d] \in Attempt /\ buf' = buf /\ req'[d] = req[d]
    BY <1>2
  <2>2. Answers(d, buf[d][i])
    BY <2>1 DEF RespInv, BufAnswers
  <2> QED
    BY <2>1, <2>2 DEF Answers
<1>5. HeldMatches'
  BY <1>2 DEF RespInv, HeldMatches, Answers
<1> QED
  BY <1>3, <1>4, <1>5 DEF RespInv

LEMMA RespSendRegister ==
  ASSUME Inv, RespInv, NEW c \in Callers, SendRegister(c)
  PROVE  RespInv'
<1>1. pc[c] = "send" /\ UNCHANGED <<rxpc, rxMsg, req, response>>
  BY DEF SendRegister
<1>2. response[c] = None
  BY <1>1 DEF RespInv, HeldMatches
<1>3. RxForMe'
  BY <1>1 DEF RespInv, RxForMe
<1>4. CASE pending[req[c].xid] # None
  <2>1. AttemptEnds(c, "inUse") /\ buf' = buf
    BY <1>4 DEF SendRegister
  <2>2. /\ pc'[c] \in {"send", "returned"}
        /\ \A d \in Callers \ {c} : pc'[d] = pc[d]
    BY <2>1, AttemptEndsType DEF Inv, Errors
  <2>3. \A d \in Callers \ {c} : err'[d] = err[d]
    BY <2>1 DEF Inv, TypeOK, AttemptEnds
  <2>4. \A d \in Callers : pc'[d] \in Attempt => pc[d] \in Attempt
    BY <2>2 DEF Attempt
  <2>5. \A d \in Callers : response[d] # None =>
          pc'[d] \in {"cancel", "remove", "returned"} /\ err'[d] = "nil"
    BY <1>2, <2>2, <2>3 DEF RespInv, HeldMatches
  <2> QED
    BY <1>1, <1>3, <2>1, <2>4, <2>5, RespKept
<1>5. CASE pending[req[c].xid] = None
  <2>1. /\ buf' = [buf EXCEPT ![c] = <<>>]
        /\ pc' = [pc EXCEPT ![c] = "write"]
        /\ err' = err
    BY <1>5 DEF SendRegister
  <2>2. /\ buf'[c] = <<>>
        /\ \A d \in Callers \ {c} : pc'[d] = pc[d] /\ buf'[d] = buf[d]
    <3>1. pc \in [Callers -> {"idle", "send", "returned"} \cup Attempt]
      BY DEF Inv, TypeOK
    <3>2. buf \in [Callers -> Seq(Packet)]
      BY DEF Inv, TypeOK
    <3> QED
      BY <2>1, <3>1, <3>2
  <2>3. BufAnswers'
    <3> SUFFICES ASSUME NEW d \in Callers, pc'[d] \in Attempt,
                        NEW i \in 1..Len(buf'[d])
                 PROVE  Answers(d, buf'[d][i])
      BY <1>1 DEF BufAnswers, Answers
    <3>1. d # c
      <4>1. Len(buf'[c]) = 0
        BY <2>2
      <4> QED
        BY <4>1
    <3> QED
      BY <2>2, <3>1 DEF RespInv, BufAnswers
  <2>4. HeldMatches'
    BY <1>1, <1>2, <2>1, <2>2 DEF RespInv, HeldMatches, Answers
  <2> QED
    BY <1>3, <2>3, <2>4 DEF RespInv
<1> QED
  BY <1>4, <1>5

LEMMA RespCancelRemove ==
  ASSUME Inv, RespInv, NEW c \in Callers, CancelRemove(c)
  PROVE  RespInv'
<1>1. UNCHANGED <<rxpc, rxMsg, req, response, buf>>
  BY DEF CancelRemove
<1>2. err[c] \in Errors /\ AttemptEnds(c, err[c])
  BY DEF Inv, TypeOK, CancelRemove
<1>3. /\ pc'[c] \in {"send", "returned"}
      /\ \A d \in Callers \ {c} : pc'[d] = pc[d]
  BY <1>2, AttemptEndsType DEF Inv
<1>4. /\ err[c] = "nil" => pc'[c] = "returned" /\ err'[c] = "nil"
      /\ \A d \in Callers \ {c} : err'[d] = err[d]
  <2>1. /\ err \in [Callers -> Errors]
        /\ pc \in [Callers -> {"idle", "send", "returned"} \cup Attempt]
    BY DEF Inv, TypeOK
  <2> QED
    BY <1>2, <2>1 DEF AttemptEnds
<1>5. \A d \in Callers : pc'[d] \in Attempt => pc[d] \in Attempt
  BY <1>3 DEF Attempt
<1>6. \A d \in Callers : response[d] # None =>
        pc'[d] \in {"cancel", "remove", "returned"} /\ err'[d] = "nil"
  BY <1>3, <1>4 DEF RespInv, HeldMatches
<1>7. RxForMe'
  BY <1>1 DEF RespInv, RxForMe
<1> QED
  BY <1>1, <1>5, <1>6, <1>7, RespKept

(* RespInv survives a step of receiveLoop or Close that leaves callers and *)
(* channels alone.                                                         *)
LEMMA RespUnchanged ==
  ASSUME RespInv, RxForMe', UNCHANGED <<pc, req, err, response, buf>>
  PROVE  RespInv'
BY DEF RespInv, BufAnswers, HeldMatches, Answers

LEMMA RespRxRead ==
  ASSUME RespInv, NEW p \in Datagram, RxRead(p)
  PROVE  RespInv'
<1>1. RxForMe'
  BY DEF RespInv, RxForMe, RxRead, Accepts, ForMe
<1> QED
  BY <1>1, RespUnchanged DEF RxRead

LEMMA RespRxStep ==
  ASSUME RespInv, RxReadError \/ RxLock \/ \E c \in Callers : RxDone(c)
  PROVE  RespInv'
<1>1. CASE RxReadError
  BY <1>1, RespUnchanged DEF RespInv, RxForMe, RxReadError
<1>2. CASE RxLock
  BY <1>2, RespUnchanged DEF RespInv, RxForMe, RxLock
<1>3. ASSUME NEW c \in Callers, RxDone(c) PROVE RespInv'
  BY <1>3, RespUnchanged DEF RespInv, RxForMe, RxDone
<1> QED
  BY <1>1, <1>2, <1>3

LEMMA RespRxSend ==
  ASSUME Inv, RespInv, NEW c \in Callers, RxSend(c)
  PROVE  RespInv'
<1>1. /\ pc \in [Callers -> {"idle", "send", "returned"} \cup Attempt]
      /\ buf \in [Callers -> Seq(Packet)]
  BY DEF Inv, TypeOK
<1>2. /\ rxpc = "deliver" /\ pending[rxMsg.xid] = c
      /\ buf' = [buf EXCEPT ![c] = Append(buf[c], rxMsg)]
      /\ rxpc' = "read"
      /\ UNCHANGED <<req, err, response>>
  BY DEF RxSend
<1>3. rxMsg \in Packet
  BY <1>2 DEF Inv, RxHolds
<1>4. rxMsg.xid \in Xids /\ c # None
  BY <1>3, NoneIsNil DEF Packet
<1>5. /\ pc[c] \in Attempt /\ ~chClosed[c] /\ Answers(c, rxMsg)
  BY <1>2, <1>4 DEF Inv, PendingLive, RespInv, RxForMe, Answers
<1>6. /\ \A d \in Callers \ {c} : pc'[d] = pc[d]
      /\ pc'[c] = pc[c] \/ (pc[c] = "select" /\ pc'[c] = "recv")
  <2>1. Len(buf[c]) \in Nat
    BY <1>1
  <2>2. BufferCap = 0 => pc[c] = "select"
    <3>1. CanSend(c) /\ ~chClosed[c]
      BY <1>5 DEF RxSend
    <3>2. BufferCap = 0 => ~(Len(buf[c]) < BufferCap)
      BY <2>1
    <3> QED
      BY <3>1, <3>2, Zenon DEF CanSend
  <2>3. CASE BufferCap = 0
    BY <1>1, <1>5, <2>2, <2>3 DEF RxSend
  <2>4. CASE BufferCap # 0
    BY <1>1, <1>5, <2>4 DEF RxSend
  <2> QED
    BY <2>3, <2>4
<1>7. RxForMe'
  BY <1>2 DEF RxForMe
<1>8. BufAnswers'
  <2> SUFFICES ASSUME NEW d \in Callers, pc'[d] \in Attempt,
                      NEW i \in 1..Len(buf'[d])
               PROVE  Answers(d, buf'[d][i])
    BY <1>2 DEF BufAnswers, Answers
  <2>1. pc[d] \in Attempt
    BY <1>5, <1>6
  <2>2. CASE d = c
    <3>1. buf'[d] = Append(buf[c], rxMsg) /\ buf[c] \in Seq(Packet)
      BY <1>1, <1>2, <2>2
    <3>2. \/ i \in 1..Len(buf[c]) /\ buf'[d][i] = buf[c][i]
          \/ buf'[d][i] = rxMsg
      <4>1. /\ Len(Append(buf[c], rxMsg)) = Len(buf[c]) + 1
            /\ \A j \in 1..Len(buf[c]) : Append(buf[c], rxMsg)[j] = buf[c][j]
            /\ Append(buf[c], rxMsg)[Len(buf[c]) + 1] = rxMsg
        BY <1>3, <3>1, AppendProperties
      <4>2. Len(buf[c]) \in Nat
        BY <3>1, LenProperties
      <4> QED
        BY <3>1, <4>1, <4>2
    <3> QED
      BY <1>5, <2>2, <3>2 DEF RespInv, BufAnswers
  <2>3. CASE d # c
    <3>1. buf'[d] = buf[d]
      BY <1>1, <1>2, <2>3
    <3> QED
      BY <2>1, <3>1 DEF RespInv, BufAnswers
  <2> QED
    BY <2>2, <2>3
<1>9. HeldMatches'
  BY <1>2, <1>6 DEF RespInv, HeldMatches, Answers
<1> QED
  BY <1>7, <1>8, <1>9 DEF RespInv

LEMMA RespNext == Inv /\ RespInv /\ [Next]_vars => RespInv'
<1> SUFFICES ASSUME Inv, RespInv, [Next]_vars PROVE RespInv'
  OBVIOUS
<1>1. ASSUME NEW c \in Callers, NEW r \in Requests, SendAndRead(c, r)
      PROVE  RespInv'
  BY <1>1, RespSendAndRead
<1>2. ASSUME NEW c \in Callers, CallStep(c) \/ CtxCancel(c) PROVE RespInv'
  BY <1>2, RespLocal, RespSelectPacket, RespSelectNil, RespSendRegister,
     RespCancelRemove DEF CallStep
<1>3. ASSUME NEW c \in Callers, RxDone(c) \/ RxSend(c) PROVE RespInv'
  BY <1>3, RespRxStep, RespRxSend
<1>4. ASSUME NEW p \in Datagram, RxRead(p) PROVE RespInv'
  BY <1>4, RespRxRead
<1>5. CASE RxReadError \/ RxLock
  BY <1>5, RespRxStep
<1>6. ASSUME NEW k \in Closers,
             CloseCAS(k) \/ CloseConn(k) \/ CloseDone(k) \/ CloseWait(k)
      PROVE  RespInv'
  BY <1>6, RespUnchanged DEF RespInv, RxForMe,
     CloseCAS, CloseConn, CloseDone, CloseWait, CloseStep
<1>7. CASE UNCHANGED vars
  BY <1>7, RespUnchanged DEF RespInv, RxForMe, vars
<1> QED
  BY <1>1, <1>2, <1>3, <1>4, <1>5, <1>6, <1>7 DEF Next

LEMMA InitResp == Init => RespInv
BY DEF Init, RespInv, RxForMe, BufAnswers, HeldMatches, Attempt

LEMMA ResponseInvariance == Spec => []RespInv
BY Invariance, InitResp, RespNext, PTL DEF Spec

(* Whatever a call returns is a reply to its own transaction ID, for this  *)
(* interface, that its matcher accepts, also when callers share IDs.       *)
THEOREM ResponseSafety == Spec => []ResponseMatches
<1>1. RespInv => ResponseMatches
  BY DEF RespInv, HeldMatches, ResponseMatches, Answers, ForMe
<1> QED
  BY ResponseInvariance, <1>1, PTL

-----------------------------------------------------------------------------
(* That the response is the first one.  Some packet of q matches m; the    *)
(* first one that does is f, if there is one.                              *)
AnyOf(m, q) == \E i \in 1..Len(q) : Matches(m, q[i])
FirstOf(m, q, f) ==
  \A i \in 1..Len(q) :
    Matches(m, q[i]) /\ (\A j \in 1..(i-1) : ~Matches(m, q[j])) => q[i] = f

(* The attempt of c has not been decided yet.                              *)
Undecided(c) == pc[c] \in {"write", "arm", "select", "recv"}

(* receiveLoop is blocked with a packet for c's channel.                   *)
Delivering(c) == rxpc = "deliver" /\ pending[rxMsg.xid] = c

(* While an attempt is undecided, the first matching packet received for   *)
(* it is the first one in its channel, or failing that the one receiveLoop *)
(* holds for it, and it is in one of the two places.                       *)
OnItsWay(c) ==
  LET m == req[c].match IN
  /\ FirstOf(m, buf[c], first[c])
  /\ Delivering(c) /\ Matches(m, rxMsg) /\ ~AnyOf(m, buf[c]) => rxMsg = first[c]
  /\ first[c] # None => AnyOf(m, buf[c]) \/ (Delivering(c) /\ Matches(m, rxMsg))

FirstFor(c) ==
  /\ Undecided(c) => OnItsWay(c)
  /\ response[c] # None => response[c] = first[c]

(* The inductive invariant, on top of Inv and RespInv.                     *)
FirstInv == \A c \in Callers : FirstFor(c)

LEMMA FirstOfTail ==
  ASSUME NEW q \in Seq(Packet), q # <<>>, NEW m, NEW f, FirstOf(m, q, f)
  PROVE  /\ Matches(m, Head(q)) => Head(q) = f
         /\ ~Matches(m, Head(q)) => /\ FirstOf(m, Tail(q), f)
                                    /\ AnyOf(m, q) <=> AnyOf(m, Tail(q))
<1>1. Len(q) \in Nat \ {0}
  BY EmptySeq, LenProperties
<1>2. Head(q) = q[1]
  OBVIOUS
<1>3. /\ Len(Tail(q)) = Len(q) - 1
      /\ \A i \in 1..Len(Tail(q)) : Tail(q)[i] = q[i+1]
  BY HeadTailProperties
<1>4. Matches(m, Head(q)) => Head(q) = f
  <2>1. 1 \in 1..Len(q) /\ 1..(1-1) = {}
    BY <1>1
  <2> QED
    BY <1>2, <2>1 DEF FirstOf
<1>5. ASSUME ~Matches(m, q[1]) PROVE FirstOf(m, Tail(q), f)
  <2> SUFFICES ASSUME NEW i \in 1..Len(Tail(q)), Matches(m, Tail(q)[i]),
                      \A j \in 1..(i-1) : ~Matches(m, Tail(q)[j])
               PROVE  Tail(q)[i] = f
    BY DEF FirstOf
  <2>1. i + 1 \in 1..Len(q) /\ Tail(q)[i] = q[i+1]
    BY <1>1, <1>3
  <2>2. ASSUME NEW j \in 1..(i+1-1) PROVE ~Matches(m, q[j])
    <3>1. CASE j = 1
      BY <1>5, <3>1
    <3>2. CASE j # 1
      <4>1. j - 1 \in 1..(i-1) /\ j - 1 \in 1..Len(Tail(q)) /\ j - 1 + 1 = j
        BY <1>1, <1>3, <3>2
      <4>2. Tail(q)[j-1] = q[j]
        BY <1>3, <4>1
      <4> QED
        BY <4>1, <4>2
    <3> QED
      BY <3>1, <3>2
  <2> QED
    BY <2>1, <2>2 DEF FirstOf
<1>6. ASSUME ~Matches(m, q[1]) PROVE AnyOf(m, q) <=> AnyOf(m, Tail(q))
  <2>1. ASSUME NEW i \in 1..Len(q), Matches(m, q[i]) PROVE AnyOf(m, Tail(q))
    <3>1. i # 1
      BY <1>6, <2>1
    <3>2. i - 1 \in 1..Len(Tail(q)) /\ i - 1 + 1 = i
      BY <1>1, <1>3, <3>1
    <3>3. Tail(q)[i-1] = q[i]
      BY <1>3, <3>2
    <3> QED
      BY <2>1, <3>2, <3>3 DEF AnyOf
  <2>2. ASSUME NEW i \in 1..Len(Tail(q)), Matches(m, Tail(q)[i]) PROVE AnyOf(m, q)
    <3>1. i + 1 \in 1..Len(q) /\ Tail(q)[i] = q[i+1]
      BY <1>1, <1>3
    <3> QED
      BY <2>2, <3>1 DEF AnyOf
  <2> QED
    BY <2>1, <2>2 DEF AnyOf
<1> QED
  BY <1>2, <1>4, <1>5, <1>6

LEMMA FirstOfAppend ==
  ASSUME NEW q \in Seq(Packet), NEW p \in Packet, NEW m, NEW f,
         FirstOf(m, q, f), Matches(m, p) /\ ~AnyOf(m, q) => p = f
  PROVE  /\ FirstOf(m, Append(q, p), f)
         /\ AnyOf(m, Append(q, p)) <=> AnyOf(m, q) \/ Matches(m, p)
<1> DEFINE n == Len(q)
           r == Append(q, p)
<1>1. n \in Nat
  BY LenProperties
<1>2. /\ Len(r) = n + 1
      /\ \A i \in 1..n : r[i] = q[i]
      /\ r[n+1] = p
  BY AppendProperties
<1>3. AnyOf(m, q) <=> \E i \in 1..n : Matches(m, q[i])
  BY DEF AnyOf
<1>4. \A i \in 1..n : Matches(m, q[i]) /\ (\A j \in 1..(i-1) : ~Matches(m, q[j])) => q[i] = f
  BY DEF FirstOf
<1> HIDE DEF n, r
<1>5. ASSUME NEW i \in 1..(n+1), Matches(m, r[i]), \A j \in 1..(i-1) : ~Matches(m, r[j])
      PROVE  r[i] = f
  <2>1. CASE i = n + 1
    <3>1. \A j \in 1..n : ~Matches(m, r[j])
      BY <1>1, <1>5, <2>1
    <3>2. ~AnyOf(m, q)
      BY <1>2, <1>3, <3>1
    <3> QED
      BY <1>2, <1>5, <2>1, <3>2
  <2>2. CASE i # n + 1
    <3>1. i \in 1..n /\ \A j \in 1..(i-1) : j \in 1..n
      BY <1>1, <2>2
    <3>2. \A j \in 1..(i-1) : ~Matches(m, q[j])
      BY <1>2, <1>5, <3>1
    <3> QED
      BY <1>2, <1>4, <1>5, <3>1, <3>2
  <2> QED
    BY <2>1, <2>2
<1>6. FirstOf(m, r, f)
  BY <1>2, <1>5 DEF FirstOf
<1>7. AnyOf(m, r) <=> AnyOf(m, q) \/ Matches(m, p)
  <2>1. n + 1 \in 1..(n+1) /\ \A i \in 1..n : i \in 1..(n+1)
    BY <1>1
  <2>2. \A i \in 1..(n+1) : i \in 1..n \/ i = n + 1
    BY <1>1
  <2>3. AnyOf(m, r) <=> \E i \in 1..(n+1) : Matches(m, r[i])
    BY <1>2 DEF AnyOf
  <2> QED
    BY <1>2, <1>3, <2>1, <2>2, <2>3
<1> QED
  BY <1>6, <1>7 DEF r

(* A step that leaves c's call and the packets on their way to it alone.   *)
LEMMA FirstSame ==
  ASSUME NEW c, FirstFor(c),
         buf'[c] = buf[c], first'[c] = first[c], req'[c] = req[c],
         response'[c] = response[c],
         Undecided(c)' => Undecided(c),
         Delivering(c)' <=> Delivering(c),
         Delivering(c) => rxMsg' = rxMsg
  PROVE  FirstFor(c)'
BY DEF FirstFor, OnItsWay

(* A step of caller c that touches neither the map nor a channel.          *)
LEMMA FirstQuiet ==
  ASSUME FirstInv, UNCHANGED <<pending, rxpc, rxMsg, req, response, buf, first>>,
         \A d \in Callers : Undecided(d)' => Undecided(d)
  PROVE  FirstInv'
<1> SUFFICES ASSUME NEW d \in Callers PROVE FirstFor(d)'
  BY DEF FirstInv
<1>1. FirstFor(d) /\ (Delivering(d)' <=> Delivering(d))
  BY DEF FirstInv, Delivering
<1> QED
  BY <1>1, FirstSame

LEMMA FirstLocal ==
  ASSUME Inv, FirstInv, NEW c \in Callers,
         \/ SendWrite(c) \/ Arm(c) \/ SelectDone(c) \/ SelectTimeout(c)
         \/ SelectCtx(c) \/ CancelDone(c) \/ CtxCancel(c) \/ SelectNil(c)
  PROVE  FirstInv'
<1>1. pc \in [Callers -> {"idle", "send", "returned"} \cup Attempt]
  BY DEF Inv, TypeOK
<1>2. CASE SelectNil(c)
  <2>1. \A d \in Callers : Undecided(d)' => Undecided(d)
    BY <1>1, <1>2 DEF SelectNil, Decide, Undecided
  <2> QED
    BY <1>2, <2>1, FirstQuiet DEF SelectNil
<1>3. ASSUME NEW l, NEW e, Moves(c, l, e),
             \/ l = pc[c]
             \/ pc[c] \in {"write", "arm"}
             \/ l \in {"cancel", "remove"}
      PROVE  FirstInv'
  <2>1. \A d \in Callers : Undecided(d)' => Undecided(d)
    BY <1>1, <1>3 DEF Moves, Undecided
  <2> QED
    BY <1>3, <2>1, FirstQuiet DEF Moves
<1>4. CASE pc[c] \in {"write", "select"} /\ \E e \in Failures : Moves(c, "cancel", e)
  BY <1>3, <1>4
<1> QED
  BY <1>2, <1>3, <1>4, LocalMoves

LEMMA FirstSelectPacket ==
  ASSUME Inv, RespInv, FirstInv, NEW c \in Callers, SelectPacket(c)
  PROVE  FirstInv'
<1>1. /\ pc \in [Callers -> {"idle", "send", "returned"} \cup Attempt]
      /\ response \in [Callers -> Packet \cup {None}]
      /\ buf \in [Callers -> Seq(Packet)]
  BY DEF Inv, TypeOK
<1>2. /\ buf[c] \in Seq(Packet) /\ buf[c] # <<>>
      /\ Undecided(c) /\ response[c] = None
  BY <1>1 DEF SelectPacket, RespInv, HeldMatches, Undecided
<1>3. /\ UNCHANGED <<pending, rxpc, rxMsg, req, first>>
      /\ buf' = [buf EXCEPT ![c] = Tail(buf[c])]
  BY DEF SelectPacket
<1>4. \A d \in Callers : Delivering(d)' <=> Delivering(d)
  BY <1>3 DEF Delivering
<1> DEFINE m == req[c].match
<1>5. /\ FirstOf(m, buf[c], first[c])
      /\ Delivering(c) /\ Matches(m, rxMsg) /\ ~AnyOf(m, buf[c]) => rxMsg = first[c]
      /\ first[c] # None => AnyOf(m, buf[c]) \/ (Delivering(c) /\ Matches(m, rxMsg))
  BY <1>2 DEF FirstInv, FirstFor, OnItsWay
<1>6. /\ Matches(m, Head(buf[c])) => Head(buf[c]) = first[c]
      /\ ~Matches(m, Head(buf[c])) =>
           /\ FirstOf(m, Tail(buf[c]), first[c])
           /\ AnyOf(m, buf[c]) <=> AnyOf(m, Tail(buf[c]))
  BY <1>2, <1>5, FirstOfTail
<1>7. FirstFor(c)'
  <2>1. CASE Matches(m, Head(buf[c]))
    <3>1. pc'[c] = "cancel" /\ response'[c] = Head(buf[c])
      BY <1>1, <2>1 DEF SelectPacket, Decide
    <3> QED
      BY <1>3, <1>6, <2>1, <3>1 DEF FirstFor, Undecided
  <2>2. CASE ~Matches(m, Head(buf[c]))
    <3>1. response'[c] = None /\ buf'[c] = Tail(buf[c])
      BY <1>1, <1>2, <1>3, <2>2 DEF SelectPacket
    <3>2. OnItsWay(c)'
      BY <1>3, <1>4, <1>5, <1>6, <2>2, <3>1 DEF OnItsWay
    <3> QED
      BY <3>1, <3>2 DEF FirstFor
  <2> QED
    BY <2>1, <2>2
<1>8. ASSUME NEW d \in Callers, d # c PROVE FirstFor(d)'
  <2>1. pc'[d] = pc[d] /\ response'[d] = response[d] /\ buf'[d] = buf[d]
    BY <1>1, <1>3, <1>8 DEF SelectPacket, Decide
  <2>2. FirstFor(d) /\ (Undecided(d)' => Undecided(d))
    BY <2>1 DEF FirstInv, Undecided
  <2> QED
    BY <1>3, <1>4, <2>1, <2>2, FirstSame
<1> QED
  BY <1>7, <1>8 DEF FirstInv

LEMMA FirstSendAndRead ==
  ASSUME Inv, FirstInv, NEW c \in Callers, NEW r \in Requests, SendAndRead(c, r)
  PROVE  FirstInv'
<1>1. /\ pc \in [Callers -> {"idle", "send", "returned"} \cup Attempt]
      /\ response \in [Callers -> Packet \cup {None}]
      /\ req \in [Callers -> Requests \cup {None}]
  BY DEF Inv, TypeOK
<1>2. /\ UNCHANGED <<pending, rxpc, rxMsg, buf, first>>
      /\ \A d \in Callers \ {c} : /\ pc'[d] = pc[d] /\ req'[d] = req[d]
                                  /\ response'[d] = response[d]
      /\ pc'[c] \in {"send", "returned"} /\ response'[c] = None
  BY <1>1 DEF SendAndRead
<1>3. FirstFor(c)'
  BY <1>2 DEF FirstFor, Undecided
<1>4. ASSUME NEW d \in Callers \ {c} PROVE FirstFor(d)'
  <2>1. /\ FirstFor(d) /\ (Undecided(d)' => Undecided(d))
        /\ Delivering(d)' <=> Delivering(d)
    BY <1>2 DEF FirstInv, Undecided, Delivering
  <2> QED
    BY <1>2, <2>1, FirstSame
<1> QED
  BY <1>3, <1>4 DEF FirstInv

LEMMA FirstSendRegister ==
  ASSUME Inv, RespInv, FirstInv, NEW c \in Callers, SendRegister(c)
  PROVE  FirstInv'
<1>1. /\ pc \in [Callers -> {"idle", "send", "returned"} \cup Attempt]
      /\ buf \in [Callers -> Seq(Packet)]
      /\ first \in [Callers -> Packet \cup {None}]
  BY DEF Inv, TypeOK
<1>2. /\ pc[c] = "send" /\ UNCHANGED <<rxpc, rxMsg, req, response>>
      /\ \A d \in Callers : ~Delivering(d) /\ ~Delivering(d)'
  BY DEF SendRegister, MuFree, Delivering
<1>3. CASE pending[req[c].xid] # None
  <2>1. AttemptEnds(c, "inUse") /\ UNCHANGED <<pending, buf, first>>
    BY <1>3 DEF SendRegister
  <2>2. /\ pc'[c] \in {"send", "returned"}
        /\ \A d \in Callers \ {c} : pc'[d] = pc[d]
    BY <2>1, AttemptEndsType DEF Inv, Errors
  <2>3. \A d \in Callers : Undecided(d)' => Undecided(d)
    BY <2>2 DEF Undecided
  <2> QED
    BY <1>2, <2>1, <2>3, FirstQuiet
<1>4. CASE pending[req[c].xid] = None
  <2>1. /\ buf' = [buf EXCEPT ![c] = <<>>]
        /\ pc' = [pc EXCEPT ![c] = "write"]
        /\ first' = [first EXCEPT ![c] = None]
    BY <1>4 DEF SendRegister
  <2>2. response[c] = None
    BY <1>2 DEF RespInv, HeldMatches
  <2>3. FirstFor(c)'
    <3>1. buf'[c] = <<>> /\ first'[c] = None /\ response'[c] = None
      BY <1>1, <1>2, <2>1, <2>2
    <3>2. FirstOf(req'[c].match, <<>>, None)
      BY DEF FirstOf
    <3>3. OnItsWay(c)'
      BY <1>2, <3>1, <3>2 DEF OnItsWay
    <3> QED
      BY <3>1, <3>3 DEF FirstFor
  <2>4. ASSUME NEW d \in Callers, d # c PROVE FirstFor(d)'
    <3>1. pc'[d] = pc[d] /\ buf'[d] = buf[d] /\ first'[d] = first[d]
      BY <1>1, <2>1, <2>4
    <3>2. FirstFor(d) /\ (Undecided(d)' => Undecided(d))
      BY <3>1 DEF FirstInv, Undecided
    <3> QED
      BY <1>2, <3>1, <3>2, FirstSame
  <2> QED
    BY <2>3, <2>4 DEF FirstInv
<1> QED
  BY <1>3, <1>4

LEMMA FirstCancelRemove ==
  ASSUME Inv, FirstInv, NEW c \in Callers, CancelRemove(c)
  PROVE  FirstInv'
<1>1. /\ UNCHANGED <<rxpc, rxMsg, req, response, buf, first>>
      /\ \A d \in Callers : ~Delivering(d) /\ ~Delivering(d)'
  BY DEF CancelRemove, MuFree, Delivering
<1>2. err[c] \in Errors /\ AttemptEnds(c, err[c])
  BY DEF Inv, TypeOK, CancelRemove
<1>3. /\ pc'[c] \in {"send", "returned"}
      /\ \A d \in Callers \ {c} : pc'[d] = pc[d]
  BY <1>2, AttemptEndsType DEF Inv
<1>4. \A d \in Callers : FirstFor(d) /\ (Undecided(d)' => Undecided(d))
  BY <1>3 DEF FirstInv, Undecided
<1> QED
  BY <1>1, <1>4, FirstSame DEF FirstInv

LEMMA FirstRxRead ==
  ASSUME FirstInv, RxReadError \/ \E p \in Datagram : RxRead(p)
  PROVE  FirstInv'
<1>1. /\ UNCHANGED <<pending, pc, req, response, buf, first>>
      /\ rxpc = "read" /\ rxpc' # "deliver"
  BY DEF RxRead, RxReadError
<1>2. \A d \in Callers : /\ FirstFor(d) /\ (Undecided(d)' => Undecided(d))
                         /\ ~Delivering(d) /\ ~Delivering(d)'
  BY <1>1 DEF FirstInv, Undecided, Delivering
<1> QED
  BY <1>1, <1>2, FirstSame DEF FirstInv

LEMMA FirstRxLock ==
  ASSUME Inv, FirstInv, RxLock
  PROVE  FirstInv'
<1>1. /\ rxpc = "lock" /\ UNCHANGED <<pending, pc, req, response, buf>>
      /\ \A d \in Callers : ~Delivering(d)
  BY DEF RxLock, Delivering
<1>2. \A d \in Callers : FirstFor(d) /\ (Undecided(d)' => Undecided(d))
  BY <1>1 DEF FirstInv, Undecided
<1>3. CASE pending[rxMsg.xid] = None
  <2>1. rxpc' = "read" /\ first' = first
    BY <1>3 DEF RxLock
  <2>2. \A d \in Callers : ~Delivering(d)'
    BY <2>1 DEF Delivering
  <2> QED
    BY <1>1, <1>2, <2>1, <2>2, FirstSame DEF FirstInv
<1>4. CASE pending[rxMsg.xid] # None
  <2>1. rxMsg \in Packet /\ rxMsg # None
    BY <1>1, NoneIsNil DEF Inv, RxHolds
  <2>2. rxMsg.xid \in Xids
    BY <2>1 DEF Packet
  <2>3. PICK c \in Callers : c = pending[rxMsg.xid]
    BY <1>4, <2>2 DEF Inv, TypeOK
  <2> DEFINE m == req[c].match
  <2>4. /\ rxpc' = "deliver" /\ rxMsg' = rxMsg
        /\ first' = [first EXCEPT ![c] = IF first[c] = None /\ Matches(m, rxMsg)
                                         THEN rxMsg ELSE first[c]]
    BY <1>4, <2>3 DEF RxLock
  <2>5. first \in [Callers -> Packet \cup {None}] /\ buf[c] \in Seq(Packet)
    BY DEF Inv, TypeOK
  <2>6. Delivering(c)' /\ \A d \in Callers \ {c} : ~Delivering(d)'
    BY <1>1, <2>3, <2>4 DEF Delivering
  <2>7. ASSUME NEW d \in Callers, d # c PROVE FirstFor(d)'
    <3>1. first'[d] = first[d]
      BY <2>4, <2>5, <2>7
    <3> QED
      BY <1>1, <1>2, <2>6, <2>7, <3>1, FirstSame
  <2>8. first'[c] = IF first[c] = None /\ Matches(m, rxMsg) THEN rxMsg ELSE first[c]
    BY <2>4, <2>5
  <2>9. ASSUME Undecided(c) PROVE OnItsWay(c)'
    <3>1. /\ FirstOf(m, buf[c], first[c])
          /\ first[c] # None => AnyOf(m, buf[c])
      BY <1>1, <1>2, <2>9 DEF FirstFor, OnItsWay
    <3>2. FirstOf(m, buf[c], first'[c])
      <4>1. CASE first[c] = None
        <5>1. \A i \in 1..Len(buf[c]) : buf[c][i] # None
          BY <2>5, NoneIsNil, ElementOfSeq
        <5> QED
          BY <3>1, <4>1, <5>1 DEF FirstOf
      <4>2. CASE first[c] # None
        BY <2>8, <3>1, <4>2
      <4> QED
        BY <4>1, <4>2
    <3>3. Matches(m, rxMsg) /\ ~AnyOf(m, buf[c]) => rxMsg = first'[c]
      BY <2>8, <3>1
    <3>4. first'[c] # None => AnyOf(m, buf[c]) \/ Matches(m, rxMsg)
      BY <2>8, <3>1
    <3> QED
      BY <1>1, <2>4, <2>6, <3>2, <3>3, <3>4 DEF OnItsWay
  <2>10. FirstFor(c)'
    <3>1. response[c] # None => response[c] = first'[c]
      BY <1>2, <2>8 DEF FirstFor
    <3>2. Undecided(c)' => OnItsWay(c)'
      BY <1>2, <2>9
    <3> QED
      BY <1>1, <3>1, <3>2 DEF FirstFor
  <2> QED
    BY <2>7, <2>10 DEF FirstInv
<1> QED
  BY <1>3, <1>4

LEMMA FirstRxDone ==
  ASSUME FirstInv, NEW c \in Callers, RxDone(c)
  PROVE  FirstInv'
<1>1. /\ UNCHANGED <<pc, req, response, buf, first>>
      /\ rxpc' = "read" /\ pending[rxMsg.xid] = c /\ pc[c] = "remove"
  BY DEF RxDone
<1>2. FirstFor(c)'
  BY <1>1 DEF FirstInv, FirstFor, Undecided
<1>3. ASSUME NEW d \in Callers, d # c PROVE FirstFor(d)'
  <2>1. /\ FirstFor(d) /\ (Undecided(d)' => Undecided(d))
        /\ ~Delivering(d) /\ ~Delivering(d)'
    BY <1>1, <1>3 DEF FirstInv, Undecided, Delivering
  <2> QED
    BY <1>1, <2>1, FirstSame
<1> QED
  BY <1>2, <1>3 DEF FirstInv

LEMMA FirstRxSend ==
  ASSUME Inv, FirstInv, NEW c \in Callers, RxSend(c)
  PROVE  FirstInv'
<1>1. /\ pc \in [Callers -> {"idle", "send", "returned"} \cup Attempt]
      /\ buf \in [Callers -> Seq(Packet)]
  BY DEF Inv, TypeOK
<1>2. /\ rxpc = "deliver" /\ pending[rxMsg.xid] = c
      /\ buf' = [buf EXCEPT ![c] = Append(buf[c], rxMsg)]
      /\ rxpc' = "read"
      /\ UNCHANGED <<req, response, first>>
  BY DEF RxSend
<1>3. rxMsg \in Packet
  BY <1>2 DEF Inv, RxHolds
<1>4. ~chClosed[c]
  BY <1>2, <1>3, NoneIsNil DEF Inv, PendingLive, Packet
<1>5. \A d \in Callers : /\ FirstFor(d) /\ ~Delivering(d)'
                         /\ Delivering(d) <=> d = c
  BY <1>2 DEF FirstInv, Delivering
<1>6. /\ \A d \in Callers \ {c} : pc'[d] = pc[d]
      /\ Undecided(c)' => Undecided(c)
  <2>1. Len(buf[c]) \in Nat
    BY <1>1
  <2>2. BufferCap = 0 => pc[c] = "select"
    <3>1. CanSend(c) /\ ~chClosed[c]
      BY <1>4 DEF RxSend
    <3>2. BufferCap = 0 => ~(Len(buf[c]) < BufferCap)
      BY <2>1
    <3> QED
      BY <3>1, <3>2, Zenon DEF CanSend
  <2>3. CASE BufferCap = 0
    BY <1>1, <1>4, <2>2, <2>3 DEF RxSend, Undecided
  <2>4. CASE BufferCap # 0
    BY <1>1, <1>4, <2>4 DEF RxSend, Undecided
  <2> QED
    BY <2>3, <2>4
<1>7. FirstFor(c)'
  <2> DEFINE m == req[c].match
  <2>1. buf'[c] = Append(buf[c], rxMsg) /\ buf[c] \in Seq(Packet)
    BY <1>1, <1>2
  <2>2. ASSUME Undecided(c) PROVE OnItsWay(c)'
    <3>1. /\ FirstOf(m, buf[c], first[c])
          /\ Matches(m, rxMsg) /\ ~AnyOf(m, buf[c]) => rxMsg = first[c]
          /\ first[c] # None => AnyOf(m, buf[c]) \/ Matches(m, rxMsg)
      BY <1>5, <2>2 DEF FirstFor, OnItsWay
    <3>2. /\ FirstOf(m, Append(buf[c], rxMsg), first[c])
          /\ AnyOf(m, Append(buf[c], rxMsg)) <=> AnyOf(m, buf[c]) \/ Matches(m, rxMsg)
      BY <1>3, <2>1, <3>1, FirstOfAppend
    <3> QED
      BY <1>2, <1>5, <2>1, <3>1, <3>2 DEF OnItsWay
  <2>3. Undecided(c)' => OnItsWay(c)'
    BY <1>6, <2>2
  <2> QED
    BY <1>2, <1>5, <2>3 DEF FirstFor
<1>8. ASSUME NEW d \in Callers, d # c PROVE FirstFor(d)'
  <2>1. buf'[d] = buf[d] /\ (Undecided(d)' => Undecided(d))
    BY <1>1, <1>2, <1>6, <1>8 DEF Undecided
  <2> QED
    BY <1>2, <1>5, <1>8, <2>1, FirstSame
<1> QED
  BY <1>7, <1>8 DEF FirstInv

LEMMA FirstNext == Inv /\ RespInv /\ FirstInv /\ [Next]_vars => FirstInv'
<1> SUFFICES ASSUME Inv, RespInv, FirstInv, [Next]_vars PROVE FirstInv'
  OBVIOUS
<1>1. ASSUME NEW c \in Callers, NEW r \in Requests, SendAndRead(c, r)
      PROVE  FirstInv'
  BY <1>1, FirstSendAndRead
<1>2. ASSUME NEW c \in Callers, CallStep(c) \/ CtxCancel(c) PROVE FirstInv'
  BY <1>2, FirstLocal, FirstSelectPacket, FirstSendRegister, FirstCancelRemove
     DEF CallStep
<1>3. ASSUME NEW c \in Callers, RxDone(c) \/ RxSend(c) PROVE FirstInv'
  BY <1>3, FirstRxDone, FirstRxSend
<1>4. CASE RxReadError \/ \E p \in Datagram : RxRead(p)
  BY <1>4, FirstRxRead
<1>5. CASE RxLock
  BY <1>5, FirstRxLock
<1>6. ASSUME UNCHANGED <<pending, rxpc, rxMsg, pc, req, response, buf, first>>
      PROVE  FirstInv'
  <2>1. \A d \in Callers : Undecided(d)' => Undecided(d)
    BY <1>6 DEF Undecided
  <2> QED
    BY <1>6, <2>1, FirstQuiet
<1>7. ASSUME NEW k \in Closers,
             CloseCAS(k) \/ CloseConn(k) \/ CloseDone(k) \/ CloseWait(k)
      PROVE  FirstInv'
  BY <1>6, <1>7 DEF CloseCAS, CloseConn, CloseDone, CloseWait, CloseStep
<1>8. CASE UNCHANGED vars
  BY <1>6, <1>8 DEF vars
<1> QED
  BY <1>1, <1>2, <1>3, <1>4, <1>5, <1>7, <1>8 DEF Next

(* SendAndRead returns the first response: no matching packet received for *)
(* the attempt before the one returned is lost or overtaken on its way     *)
(* through receiveLoop and the channel, whatever the channel's capacity,   *)
(* the number of callers and the IDs they share.                           *)
THEOREM FirstSafety == Spec => []FirstResponse
<1>1. Init => FirstInv
  BY DEF Init, FirstInv, FirstFor, Undecided
<1>2. Inv /\ RespInv /\ FirstInv /\ [Next]_vars => FirstInv'
  BY FirstNext
<1>3. FirstInv => FirstResponse
  BY DEF FirstInv, FirstFor, FirstResponse
<1>4. Spec => []Inv
  BY Invariance
<1>5. Spec => []RespInv
  BY ResponseInvariance
<1> QED
  BY <1>1, <1>2, <1>3, <1>4, <1>5, PTL DEF Spec
=============================================================================
