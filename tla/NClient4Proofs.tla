--------------------------- MODULE NClient4Proofs ---------------------------
(* Proofs about NClient4. *)
EXTENDS NClient4, SequenceTheorems, TLAPS

(* A call that is running, or has run, has a request. *)
HasRequest == \A c \in Callers : pc[c] # "idle" => req[c] \in Requests

(* receiveLoop holds a packet from the checks to the end of its select,    *)
(* and waits in the select only for an entry that is in the map.           *)
RxHolds ==
  /\ rxpc \in {"lock", "deliver"} => rxMsg \in Packet
  /\ rxpc = "deliver" => pending[rxMsg.xid] # None

(* The inductive invariant behind PendingLive and NoChannelPanic. *)
Inv == TypeOK /\ HasRequest /\ RxHolds /\ PendingLive /\ NoChannelPanic

USE DEF Goto, connVars, rxVars,
    callVars, replyVars, chanVars

LEMMA Bounds == MaxTries \in Nat /\ MaxLen \in Nat \ {0}
BY ConstantsAssumption DEF ConstantsAssumption, MaxTries, MaxLen

LEMMA NoneIsNil == None \notin Callers /\ None \notin Packet
BY ConstantsAssumption DEF ConstantsAssumption

LEMMA InitInv == Init => Inv
<1> SUFFICES ASSUME Init PROVE Inv
  OBVIOUS
<1>1. 0 \in 0..MaxTries
  BY Bounds
<1>2. /\ <<>> \in Seq(Packet)
      /\ Len(<<>>) <= MaxLen
  BY Bounds
<1>3. TypeOK
  BY <1>1, <1>2 DEF Init, TypeOK, Errors
<1>4. HasRequest /\ RxHolds /\ PendingLive /\ NoChannelPanic
  BY DEF Init, HasRequest, RxHolds, PendingLive, NoChannelPanic
<1> QED
  BY <1>3, <1>4 DEF Inv

(* PendingLive survives a step that leaves the map, the channels and the   *)
(* requests alone and takes no caller out of its attempt.                  *)
LEMMA PendingKept ==
  ASSUME TypeOK, PendingLive, UNCHANGED <<pending, chClosed, req>>,
         \A d \in Callers : pc[d] \in Attempt => pc'[d] \in Attempt
  PROVE  PendingLive'
<1> SUFFICES ASSUME NEW x \in Xids, pending[x] # None
             PROVE  /\ pc'[pending[x]] \in Attempt
                    /\ req[pending[x]].xid = x
                    /\ ~chClosed[pending[x]]
  BY DEF PendingLive
<1>1. pending[x] \in Callers
  BY DEF TypeOK
<1> QED
  BY <1>1 DEF PendingLive

(* One lemma for the steps that touch neither the map nor its channels. *)
LEMMA LocalStep ==
  ASSUME Inv, NEW c \in Callers,
         \/ SendWrite(c) \/ Arm(c) \/ SelectDone(c) \/ SelectTimeout(c)
         \/ SelectCtx(c) \/ SelectNil(c) \/ CancelDone(c) \/ CtxCancel(c)
  PROVE  Inv'
<1>1. CASE SendWrite(c)
  <2>1. TypeOK'
    BY <1>1, ZenonT(60) DEF Inv, TypeOK, Attempt, Errors, SendWrite, Decide
  <2>2. (HasRequest /\ RxHolds)'
    BY <1>1 DEF Inv, TypeOK, HasRequest, RxHolds, SendWrite, Decide
  <2>3. \A d \in Callers : pc[d] \in Attempt => pc'[d] \in Attempt
    BY <1>1 DEF Inv, TypeOK, Attempt, SendWrite, Decide
  <2>4. (PendingLive /\ NoChannelPanic)'
    BY <1>1, <2>3, PendingKept DEF Inv, NoChannelPanic, SendWrite, Decide
  <2> QED BY <2>1, <2>2, <2>4 DEF Inv
<1>2. CASE Arm(c)
  <2>1. TypeOK'
    BY <1>2 DEF Inv, TypeOK, Attempt, Errors, Arm
  <2>2. (HasRequest /\ RxHolds)'
    BY <1>2 DEF Inv, TypeOK, HasRequest, RxHolds, Arm
  <2>3. \A d \in Callers : pc[d] \in Attempt => pc'[d] \in Attempt
    BY <1>2 DEF Inv, TypeOK, Attempt, Arm
  <2>4. (PendingLive /\ NoChannelPanic)'
    BY <1>2, <2>3, PendingKept DEF Inv, NoChannelPanic, Arm
  <2> QED BY <2>1, <2>2, <2>4 DEF Inv
<1>3. CASE SelectDone(c)
  <2>1. TypeOK'
    BY <1>3 DEF Inv, TypeOK, Attempt, Errors, SelectDone, SelectEnds, Decide
  <2>2. (HasRequest /\ RxHolds)'
    BY <1>3 DEF Inv, TypeOK, HasRequest, RxHolds, SelectDone, SelectEnds, Decide
  <2>3. \A d \in Callers : pc[d] \in Attempt => pc'[d] \in Attempt
    BY <1>3 DEF Inv, TypeOK, Attempt, SelectDone, SelectEnds, Decide
  <2>4. (PendingLive /\ NoChannelPanic)'
    BY <1>3, <2>3, PendingKept DEF Inv, NoChannelPanic, SelectDone, SelectEnds, Decide
  <2> QED BY <2>1, <2>2, <2>4 DEF Inv
<1>4. CASE SelectTimeout(c)
  <2>1. TypeOK'
    BY <1>4 DEF Inv, TypeOK, Attempt, Errors, SelectTimeout, SelectEnds, Decide
  <2>2. (HasRequest /\ RxHolds)'
    BY <1>4 DEF Inv, TypeOK, HasRequest, RxHolds, SelectTimeout, SelectEnds, Decide
  <2>3. \A d \in Callers : pc[d] \in Attempt => pc'[d] \in Attempt
    BY <1>4 DEF Inv, TypeOK, Attempt, SelectTimeout, SelectEnds, Decide
  <2>4. (PendingLive /\ NoChannelPanic)'
    BY <1>4, <2>3, PendingKept DEF Inv, NoChannelPanic, SelectTimeout, SelectEnds, Decide
  <2> QED BY <2>1, <2>2, <2>4 DEF Inv
<1>5. CASE SelectCtx(c)
  <2>1. TypeOK'
    BY <1>5 DEF Inv, TypeOK, Attempt, Errors, SelectCtx, SelectEnds, Decide
  <2>2. (HasRequest /\ RxHolds)'
    BY <1>5 DEF Inv, TypeOK, HasRequest, RxHolds, SelectCtx, SelectEnds, Decide
  <2>3. \A d \in Callers : pc[d] \in Attempt => pc'[d] \in Attempt
    BY <1>5 DEF Inv, TypeOK, Attempt, SelectCtx, SelectEnds, Decide
  <2>4. (PendingLive /\ NoChannelPanic)'
    BY <1>5, <2>3, PendingKept DEF Inv, NoChannelPanic, SelectCtx, SelectEnds, Decide
  <2> QED BY <2>1, <2>2, <2>4 DEF Inv
<1>6. CASE SelectNil(c)
  <2>1. TypeOK'
    BY <1>6, ZenonT(60) DEF Inv, TypeOK, Attempt, Errors, SelectNil, Decide
  <2>2. (HasRequest /\ RxHolds)'
    BY <1>6 DEF Inv, TypeOK, HasRequest, RxHolds, SelectNil, Decide
  <2>3. \A d \in Callers : pc[d] \in Attempt => pc'[d] \in Attempt
    BY <1>6 DEF Inv, TypeOK, Attempt, SelectNil, Decide
  <2>4. (PendingLive /\ NoChannelPanic)'
    BY <1>6, <2>3, PendingKept DEF Inv, NoChannelPanic, SelectNil, Decide
  <2> QED BY <2>1, <2>2, <2>4 DEF Inv
<1>7. CASE CancelDone(c)
  <2>1. TypeOK'
    BY <1>7 DEF Inv, TypeOK, Attempt, Errors, CancelDone
  <2>2. (HasRequest /\ RxHolds)'
    BY <1>7 DEF Inv, TypeOK, HasRequest, RxHolds, CancelDone
  <2>3. \A d \in Callers : pc[d] \in Attempt => pc'[d] \in Attempt
    BY <1>7 DEF Inv, TypeOK, Attempt, CancelDone
  <2>4. (PendingLive /\ NoChannelPanic)'
    BY <1>7, <2>3, PendingKept DEF Inv, NoChannelPanic, CancelDone
  <2> QED BY <2>1, <2>2, <2>4 DEF Inv
<1>8. CASE CtxCancel(c)
  <2>1. TypeOK'
    BY <1>8 DEF Inv, TypeOK, Attempt, Errors, CtxCancel
  <2>2. (HasRequest /\ RxHolds)'
    BY <1>8 DEF Inv, TypeOK, HasRequest, RxHolds, CtxCancel
  <2>3. \A d \in Callers : pc[d] \in Attempt => pc'[d] \in Attempt
    BY <1>8 DEF Inv, TypeOK, Attempt, CtxCancel
  <2>4. (PendingLive /\ NoChannelPanic)'
    BY <1>8, <2>3, PendingKept DEF Inv, NoChannelPanic, CtxCancel
  <2> QED BY <2>1, <2>2, <2>4 DEF Inv
<1> QED BY <1>1, <1>2, <1>3, <1>4, <1>5, <1>6, <1>7, <1>8

LEMMA AttemptEndsType ==
  ASSUME TypeOK, NEW c \in Callers, NEW e \in Errors, AttemptEnds(c, e)
  PROVE  /\ pc' \in [Callers -> {"idle", "send", "returned"} \cup Attempt]
         /\ pc'[c] \in {"send", "returned"}
         /\ \A d \in Callers \ {c} : pc'[d] = pc[d]
         /\ err' \in [Callers -> Errors]
         /\ tries' \in [Callers -> 0..MaxTries]
<1>1. CASE e = "errDeadlineExceeded" /\ (Retry < 0 \/ tries[c] + 1 < Retry)
  <2>1. CASE Retry < 0
    BY <1>1, <2>1, ZenonT(60) DEF TypeOK, AttemptEnds, Errors
  <2>2. CASE ~(Retry < 0)
    <3>1. tries \in [Callers -> 0..MaxTries]
      BY DEF TypeOK
    <3>2. tries[c] \in 0..MaxTries /\ tries[c] + 1 < Retry
      BY <1>1, <2>2, <3>1
    <3>3. tries[c] + 1 \in 0..MaxTries
      BY <3>2, ConstantsAssumption DEF ConstantsAssumption, MaxTries
    <3>4. tries' = [tries EXCEPT ![c] = tries[c] + 1]
      BY <1>1, <2>2 DEF AttemptEnds
    <3>5. tries' \in [Callers -> 0..MaxTries]
      BY <3>1, <3>3, <3>4
    <3> QED
      BY <1>1, <3>5 DEF TypeOK, AttemptEnds, Errors
  <2> QED
    BY <2>1, <2>2
<1>2. CASE ~(e = "errDeadlineExceeded" /\ (Retry < 0 \/ tries[c] + 1 < Retry))
  BY <1>2, ZenonT(60) DEF TypeOK, AttemptEnds, Errors
<1> QED
  BY <1>1, <1>2

LEMMA SendAndReadStep ==
  ASSUME Inv, NEW c \in Callers, NEW r \in Requests, SendAndRead(c, r)
  PROVE  Inv'
<1>1. TypeOK'
  <2>1. /\ pc' \in [Callers -> {"idle", "send", "returned"} \cup Attempt]
        /\ err' \in [Callers -> Errors]
    BY DEF Inv, TypeOK, SendAndRead, Errors
  <2>2. tries' \in [Callers -> 0..MaxTries]
    <3>1. tries \in [Callers -> 0..MaxTries]
      BY DEF Inv, TypeOK
    <3>2. 0 \in 0..MaxTries
      BY Bounds
    <3> QED
      BY <3>1, <3>2 DEF SendAndRead
  <2> QED
    BY <2>1, <2>2 DEF Inv, TypeOK, SendAndRead
<1>2. (HasRequest /\ RxHolds /\ NoChannelPanic)'
  BY DEF Inv, TypeOK, SendAndRead, HasRequest, RxHolds, NoChannelPanic
<1>3. ASSUME NEW x \in Xids, pending[x] # None
      PROVE  /\ pc'[pending[x]] \in Attempt
             /\ req'[pending[x]].xid = x
             /\ ~chClosed[pending[x]]
  <2>1. pending[x] \in Callers
    BY <1>3 DEF Inv, TypeOK
  <2>2. pc[pending[x]] \in Attempt
    BY <1>3 DEF Inv, PendingLive
  <2>3. pending[x] # c
    BY <2>2 DEF SendAndRead, Attempt
  <2> QED
    BY <1>3, <2>1, <2>3, ZenonT(60) DEF Inv, TypeOK, PendingLive, SendAndRead
<1>4. PendingLive'
  BY <1>3 DEF PendingLive, SendAndRead
<1> QED
  BY <1>1, <1>2, <1>4 DEF Inv

LEMMA SendRegisterStep ==
  ASSUME Inv, NEW c \in Callers, SendRegister(c)
  PROVE  Inv'
<1> DEFINE xid == req[c].xid
<1>1. xid \in Xids
  BY DEF Inv, HasRequest, SendRegister, Requests
<1>2. \A x \in Xids : pending[x] # c
  BY NoneIsNil DEF Inv, PendingLive, SendRegister, Attempt
<1>3. CASE pending[xid] # None
  <2>1. AttemptEnds(c, "inUse") /\ UNCHANGED <<pending, chanVars, first>>
    BY <1>3 DEF SendRegister
  <2>2. TypeOK'
    <3>1. /\ pc' \in [Callers -> {"idle", "send", "returned"} \cup Attempt]
          /\ err' \in [Callers -> Errors]
          /\ tries' \in [Callers -> 0..MaxTries]
      BY <2>1, AttemptEndsType DEF Inv, Errors
    <3>2. UNCHANGED <<connVars, pending, rxVars, req, ctxDone, response,
                      chanVars, closepc, panic, first>>
      BY <2>1 DEF SendRegister
    <3> QED
      BY <3>1, <3>2 DEF Inv, TypeOK
  <2>3. (HasRequest /\ RxHolds /\ NoChannelPanic)'
    BY <2>1, AttemptEndsType
    DEF Inv, SendRegister, HasRequest, RxHolds, NoChannelPanic, Errors
  <2>4. ASSUME NEW x \in Xids, pending[x] # None
        PROVE  /\ pc'[pending[x]] \in Attempt
               /\ req[pending[x]].xid = x
               /\ ~chClosed[pending[x]]
    <3>1. pending[x] \in Callers \ {c}
      BY <2>4, <1>2 DEF Inv, TypeOK
    <3> QED
      BY <2>1, <2>4, <3>1, AttemptEndsType DEF Inv, PendingLive, Errors
  <2>5. PendingLive'
    BY <2>1, <2>4 DEF PendingLive, SendRegister
  <2> QED
    BY <2>2, <2>3, <2>5 DEF Inv
<1>4. CASE pending[xid] = None
  <2>1. /\ pending' = [pending EXCEPT ![xid] = c]
        /\ buf' = [buf EXCEPT ![c] = <<>>]
        /\ chClosed' = [chClosed EXCEPT ![c] = FALSE]
        /\ first' = [first EXCEPT ![c] = None]
        /\ pc' = [pc EXCEPT ![c] = "write"]
        /\ UNCHANGED <<err, tries>>
    BY <1>4 DEF SendRegister
  <2>2. TypeOK'
    <3>1. /\ buf' \in [Callers -> Seq(Packet)]
          /\ \A d \in Callers : Len(buf'[d]) <= MaxLen
      <4>1. /\ buf \in [Callers -> Seq(Packet)]
            /\ \A d \in Callers : Len(buf[d]) <= MaxLen
        BY DEF Inv, TypeOK
      <4>2. <<>> \in Seq(Packet) /\ Len(<<>>) <= MaxLen
        BY Bounds
      <4> QED
        BY <2>1, <4>1, <4>2
    <3>2. pc' \in [Callers -> {"idle", "send", "returned"} \cup Attempt]
      BY <2>1 DEF Inv, TypeOK, Attempt
    <3> QED
      BY <1>1, <2>1, <3>1, <3>2 DEF Inv, TypeOK, SendRegister
  <2>3. (HasRequest /\ RxHolds /\ NoChannelPanic)'
    BY <1>1, <1>4, <2>1 DEF Inv, TypeOK, SendRegister, MuFree, HasRequest, RxHolds,
      NoChannelPanic
  <2>4. ASSUME NEW x \in Xids, pending'[x] # None
        PROVE  /\ pc'[pending'[x]] \in Attempt
               /\ req[pending'[x]].xid = x
               /\ ~chClosed'[pending'[x]]
    <3>1. CASE x = xid
      BY <1>1, <2>1, <3>1 DEF Inv, TypeOK, Attempt
    <3>2. CASE x # xid
      <4>1. pending'[x] = pending[x] /\ pending[x] \in Callers \ {c}
        BY <1>2, <2>1, <2>4, <3>2 DEF Inv, TypeOK
      <4> QED
        BY <2>1, <2>4, <4>1 DEF Inv, TypeOK, PendingLive
    <3> QED
      BY <3>1, <3>2
  <2>5. PendingLive'
    BY <2>4 DEF PendingLive, SendRegister
  <2> QED
    BY <2>2, <2>3, <2>5 DEF Inv
<1> QED
  BY <1>3, <1>4

LEMMA SelectPacketStep ==
  ASSUME Inv, NEW c \in Callers, SelectPacket(c)
  PROVE  Inv'
<1>1. /\ buf[c] \in Seq(Packet) /\ buf[c] # <<>>
      /\ Len(buf[c]) <= MaxLen
  BY DEF Inv, TypeOK, SelectPacket
<1>2. /\ Head(buf[c]) \in Packet
      /\ Tail(buf[c]) \in Seq(Packet)
      /\ Len(Tail(buf[c])) <= MaxLen
  BY <1>1, Bounds
<1>3. /\ buf' \in [Callers -> Seq(Packet)]
      /\ \A d \in Callers : Len(buf'[d]) <= MaxLen
  BY <1>2 DEF Inv, TypeOK, SelectPacket
<1>4. /\ pc' \in [Callers -> {"idle", "send", "returned"} \cup Attempt]
      /\ err' \in [Callers -> Errors]
      /\ response' \in [Callers -> Packet \cup {None}]
  <2>1. /\ pc \in [Callers -> {"idle", "send", "returned"} \cup Attempt]
        /\ err \in [Callers -> Errors]
        /\ response \in [Callers -> Packet \cup {None}]
    BY DEF Inv, TypeOK
  <2>2. CASE Matches(req[c].match, Head(buf[c]))
    <3>1. /\ pc' = [pc EXCEPT ![c] = "cancel"]
          /\ err' = [err EXCEPT ![c] = "nil"]
          /\ response' = [response EXCEPT ![c] = Head(buf[c])]
      BY <2>2 DEF SelectPacket, Decide
    <3>2. "cancel" \in Attempt /\ "nil" \in Errors
      BY DEF Attempt, Errors
    <3> QED
      BY <1>2, <2>1, <3>1, <3>2
  <2>3. CASE ~Matches(req[c].match, Head(buf[c]))
    BY <2>1, <2>3 DEF SelectPacket, Attempt
  <2> QED
    BY <2>2, <2>3
<1>5. TypeOK'
  BY <1>3, <1>4 DEF Inv, TypeOK, SelectPacket
<1>6. \A d \in Callers : pc[d] \in Attempt => pc'[d] \in Attempt
  BY DEF Inv, TypeOK, SelectPacket, Decide, Attempt
<1>7. (HasRequest /\ RxHolds /\ NoChannelPanic)'
  BY DEF Inv, TypeOK, SelectPacket, Decide, HasRequest, RxHolds, NoChannelPanic
<1>8. PendingLive'
  BY <1>6, PendingKept DEF Inv, SelectPacket
<1> QED
  BY <1>5, <1>7, <1>8 DEF Inv

(* Removing the entry of x disturbs no other entry, because the attempts   *)
(* they belong to have other transaction IDs.                              *)
LEMMA RemoveEntry ==
  ASSUME TypeOK, PendingLive, NoChannelPanic, NEW x \in Xids,
         pending[x] # None, CloseAndDelete(x), req' = req,
         \A d \in Callers : pc[d] \in Attempt /\ req[d].xid # x
                              => pc'[d] \in Attempt
  PROVE  /\ (PendingLive /\ NoChannelPanic)'
         /\ pending' \in [Xids -> Callers \cup {None}]
         /\ chClosed' \in [Callers -> BOOLEAN]
<1>1. pending \in [Xids -> Callers \cup {None}]
  BY DEF TypeOK
<1>2. pending[x] \in Callers /\ ~chClosed[pending[x]] /\ req[pending[x]].xid = x
  BY <1>1 DEF PendingLive
<1>3. chClosed \in [Callers -> BOOLEAN]
  BY DEF TypeOK
<1>4. ASSUME NEW y \in Xids, pending'[y] # None
      PROVE  /\ pc'[pending'[y]] \in Attempt
             /\ req[pending'[y]].xid = y
             /\ ~chClosed'[pending'[y]]
  <2>1. y # x /\ pending'[y] = pending[y]
    BY <1>1, <1>4 DEF CloseAndDelete
  <2>2. /\ pending[y] \in Callers /\ pc[pending[y]] \in Attempt
        /\ req[pending[y]].xid = y /\ ~chClosed[pending[y]]
    BY <1>1, <1>4, <2>1 DEF PendingLive
  <2>3. chClosed'[pending[y]] = chClosed[pending[y]]
    BY <1>2, <1>3, <2>1, <2>2 DEF CloseAndDelete
  <2> QED
    BY <2>1, <2>2, <2>3
<1>5. PendingLive'
  BY <1>4 DEF PendingLive
<1>6. NoChannelPanic'
  BY <1>2 DEF NoChannelPanic, CloseAndDelete
<1>7. pending' \in [Xids -> Callers \cup {None}]
  BY <1>1 DEF CloseAndDelete
<1>8. chClosed' \in [Callers -> BOOLEAN]
  BY <1>3 DEF CloseAndDelete
<1> QED
  BY <1>5, <1>6, <1>7, <1>8

LEMMA CancelRemoveStep ==
  ASSUME Inv, NEW c \in Callers, CancelRemove(c)
  PROVE  Inv'
<1> DEFINE xid == req[c].xid
<1>1. xid \in Xids
  BY DEF Inv, HasRequest, CancelRemove, Requests
<1>2. err[c] \in Errors /\ AttemptEnds(c, err[c])
  BY DEF Inv, TypeOK, CancelRemove
<1>3. /\ pc' \in [Callers -> {"idle", "send", "returned"} \cup Attempt]
      /\ pc'[c] \in {"send", "returned"}
      /\ \A d \in Callers \ {c} : pc'[d] = pc[d]
      /\ err' \in [Callers -> Errors]
      /\ tries' \in [Callers -> 0..MaxTries]
  BY <1>2, AttemptEndsType DEF Inv
<1>4. \A d \in Callers : pc[d] \in Attempt /\ req[d].xid # xid => pc'[d] \in Attempt
  BY <1>3
<1>5. /\ (PendingLive /\ NoChannelPanic)'
      /\ pending' \in [Xids -> Callers \cup {None}]
      /\ chClosed' \in [Callers -> BOOLEAN]
  <2>1. CASE pending[xid] # None
    BY <1>1, <1>4, <2>1, RemoveEntry DEF Inv, CancelRemove
  <2>2. CASE pending[xid] = None
    <3>1. UNCHANGED <<pending, chClosed, panic, req>>
      BY <2>2 DEF CancelRemove
    <3>2. ASSUME NEW y \in Xids, pending[y] # None
          PROVE  /\ pc'[pending[y]] \in Attempt
                 /\ req[pending[y]].xid = y
                 /\ ~chClosed[pending[y]]
      <4>1. pending[y] \in Callers
        BY <3>2 DEF Inv, TypeOK
      <4>2. pending[y] # c
        BY <2>2, <3>2 DEF Inv, PendingLive
      <4> QED
        BY <1>3, <3>2, <4>1, <4>2 DEF Inv, PendingLive
    <3>3. (PendingLive /\ NoChannelPanic)'
      BY <3>1, <3>2 DEF Inv, PendingLive, NoChannelPanic
    <3> QED
      BY <3>1, <3>3 DEF Inv, TypeOK
  <2> QED
    BY <2>1, <2>2
<1>6. panic' \in {"no", "channel", "nil dereference"}
  BY DEF Inv, TypeOK, CancelRemove, CloseAndDelete
<1>7. TypeOK'
  BY <1>3, <1>5, <1>6 DEF Inv, TypeOK, CancelRemove
<1>8. (HasRequest /\ RxHolds)'
  BY <1>3 DEF Inv, CancelRemove, MuFree, HasRequest, RxHolds
<1> QED
  BY <1>5, <1>7, <1>8 DEF Inv

LEMMA RxReadStep ==
  ASSUME Inv, NEW p \in Datagram, RxRead(p)
  PROVE  Inv'
<1>1. (TypeOK /\ RxHolds)'
  <2>1. CASE Accepts(p)
    <3>1. rxpc' = "lock" /\ rxMsg' = p /\ p \in Packet
      BY <2>1 DEF RxRead, Accepts, Datagram
    <3> QED
      BY <3>1 DEF Inv, TypeOK, RxHolds, RxRead
  <2>2. CASE ~Accepts(p)
    BY <2>2 DEF Inv, TypeOK, RxHolds, RxRead
  <2> QED
    BY <2>1, <2>2
<1>2. (HasRequest /\ PendingLive /\ NoChannelPanic)'
  BY DEF Inv, HasRequest, PendingLive, NoChannelPanic, RxRead
<1> QED
  BY <1>1, <1>2 DEF Inv

LEMMA RxReadErrorStep ==
  ASSUME Inv, RxReadError
  PROVE  Inv'
<1>1. (TypeOK /\ RxHolds)'
  BY DEF Inv, TypeOK, RxHolds, RxReadError
<1>2. (HasRequest /\ PendingLive /\ NoChannelPanic)'
  BY DEF Inv, HasRequest, PendingLive, NoChannelPanic, RxReadError
<1> QED
  BY <1>1, <1>2 DEF Inv

LEMMA RxLockStep ==
  ASSUME Inv, RxLock
  PROVE  Inv'
<1>1. rxMsg \in Packet
  BY DEF Inv, RxHolds, RxLock
<1>2. CASE pending[rxMsg.xid] = None
  <2>1. rxpc' = "read" /\ rxMsg' = None /\ UNCHANGED first
    BY <1>2 DEF RxLock
  <2>2. (TypeOK /\ RxHolds)'
    BY <2>1 DEF Inv, TypeOK, RxHolds, RxLock
  <2> QED
    BY <2>2 DEF Inv, HasRequest, PendingLive, NoChannelPanic, RxLock
<1>3. CASE pending[rxMsg.xid] # None
  <2>1. rxpc' = "deliver" /\ UNCHANGED rxMsg
    BY <1>3 DEF RxLock
  <2>2. first' \in [Callers -> Packet \cup {None}]
    BY <1>1, <1>3, ZenonT(60) DEF Inv, TypeOK, RxLock
  <2>3. (TypeOK /\ RxHolds)'
    BY <1>1, <1>3, <2>1, <2>2 DEF Inv, TypeOK, RxHolds, RxLock
  <2> QED
    BY <2>3 DEF Inv, HasRequest, PendingLive, NoChannelPanic, RxLock
<1> QED
  BY <1>2, <1>3

LEMMA RxDoneStep ==
  ASSUME Inv, NEW c \in Callers, RxDone(c)
  PROVE  Inv'
<1>1. rxMsg.xid \in Xids /\ pending[rxMsg.xid] # None
  BY DEF Inv, RxHolds, RxDone, Packet
<1>2. /\ (PendingLive /\ NoChannelPanic)'
      /\ pending' \in [Xids -> Callers \cup {None}]
      /\ chClosed' \in [Callers -> BOOLEAN]
  BY <1>1, RemoveEntry DEF Inv, RxDone
<1>3. panic' \in {"no", "channel", "nil dereference"}
  BY DEF Inv, TypeOK, RxDone, CloseAndDelete
<1>4. TypeOK'
  BY <1>2, <1>3 DEF Inv, TypeOK, RxDone
<1>5. (HasRequest /\ RxHolds)'
  BY DEF Inv, RxDone, HasRequest, RxHolds
<1> QED
  BY <1>2, <1>4, <1>5 DEF Inv

(* A channel that a send finds room in is not full yet. *)
LEMMA HasRoom ==
  ASSUME BufferCap \in Nat, NEW n \in Nat,
         n < BufferCap \/ (BufferCap = 0 /\ n = 0)
  PROVE  n < MaxLen
BY DEF MaxLen

LEMMA RxSendStep ==
  ASSUME Inv, NEW c \in Callers, RxSend(c)
  PROVE  Inv'
<1>1. rxMsg \in Packet /\ rxMsg.xid \in Xids /\ pending[rxMsg.xid] = c
  BY DEF Inv, RxHolds, RxSend, Packet
<1>2. pc[c] \in Attempt /\ ~chClosed[c]
  BY <1>1, NoneIsNil DEF Inv, TypeOK, PendingLive
<1>3. buf \in [Callers -> Seq(Packet)]
  BY DEF Inv, TypeOK
<1>4. Len(buf[c]) < MaxLen
  <2>1. Len(buf[c]) \in Nat /\ BufferCap \in Nat
    BY <1>3, ConstantsAssumption DEF ConstantsAssumption
  <2>2. Len(buf[c]) < BufferCap \/ (BufferCap = 0 /\ buf[c] = <<>>)
    BY <1>2, Zenon DEF RxSend, CanSend
  <2>3. buf[c] = <<>> => Len(buf[c]) = 0
    OBVIOUS
  <2> QED
    BY <2>1, <2>2, <2>3, HasRoom
<1>5. /\ Append(buf[c], rxMsg) \in Seq(Packet)
      /\ Len(Append(buf[c], rxMsg)) <= MaxLen
  <2>1. buf[c] \in Seq(Packet)
    BY <1>3
  <2>2. /\ Append(buf[c], rxMsg) \in Seq(Packet)
        /\ Len(Append(buf[c], rxMsg)) = Len(buf[c]) + 1
    BY <1>1, <2>1, AppendProperties
  <2>3. Len(buf[c]) \in Nat
    BY <2>1, LenProperties
  <2> QED
    BY <1>4, <2>2, <2>3, Bounds
<1>6. /\ buf' \in [Callers -> Seq(Packet)]
      /\ \A d \in Callers : Len(buf'[d]) <= MaxLen
  BY <1>3, <1>5 DEF Inv, TypeOK, RxSend
<1>7. /\ pc' \in [Callers -> {"idle", "send", "returned"} \cup Attempt]
      /\ \A d \in Callers : pc[d] \in Attempt => pc'[d] \in Attempt
      /\ \A d \in Callers : pc[d] = "idle" => pc'[d] = "idle"
  <2>1. pc \in [Callers -> {"idle", "send", "returned"} \cup Attempt]
    BY DEF Inv, TypeOK
  <2>2. pc' = [pc EXCEPT ![c] = "recv"] \/ pc' = pc
    BY DEF RxSend
  <2> QED
    BY <1>2, <2>1, <2>2 DEF Attempt
<1>8. panic' = panic
  BY <1>2 DEF RxSend
<1>9. TypeOK'
  BY <1>6, <1>7, <1>8 DEF Inv, TypeOK, RxSend
<1>10. (HasRequest /\ RxHolds /\ NoChannelPanic)'
  <2>1. HasRequest'
    BY <1>7 DEF Inv, RxSend, HasRequest
  <2>2. RxHolds' /\ NoChannelPanic'
    BY <1>8 DEF Inv, RxSend, RxHolds, NoChannelPanic
  <2> QED
    BY <2>1, <2>2
<1>11. PendingLive'
  BY <1>7, PendingKept DEF Inv, RxSend
<1> QED
  BY <1>9, <1>10, <1>11 DEF Inv

LEMMA CloseSteps ==
  ASSUME Inv, NEW k \in Closers,
         CloseCAS(k) \/ CloseConn(k) \/ CloseDone(k) \/ CloseWait(k)
  PROVE  Inv'
<1>1. TypeOK'
  BY ZenonT(60) DEF Inv, TypeOK, CloseCAS, CloseConn, CloseDone, CloseWait, CloseStep
<1>2. (HasRequest /\ RxHolds /\ PendingLive /\ NoChannelPanic)'
  BY DEF Inv, HasRequest, RxHolds, PendingLive, NoChannelPanic, CloseCAS,
         CloseConn, CloseDone, CloseWait, CloseStep
<1> QED
  BY <1>1, <1>2 DEF Inv

LEMMA NextInv == Inv /\ [Next]_vars => Inv'
<1> SUFFICES ASSUME Inv, [Next]_vars PROVE Inv'
  OBVIOUS
<1>1. ASSUME NEW c \in Callers, NEW r \in Requests, SendAndRead(c, r) PROVE Inv'
  BY <1>1, SendAndReadStep
<1>2. ASSUME NEW c \in Callers, CallStep(c) \/ CtxCancel(c) PROVE Inv'
  BY <1>2, LocalStep, SendRegisterStep, SelectPacketStep, CancelRemoveStep
  DEF CallStep
<1>3. ASSUME NEW c \in Callers, RxDone(c) \/ RxSend(c) PROVE Inv'
  BY <1>3, RxDoneStep, RxSendStep
<1>4. ASSUME NEW p \in Datagram, RxRead(p) PROVE Inv'
  BY <1>4, RxReadStep
<1>5. ASSUME NEW k \in Closers,
             CloseCAS(k) \/ CloseConn(k) \/ CloseDone(k) \/ CloseWait(k)
      PROVE  Inv'
  BY <1>5, CloseSteps
<1>6. CASE UNCHANGED vars
  <2>1. (TypeOK /\ HasRequest)'
    BY <1>6 DEF Inv, TypeOK, HasRequest, vars
  <2>2. (RxHolds /\ PendingLive /\ NoChannelPanic)'
    BY <1>6 DEF Inv, RxHolds, PendingLive, NoChannelPanic, vars
  <2> QED
    BY <2>1, <2>2 DEF Inv
<1> QED
  BY <1>1, <1>2, <1>3, <1>4, <1>5, <1>6, RxReadErrorStep, RxLockStep DEF Next

LEMMA Invariance == Spec => []Inv
  BY InitInv, NextInv, PTL DEF Spec

(* Whatever callers, receiveLoop and Close do, and even when callers share *)
(* transaction IDs, every variable keeps its type, and the map leads only  *)
(* to channels of running attempts.                                        *)
THEOREM ChannelSafety == Spec => [](TypeOK /\ PendingLive)
<1>1. Inv => TypeOK /\ PendingLive
  BY DEF Inv
<1> QED
  BY Invariance, <1>1, PTL

(* No channel is closed twice or sent on after it is closed: the deferred  *)
(* close of an attempt, receiveLoop's send and the lock between them never *)
(* panic, for any number of callers that may share transaction IDs.        *)
THEOREM ChannelsNeverPanic == Spec => []NoChannelPanic
<1>1. Inv => NoChannelPanic
  BY DEF Inv
<1> QED
  BY Invariance, <1>1, PTL
=============================================================================
