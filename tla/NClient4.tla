------------------------------ MODULE NClient4 ------------------------------
(***************************************************************************)
(* The DHCPv4 client of dhcpv4/nclient4/client.go: any number of           *)
(* goroutines inside SendAndRead, the receiveLoop goroutine that hands     *)
(* each reply to the call waiting for its transaction ID, and Close.       *)
(*                                                                         *)
(* The channel pair (done, ch) that send makes for an attempt is named by  *)
(* the caller that made it: buf[c] and chClosed[c] are the contents and    *)
(* the closed flag of its ch, and its done is closed exactly between the   *)
(* two halves of cancel, when pc[c] = "remove".  PendingLive is what makes *)
(* this naming exact: the map never holds the channels of an attempt that  *)
(* is over.                                                                *)
(*                                                                         *)
(* pendingMu is held across several steps only by receiveLoop, while it is *)
(* blocked in its select; the critical sections of send and cancel do not  *)
(* block and are single steps, enabled when the lock is free.              *)
(***************************************************************************)
EXTENDS Integers, Sequences

CONSTANTS
  Callers,    \* goroutines that call SendAndRead, one call at a time
  Closers,    \* goroutines that call Close
  Xids,       \* transaction IDs
  XidsOf,     \* XidsOf[c]: the transaction IDs caller c may use
  Types,      \* DHCP message types
  Matchers,   \* matchers callers pass: None, or the set of types accepted
  HWAddrs,    \* hardware addresses
  IfaceHWAddr,\* c.ifaceHWAddr, or None
  BufferCap,  \* c.bufferCap
  Retry,      \* c.retry; negative means retry for ever
  None        \* nil

Packet == [xid: Xids, type: Types, op: {"request", "reply"}, hw: HWAddrs]

(* What one read of the connection can produce: a packet or bytes that     *)
(* dhcpv4.FromBytes refuses, here None.                                    *)
Datagram == Packet \cup {None}

ASSUME ConstantsAssumption ==
  /\ XidsOf \in [Callers -> SUBSET Xids]
  /\ Matchers \ {None} \subseteq SUBSET Types
  /\ IfaceHWAddr \in HWAddrs \cup {None}
  /\ BufferCap \in Nat
  /\ Retry \in Int
  /\ None \notin Callers \cup Packet \cup HWAddrs

VARIABLES
  conn,      \* the packet connection: "open" or "closed"
  closed,    \* c.closed, set by the Close that wins the compare-and-swap
  done,      \* c.done is closed
  pending,   \* c.pending: whose channels each transaction ID leads to
  rxpc,      \* where receiveLoop is
  rxMsg,     \* its msg
  pc,        \* where each caller is
  req,       \* the transaction ID and the matcher of its call
  tries,     \* attempts that ended in a timeout: i of retryFn
  err,       \* the error of the attempt, then of the call
  response,  \* the packet the call returns, or None
  ctxDone,   \* the call's context is cancelled
  buf,       \* packets in the attempt's ch
  chClosed,  \* the attempt's ch is closed
  closepc,   \* where each closer is
  panic,     \* "no", or the runtime error that killed the process
  first      \* history: the first packet received for the attempt that
             \* its matcher accepts, or None

connVars  == <<conn, closed, done>>
rxVars    == <<rxpc, rxMsg>>
callVars  == <<req, tries, ctxDone>>
replyVars == <<err, response>>
chanVars  == <<buf, chClosed>>
vars == <<connVars, pending, rxVars, pc, callVars, replyVars, chanVars,
          closepc, panic, first>>

Errors == {"nil", "ErrNoResponse", "errDeadlineExceeded", "ctx.Err",
           "inUse", "write"}

(* Between the registration and the removal of an attempt's channels.      *)
Attempt == {"write", "arm", "select", "recv", "cancel", "remove"}

Requests == [xid: Xids, match: Matchers]

(* Timeouts before the last attempt, and packets a channel holds: one in   *)
(* the hands of the receiver if it is unbuffered.                          *)
MaxTries == IF Retry > 0 THEN Retry - 1 ELSE 0
MaxLen == IF BufferCap = 0 THEN 1 ELSE BufferCap

(* Every variable has its type, no channel holds more packets than its     *)
(* capacity, and a call makes at most Retry attempts when Retry bounds it. *)
TypeOK ==
  /\ conn \in {"open", "closed"} /\ closed \in BOOLEAN /\ done \in BOOLEAN
  /\ pending \in [Xids -> Callers \cup {None}]
  /\ rxpc \in {"read", "lock", "deliver", "exited"}
  /\ rxMsg \in Packet \cup {None}
  /\ pc \in [Callers -> {"idle", "send", "returned"} \cup Attempt]
  /\ req \in [Callers -> Requests \cup {None}]
  /\ tries \in [Callers -> 0..MaxTries]
  /\ err \in [Callers -> Errors]
  /\ response \in [Callers -> Packet \cup {None}]
  /\ ctxDone \in [Callers -> BOOLEAN]
  /\ buf \in [Callers -> Seq(Packet)]
  /\ \A c \in Callers : Len(buf[c]) <= MaxLen
  /\ chClosed \in [Callers -> BOOLEAN]
  /\ closepc \in [Closers -> {"idle", "conn", "done", "wait", "returned"}]
  /\ panic \in {"no", "channel", "nil dereference"}
  /\ first \in [Callers -> Packet \cup {None}]

Init ==
  /\ conn = "open" /\ closed = FALSE /\ done = FALSE
  /\ pending = [x \in Xids |-> None]
  /\ rxpc = "read" /\ rxMsg = None
  /\ pc = [c \in Callers |-> "idle"]
  /\ req = [c \in Callers |-> None]
  /\ tries = [c \in Callers |-> 0]
  /\ err = [c \in Callers |-> "nil"]
  /\ response = [c \in Callers |-> None]
  /\ ctxDone = [c \in Callers |-> FALSE]
  /\ buf = [c \in Callers |-> <<>>]
  /\ chClosed = [c \in Callers |-> FALSE]
  /\ closepc = [k \in Closers |-> "idle"]
  /\ panic = "no"
  /\ first = [c \in Callers |-> None]

-----------------------------------------------------------------------------
(* SendAndRead, retryFn and send, as caller c runs them.                   *)

MuFree == rxpc # "deliver"

Matches(m, p) == m = None \/ p.type \in m

Goto(c, l) == pc' = [pc EXCEPT ![c] = l]

(* A call of SendAndRead: retryFn runs its first attempt unless c.retry    *)
(* is zero.                                                                *)
SendAndRead(c, r) ==
  /\ pc[c] \in {"idle", "returned"}
  /\ r.xid \in XidsOf[c]
  /\ req' = [req EXCEPT ![c] = r]
  /\ tries' = [tries EXCEPT ![c] = 0]
  /\ ctxDone' = [ctxDone EXCEPT ![c] = FALSE]
  /\ response' = [response EXCEPT ![c] = None]
  /\ IF Retry = 0
       THEN /\ Goto(c, "returned")
            /\ err' = [err EXCEPT ![c] = "ErrNoResponse"]
       ELSE /\ Goto(c, "send")
            /\ err' = [err EXCEPT ![c] = "nil"]
  /\ UNCHANGED <<connVars, pending, rxVars, chanVars, closepc, panic, first>>

(* What retryFn does when an attempt ends with e: a timeout is retried     *)
(* while attempts are left, anything else is the result of the call, and   *)
(* SendAndRead turns the last timeout into ErrNoResponse.                  *)
AttemptEnds(c, e) ==
  IF e = "errDeadlineExceeded" /\ (Retry < 0 \/ tries[c] + 1 < Retry)
  THEN /\ Goto(c, "send")
       /\ err' = [err EXCEPT ![c] = "nil"]
       /\ tries' = [tries EXCEPT ![c] = IF Retry < 0 THEN @ ELSE @ + 1]
  ELSE /\ Goto(c, "returned")
       /\ err' = [err EXCEPT ![c] = IF e = "errDeadlineExceeded"
                                    THEN "ErrNoResponse" ELSE e]
       /\ UNCHANGED tries

(* send: the locked part that refuses a transaction ID in use or registers *)
(* fresh channels for it.                                                  *)
SendRegister(c) ==
  /\ pc[c] = "send" /\ MuFree
  /\ IF pending[req[c].xid] # None
       THEN /\ AttemptEnds(c, "inUse")
            /\ UNCHANGED <<pending, chanVars, first>>
       ELSE /\ pending' = [pending EXCEPT ![req[c].xid] = c]
            /\ buf' = [buf EXCEPT ![c] = <<>>]
            /\ chClosed' = [chClosed EXCEPT ![c] = FALSE]
            /\ first' = [first EXCEPT ![c] = None]
            /\ Goto(c, "write")
            /\ UNCHANGED <<err, tries>>
  /\ UNCHANGED <<connVars, rxVars, req, ctxDone, response, closepc, panic>>

(* The attempt is decided: the deferred cancel runs next.                  *)
Decide(c, e) ==
  /\ Goto(c, "cancel")
  /\ err' = [err EXCEPT ![c] = e]

(* send: WriteTo, which may fail at any time and always does on a closed   *)
(* connection.                                                             *)
SendWrite(c) ==
  /\ pc[c] = "write"
  /\ \/ conn = "open" /\ Goto(c, "arm") /\ UNCHANGED err
     \/ Decide(c, "write")
  /\ UNCHANGED <<connVars, pending, rxVars, callVars, response, chanVars,
                 closepc, panic, first>>

(* The head of the for loop: time.After starts a new timer.                *)
Arm(c) ==
  /\ pc[c] = "arm"
  /\ Goto(c, "select")
  /\ UNCHANGED <<connVars, pending, rxVars, callVars, replyVars, chanVars,
                 closepc, panic, first>>

SelectEnds(c, e) ==
  /\ pc[c] = "select"
  /\ Decide(c, e)
  /\ UNCHANGED <<connVars, pending, rxVars, callVars, response, chanVars,
                 closepc, panic, first>>

SelectDone(c) == done /\ SelectEnds(c, "ErrNoResponse")

SelectTimeout(c) == SelectEnds(c, "errDeadlineExceeded")

(* Mutant: the select has no case for the context.                         *)
NoSelectCtx(c) == FALSE

SelectCtx(c) == ctxDone[c] /\ SelectEnds(c, "ctx.Err")

(* The select's receive from ch.  "recv" is a receiver that an unbuffered  *)
(* send has already chosen.                                                *)
SelectPacket(c) ==
  /\ pc[c] \in {"select", "recv"}
  /\ buf[c] # <<>>
  /\ buf' = [buf EXCEPT ![c] = Tail(@)]
  /\ IF Matches(req[c].match, Head(buf[c]))
       THEN /\ response' = [response EXCEPT ![c] = Head(buf[c])]
            /\ Decide(c, "nil")
       ELSE /\ Goto(c, "arm")
            /\ UNCHANGED replyVars
  /\ UNCHANGED <<connVars, pending, rxVars, callVars, chClosed, closepc,
                 panic, first>>

(* The same receive once ch is closed and drained: packet is nil.  With a  *)
(* nil matcher it becomes the response; any other matcher dereferences it. *)
SelectNil(c) ==
  /\ pc[c] = "select"
  /\ chClosed[c] /\ buf[c] = <<>>
  /\ IF req[c].match = None
       THEN Decide(c, "nil") /\ UNCHANGED panic
       ELSE panic' = "nil dereference" /\ UNCHANGED <<pc, err>>
  /\ UNCHANGED <<connVars, pending, rxVars, callVars, response, chanVars,
                 closepc, first>>

(* Mutant: cancel takes the lock before it closes done.                    *)
CancelDoneLocked(c) ==
  /\ pc[c] = "cancel" /\ MuFree
  /\ Goto(c, "remove")
  /\ UNCHANGED <<connVars, pending, rxVars, callVars, replyVars, chanVars,
                 closepc, panic, first>>

(* cancel, first half: close(done).                                        *)
CancelDone(c) ==
  /\ pc[c] = "cancel"
  /\ Goto(c, "remove")
  /\ UNCHANGED <<connVars, pending, rxVars, callVars, replyVars, chanVars,
                 closepc, panic, first>>

(* Mutant: ch is closed but its entry is left in the map.                  *)
CloseOnly(x) ==
  /\ UNCHANGED pending
  /\ chClosed' = [chClosed EXCEPT ![pending[x]] = TRUE]
  /\ panic' = IF chClosed[pending[x]] THEN "channel" ELSE panic

(* close(p.ch) and delete for the entry of transaction ID x.               *)
CloseAndDelete(x) ==
  /\ pending' = [pending EXCEPT ![x] = None]
  /\ chClosed' = [chClosed EXCEPT ![pending[x]] = TRUE]
  /\ panic' = IF chClosed[pending[x]] THEN "channel" ELSE panic

(* cancel, second half, and the return into retryFn.  Whatever entry the   *)
(* transaction ID has is removed, whoever made it.                         *)
CancelRemove(c) ==
  /\ pc[c] = "remove" /\ MuFree
  /\ IF pending[req[c].xid] # None
       THEN CloseAndDelete(req[c].xid)
       ELSE UNCHANGED <<pending, chClosed, panic>>
  /\ AttemptEnds(c, err[c])
  /\ UNCHANGED <<connVars, rxVars, req, ctxDone, response, buf, closepc,
                 first>>

(* The context of a running call is cancelled, or its deadline passes.     *)
CtxCancel(c) ==
  /\ pc[c] \notin {"idle", "returned"}
  /\ ctxDone' = [ctxDone EXCEPT ![c] = TRUE]
  /\ UNCHANGED <<connVars, pending, rxVars, pc, req, tries, replyVars,
                 chanVars, closepc, panic, first>>

-----------------------------------------------------------------------------
(* receiveLoop.                                                            *)

(* Mutant: the hardware address is not compared.                           *)
AcceptsAnyHW(p) == p # None /\ p.op = "reply"

(* The replies receiveLoop does not skip.                                  *)
Accepts(p) ==
  /\ p # None
  /\ p.op = "reply"
  /\ IfaceHWAddr # None => p.hw = IfaceHWAddr

(* ReadFrom returned a datagram: the checks that precede the lock.         *)
RxRead(p) ==
  /\ rxpc = "read" /\ conn = "open"
  /\ IF Accepts(p) THEN rxpc' = "lock" /\ rxMsg' = p ELSE UNCHANGED rxVars
  /\ UNCHANGED <<connVars, pending, pc, callVars, replyVars, chanVars,
                 closepc, panic, first>>

(* Mutant: an error is logged and the loop keeps reading.                  *)
RxReadErrorContinue == rxpc = "read" /\ UNCHANGED vars

(* ReadFrom failed, for any reason: the loop ends.                         *)
RxReadError ==
  /\ rxpc = "read"
  /\ rxpc' = "exited"
  /\ UNCHANGED <<connVars, pending, rxMsg, pc, callVars, replyVars, chanVars,
                 closepc, panic, first>>

(* Lock and lookup.  An entry leads into the select, still under the lock. *)
RxLock ==
  /\ rxpc = "lock"
  /\ LET c == pending[rxMsg.xid] IN
       IF c = None
       THEN rxpc' = "read" /\ rxMsg' = None /\ UNCHANGED first
       ELSE /\ rxpc' = "deliver" /\ UNCHANGED rxMsg
            /\ first' = [first EXCEPT ![c] =
                 IF @ = None /\ Matches(req[c].match, rxMsg) THEN rxMsg ELSE @]
  /\ UNCHANGED <<connVars, pending, pc, callVars, replyVars, chanVars,
                 closepc, panic>>

(* The select's <-p.done branch: the caller wants no more.                 *)
RxDone(c) ==
  /\ rxpc = "deliver" /\ pending[rxMsg.xid] = c
  /\ pc[c] = "remove"
  /\ CloseAndDelete(rxMsg.xid)
  /\ rxpc' = "read" /\ rxMsg' = None
  /\ UNCHANGED <<connVars, pc, callVars, replyVars, buf, closepc, first>>

(* A send on ch can proceed: it has room, or is unbuffered and its reader  *)
(* is waiting, or ch is closed and the send panics.                        *)
CanSend(c) ==
  \/ chClosed[c]
  \/ Len(buf[c]) < BufferCap
  \/ BufferCap = 0 /\ buf[c] = <<>> /\ pc[c] = "select"

(* Mutant: a packet for a full channel takes the place of the oldest one.  *)
RxSendOrReplace(c) ==
  /\ rxpc = "deliver" /\ pending[rxMsg.xid] = c
  /\ buf' = [buf EXCEPT ![c] = IF Len(@) < BufferCap THEN Append(@, rxMsg)
                                            ELSE Append(Tail(@), rxMsg)]
  /\ rxpc' = "read" /\ rxMsg' = None
  /\ UNCHANGED <<connVars, pending, pc, callVars, replyVars, chClosed, closepc,
                 panic, first>>

(* Mutant: the entry is removed with the first packet sent to it.          *)
RxSendOnce(c) ==
  /\ rxpc = "deliver" /\ pending[rxMsg.xid] = c
  /\ CanSend(c)
  /\ buf' = [buf EXCEPT ![c] = Append(@, rxMsg)]
  /\ pending' = [pending EXCEPT ![rxMsg.xid] = None]
  /\ rxpc' = "read" /\ rxMsg' = None
  /\ UNCHANGED <<connVars, pc, callVars, replyVars, chClosed, closepc, panic,
                 first>>

(* The select's p.ch <- msg branch; a send on a closed channel panics.     *)
RxSend(c) ==
  /\ rxpc = "deliver" /\ pending[rxMsg.xid] = c
  /\ CanSend(c)
  /\ buf' = [buf EXCEPT ![c] = Append(@, rxMsg)]
  /\ panic' = IF chClosed[c] THEN "channel" ELSE panic
  /\ IF BufferCap = 0 /\ ~chClosed[c] THEN Goto(c, "recv") ELSE UNCHANGED pc
  /\ rxpc' = "read" /\ rxMsg' = None
  /\ UNCHANGED <<connVars, pending, callVars, replyVars, chClosed, closepc,
                 first>>

-----------------------------------------------------------------------------
(* Close, as closer k runs it.                                             *)

CloseStep(k, from, to) ==
  /\ closepc[k] = from
  /\ closepc' = [closepc EXCEPT ![k] = to]
  /\ UNCHANGED <<pending, rxVars, pc, callVars, replyVars, chanVars, panic,
                 first>>

(* The compare-and-swap; a Close that loses it returns at once.            *)
CloseCAS(k) ==
  /\ CloseStep(k, "idle", IF closed THEN "returned" ELSE "conn")
  /\ closed' = TRUE
  /\ UNCHANGED <<conn, done>>

CloseConn(k) ==
  /\ CloseStep(k, "conn", "done")
  /\ conn' = "closed"
  /\ UNCHANGED <<closed, done>>

CloseDone(k) ==
  /\ CloseStep(k, "done", "wait")
  /\ done' = TRUE
  /\ UNCHANGED <<conn, closed>>

(* wg.Wait.                                                                *)
CloseWait(k) ==
  /\ rxpc = "exited"
  /\ CloseStep(k, "wait", "returned")
  /\ UNCHANGED connVars

-----------------------------------------------------------------------------
CallStep(c) ==
  \/ SendRegister(c) \/ SendWrite(c) \/ Arm(c)
  \/ SelectDone(c) \/ SelectTimeout(c) \/ SelectCtx(c)
  \/ SelectPacket(c) \/ SelectNil(c)
  \/ CancelDone(c) \/ CancelRemove(c)

Next ==
  /\ panic = "no"
  /\ \/ \E c \in Callers : \/ \E r \in Requests : SendAndRead(c, r)
                           \/ CallStep(c)
                           \/ CtxCancel(c)
                           \/ RxDone(c) \/ RxSend(c)
     \/ \E p \in Datagram : RxRead(p)
     \/ RxReadError \/ RxLock
     \/ \E k \in Closers : \/ CloseCAS(k) \/ CloseConn(k)
                           \/ CloseDone(k) \/ CloseWait(k)

Spec == Init /\ [][Next]_vars

(* Fairness: no goroutine that can run is left waiting for ever; select    *)
(* picks among its ready cases at random and the mutex hands itself to a   *)
(* goroutine that has waited too long, so a case or a lock that is ready   *)
(* again and again is eventually taken; a read of a closed connection      *)
(* fails.  Nothing is assumed of the network, of contexts, of new calls or *)
(* of calls to Close.  The timer is only weakly fair: every packet that    *)
(* does not match starts a new one.                                        *)
Fairness ==
  /\ \A c \in Callers :
       /\ SF_vars(SendRegister(c) \/ CancelRemove(c))
       /\ SF_vars(SelectDone(c) \/ SelectCtx(c))
       /\ WF_vars(\/ SendWrite(c) \/ Arm(c) \/ CancelDone(c)
                  \/ pc[c] = "recv" /\ SelectPacket(c))
       /\ WF_vars(SelectTimeout(c))
  /\ WF_vars(RxLock)
  /\ WF_vars(\E c \in Callers : RxDone(c) \/ RxSend(c))
  /\ WF_vars(conn = "closed" /\ RxReadError)
  /\ \A k \in Closers : WF_vars(CloseConn(k) \/ CloseDone(k) \/ CloseWait(k))

FairSpec == Spec /\ Fairness

-----------------------------------------------------------------------------
(* Safety.                                                                 *)

(* The map leads receiveLoop only to channels of an attempt that is still  *)
(* running for that transaction ID, and that nobody has closed: send       *)
(* (line 319) registers, cancel (332-335) and receiveLoop (204-206)        *)
(* unregister, and between them no entry outlives its attempt.             *)
PendingLive ==
  \A x \in Xids : pending[x] # None =>
    /\ pc[pending[x]] \in Attempt
    /\ req[pending[x]].xid = x
    /\ ~chClosed[pending[x]]

(* cancel and receiveLoop, which both close ch (lines 205 and 333), never  *)
(* close it twice, and receiveLoop (209) never sends on it once closed.    *)
NoChannelPanic == panic # "channel"

(* Nobody else uses the transaction ID of c's call.                        *)
Alone(c) ==
  /\ req[c] # None
  /\ \A d \in Callers \ {c} : req[c].xid \notin XidsOf[d]

(* From registration until its own cancel closes done, the channels of a   *)
(* call that is alone with its ID stay in the map: no reply for it is      *)
(* dropped because somebody else removed its entry.                        *)
Registered ==
  \A c \in Callers :
    pc[c] \in Attempt \ {"remove"} /\ Alone(c) => pending[req[c].xid] = c

(* Such a call never receives from a closed channel, so its matcher is not *)
(* given nil, and without an error it returns a packet (lines 375-378).    *)
AloneGetsPacket ==
  \A c \in Callers : Alone(c) =>
    /\ pc[c] = "select" => ~chClosed[c]
    /\ pc[c] = "returned" /\ err[c] = "nil" => response[c] # None

(* Such a call is never told that its ID is in use (line 314), however its *)
(* earlier attempts and the caller's earlier calls ended.                  *)
NeverInUse ==
  \A c \in Callers : pc[c] = "returned" /\ err[c] = "inUse" => ~Alone(c)

(* A call that is alone with its transaction ID is not disturbed by the    *)
(* calls of others: the three facts above (send, cancel, receiveLoop).     *)
AloneUndisturbed == Registered /\ AloneGetsPacket /\ NeverInUse

(* A call that returns no error returns a packet (lines 350-354), and no   *)
(* matcher is given nil, also when calls share a transaction ID.           *)
NoNilResponse ==
  /\ panic # "nil dereference"
  /\ \A c \in Callers :
       pc[c] = "returned" /\ err[c] = "nil" => response[c] # None

(* The packet a call returns is a reply to its own transaction ID for this *)
(* interface, and its matcher accepts it, although it passed through the   *)
(* map, a channel and perhaps several attempts on the way.                 *)
ResponseMatches ==
  \A c \in Callers : pc[c] = "returned" /\ response[c] # None =>
    /\ err[c] = "nil"
    /\ response[c].xid = req[c].xid
    /\ response[c].op = "reply"
    /\ IfaceHWAddr # None => response[c].hw = IfaceHWAddr
    /\ req[c].match # None => response[c].type \in req[c].match

(* SendAndRead returns the first response (line 350): of the packets that  *)
(* receiveLoop found an entry for during the attempt, none that matches    *)
(* was received before the one returned, and none is lost on the way.      *)
FirstResponse ==
  \A c \in Callers : pc[c] = "returned" /\ response[c] # None =>
    response[c] = first[c]

-----------------------------------------------------------------------------
(* Liveness.                                                               *)

(* The chain reaction Close describes (lines 145-157) terminates: every    *)
(* Close returns, whatever the callers and receiveLoop are doing.          *)
CloseReturns ==
  \A k \in Closers : closepc[k] # "idle" ~> closepc[k] = "returned"

(* Once Close has closed c.done (line 366), every running call returns;    *)
(* so does one whose context is cancelled (line 372), even while packets   *)
(* that do not match keep coming and another caller's full channel makes   *)
(* receiveLoop block with the lock held.                                   *)
Unblocks ==
  \A c \in Callers : ((done /\ pc[c] # "idle") \/ ctxDone[c]) ~> pc[c] = "returned"

(* If packets stop coming and retries are bounded, every call returns,     *)
(* also when receiveLoop has died of a read error (lines 174-178).         *)
CallReturns ==
  (<>[][~\E p \in Datagram : RxRead(p) /\ rxpc' = "lock"]_vars) =>
    \A c \in Callers : pc[c] # "idle" ~> pc[c] = "returned"

=============================================================================
