-------------------------------- MODULE Dora --------------------------------
(***************************************************************************)
(* DiscoverOffer and Request of dhcpv4/nclient4/client.go on top of        *)
(* SendAndRead as NClient4 models it, a server built on server4.Serve, and *)
(* the network between them, which reorders, loses and duplicates.         *)
(* Serve starts a goroutine for every message, so that the answers of a    *)
(* server are unordered too.                                               *)
(***************************************************************************)
EXTENDS NClient4

CONSTANTS
  offer, ack, nak, \* the message types a server answers with
  Naks,            \* the server may refuse a REQUEST
  MaxDup           \* bound: datagrams the network duplicates

(* Calls of Request do not share a transaction ID: GenerateTransactionID   *)
(* draws 32 random bits.  NClient4 has calls that do share one.            *)
ASSUME DoraAssumption ==
  /\ \A c, d \in Callers : c # d => XidsOf[c] \cap XidsOf[d] = {}
  /\ {offer, ack, nak} \subseteq Types /\ None \notin Requests \cup {{offer}}
  /\ {offer} \in Matchers /\ None \in Matchers
  /\ IfaceHWAddr \in HWAddrs
  /\ Naks \in BOOLEAN /\ MaxDup \in Nat

VARIABLES
  dora,      \* where Request is: "idle", "discover", "request", "ok", "failed"
  offerOf,   \* its offer
  ackOf,     \* its ack
  toServer,  \* the messages on their way to the server
  handling,  \* the messages whose handler has not answered yet
  toClient,  \* the answers on their way to the client
  dups,      \* how many datagrams were duplicated
  answered   \* history: a bag of the answers the server has sent

(* What goes to the server: a DISCOVER or a REQUEST.                       *)
Messages == [xid : Xids, kind : {"discover", "request"}]

requestVars == <<dora, offerOf, ackOf>>
netVars == <<toServer, handling, toClient, dups, answered>>
doraVars == <<vars, requestVars, netVars>>

(* The messages of a bag, by how many copies of each it has; one more, and *)
(* one less.                                                               *)
Members(B) == {m \in DOMAIN B : B[m] > 0}
Put(B, m) == [B EXCEPT ![m] = @ + 1]
Take(B, m) == [B EXCEPT ![m] = @ - 1]

DoraInit ==
  /\ Init
  /\ dora = [c \in Callers |-> "idle"]
  /\ offerOf = [c \in Callers |-> None]
  /\ ackOf = [c \in Callers |-> None]
  /\ toServer = [m \in Messages |-> 0] /\ handling = [m \in Messages |-> 0]
  /\ toClient = [p \in Packet |-> 0] /\ answered = [p \in Packet |-> 0]
  /\ dups = 0

-----------------------------------------------------------------------------
(* Request.                                                                *)

(* DiscoverOffer: a DISCOVER with a new transaction ID, and a matcher for  *)
(* offers.                                                                 *)
DiscoverOffer(c, x) ==
  /\ dora[c] = "idle"
  /\ SendAndRead(c, [xid |-> x, match |-> {offer}])
  /\ dora' = [dora EXCEPT ![c] = "discover"]
  /\ UNCHANGED <<offerOf, ackOf, netVars>>

RequestFails(c) ==
  /\ dora' = [dora EXCEPT ![c] = "failed"]
  /\ UNCHANGED <<vars, offerOf, ackOf, netVars>>

(* DiscoverOffer returned.  NewRequestFromOffer fails if the offer names   *)
(* no server; otherwise its request keeps the offer's transaction ID, and  *)
(* any reply to it will do.                                                *)
RequestFromOffer(c) ==
  /\ dora[c] = "discover" /\ pc[c] = "returned"
  /\ \/ RequestFails(c)
     \/ /\ err[c] = "nil"
        /\ SendAndRead(c, [xid |-> response[c].xid, match |-> None])
        /\ dora' = [dora EXCEPT ![c] = "request"]
        /\ offerOf' = [offerOf EXCEPT ![c] = response[c]]
        /\ UNCHANGED <<ackOf, netVars>>

(* Mutant: the error of the second SendAndRead is not looked at.           *)
RequestReturnsAnyway(c) ==
  /\ dora[c] = "request" /\ pc[c] = "returned"
  /\ dora' = [dora EXCEPT ![c] = "ok"]
  /\ ackOf' = [ackOf EXCEPT ![c] = response[c]]
  /\ UNCHANGED <<vars, offerOf, netVars>>

(* The second SendAndRead returned.                                        *)
RequestReturns(c) ==
  /\ dora[c] = "request" /\ pc[c] = "returned"
  /\ IF err[c] # "nil" THEN RequestFails(c)
     ELSE /\ dora' = [dora EXCEPT ![c] = "ok"]
          /\ ackOf' = [ackOf EXCEPT ![c] = response[c]]
          /\ UNCHANGED <<vars, offerOf, netVars>>

(* WriteTo, and what it puts on the wire.                                  *)
Write(c) ==
  /\ SendWrite(c)
  /\ toServer' = IF pc'[c] = "arm"
                 THEN Put(toServer, [xid |-> req[c].xid, kind |-> dora[c]])
                 ELSE toServer
  /\ UNCHANGED <<requestVars, handling, toClient, dups, answered>>

(* ReadFrom, and what it takes off the wire.                               *)
Read(p) ==
  /\ p \in Members(toClient)
  /\ RxRead(p)
  /\ toClient' = Take(toClient, p)
  /\ UNCHANGED <<requestVars, toServer, handling, dups, answered>>

(* The other steps of the client.  SelectNil is not among them: no caller  *)
(* shares its transaction ID here (theorem CallSafety).                    *)
ClientStep ==
  /\ \/ \E c \in Callers : \/ SendRegister(c) \/ Arm(c)
                           \/ SelectDone(c) \/ SelectTimeout(c) \/ SelectCtx(c)
                           \/ SelectPacket(c) \/ CancelDone(c) \/ CancelRemove(c)
                           \/ CtxCancel(c) \/ RxDone(c) \/ RxSend(c)
     \/ RxReadError \/ RxLock
     \/ \E k \in Closers : \/ CloseCAS(k) \/ CloseConn(k)
                           \/ CloseDone(k) \/ CloseWait(k)
  /\ UNCHANGED <<requestVars, netVars>>

-----------------------------------------------------------------------------
(* The server and the network.                                             *)

(* Serve reads a message and starts its handler.                           *)
Serve(m) ==
  /\ m \in Members(toServer)
  /\ toServer' = Take(toServer, m)
  /\ handling' = Put(handling, m)
  /\ UNCHANGED <<vars, requestVars, toClient, dups, answered>>

(* A handler answers a DISCOVER with an OFFER, and a REQUEST with an ACK   *)
(* or a NAK.                                                               *)
Handle(m) ==
  /\ m \in Members(handling)
  /\ handling' = Take(handling, m)
  /\ \E t \in IF m.kind = "discover" THEN {offer}
              ELSE {ack} \cup IF Naks THEN {nak} ELSE {} :
       LET p == [xid |-> m.xid, type |-> t, op |-> "reply", hw |-> IfaceHWAddr]
       IN  toClient' = Put(toClient, p) /\ answered' = Put(answered, p)
  /\ UNCHANGED <<vars, requestVars, toServer, dups>>

Lose ==
  /\ \/ \E m \in Members(toServer) :
          toServer' = Take(toServer, m) /\ UNCHANGED toClient
     \/ \E p \in Members(toClient) :
          toClient' = Take(toClient, p) /\ UNCHANGED toServer
  /\ UNCHANGED <<vars, requestVars, handling, dups, answered>>

Duplicate(p) ==
  /\ p \in Members(toClient) /\ dups < MaxDup
  /\ dups' = dups + 1
  /\ toClient' = Put(toClient, p)
  /\ UNCHANGED <<vars, requestVars, toServer, handling, answered>>

-----------------------------------------------------------------------------
DoraNext ==
  /\ panic = "no"
  /\ \/ \E c \in Callers : \/ \E x \in Xids : DiscoverOffer(c, x)
                           \/ RequestFromOffer(c) \/ RequestReturns(c)
                           \/ Write(c)
     \/ ClientStep
     \/ \E p \in Members(toClient) : Read(p) \/ Duplicate(p)
     \/ \E m \in Members(toServer) : Serve(m)
     \/ \E m \in Members(handling) : Handle(m)
     \/ Lose

DoraSpec == DoraInit /\ [][DoraNext]_doraVars

-----------------------------------------------------------------------------
(* Request completes the four-way handshake (line 282) as far as this:     *)
(* when it returns without an error, its second packet is a different      *)
(* datagram from the offer, of the same transaction, that the server did   *)
(* send.  It is no answer to the REQUEST only if it is a second OFFER, to  *)
(* a retransmitted DISCOVER or by duplication on the network.              *)
TwoAnswers ==
  \A c \in Callers : dora[c] = "ok" =>
    /\ offerOf[c] # None /\ offerOf[c].type = offer
    /\ ackOf[c] # None /\ ackOf[c].xid = offerOf[c].xid
    /\ offerOf[c] \in Members(answered) /\ ackOf[c] \in Members(answered)
    /\ ackOf[c].type = offer => answered[ackOf[c]] + dups > 1
=============================================================================
