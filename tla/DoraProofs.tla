----------------------------- MODULE DoraProofs -----------------------------
(* Proofs about Dora: its client takes only steps of NClient4, and the two *)
(* packets of a successful Request are two datagrams.                      *)
EXTENDS Dora, NClient4CallProofs

USE DEF Goto, connVars, rxVars,
    callVars, replyVars, chanVars

-----------------------------------------------------------------------------
(* Copies.                                                                 *)

LEMMA MembersIn ==
  ASSUME NEW S, NEW B \in [S -> Nat]
  PROVE  Members(B) \subseteq S /\ \A x \in S : B[x] \in Nat /\ (x \in Members(B) <=> B[x] > 0)
BY DEF Members

LEMMA PutCopies ==
  ASSUME NEW S, NEW B \in [S -> Nat], NEW e \in S
  PROVE  /\ Put(B, e) \in [S -> Nat]
         /\ Members(Put(B, e)) = Members(B) \cup {e}
         /\ \A x \in S : Put(B, e)[x] = B[x] + (IF x = e THEN 1 ELSE 0)
<1> DEFINE C == Put(B, e)
<1>1. C \in [S -> Nat] /\ \A x \in S : C[x] = B[x] + (IF x = e THEN 1 ELSE 0)
  BY DEF Put
<1>2. \A x \in S : C[x] > 0 <=> B[x] > 0 \/ x = e
  BY <1>1
<1> HIDE DEF C
<1>3. Members(C) = Members(B) \cup {e}
  BY <1>1, <1>2 DEF Members
<1> QED
  BY <1>1, <1>3 DEF C

LEMMA TakeCopies ==
  ASSUME NEW S, NEW B \in [S -> Nat], NEW e \in Members(B)
  PROVE  /\ Take(B, e) \in [S -> Nat]
         /\ Members(Take(B, e)) \subseteq Members(B)
         /\ \A x \in S : Take(B, e)[x] = B[x] - (IF x = e THEN 1 ELSE 0)
<1> DEFINE C == Take(B, e)
<1>1. e \in S /\ B[e] > 0
  BY DEF Members
<1>2. C \in [S -> Nat] /\ \A x \in S : C[x] = B[x] - (IF x = e THEN 1 ELSE 0)
  BY <1>1 DEF Take
<1>3. \A x \in S : C[x] > 0 => B[x] > 0
  BY <1>1, <1>2
<1> HIDE DEF C
<1>4. Members(C) \subseteq Members(B)
  BY <1>2, <1>3 DEF Members
<1> QED
  BY <1>2, <1>4 DEF C

-----------------------------------------------------------------------------
(* The client of Dora takes steps of NClient4.                             *)

(* What is known of the client: the invariants of NClient4.                *)
ClientInv == Inv /\ AloneInv /\ RespInv

LEMMA NoneOutside == None \notin Packet /\ IfaceHWAddr \in HWAddrs /\ IfaceHWAddr # None
BY ConstantsAssumption, DoraAssumption DEF ConstantsAssumption, DoraAssumption

LEMMA OfferMatcher == {offer} # None
BY DoraAssumption DEF DoraAssumption

(* No other call has the transaction ID of a call of Request.              *)
LEMMA AllAlone ==
  ASSUME ClientInv, NEW c \in Callers, pc[c] # "idle"
  PROVE  Alone(c)
<1>1. req[c] \in Requests /\ req[c].xid \in XidsOf[c]
  BY DEF ClientInv, Inv, HasRequest, AloneInv, OwnRequest
<1>2. req[c] # None
  BY <1>1, DoraAssumption DEF DoraAssumption
<1>3. \A d \in Callers \ {c} : XidsOf[c] \cap XidsOf[d] = {}
  BY DoraAssumption DEF DoraAssumption
<1> QED
  BY <1>1, <1>2, <1>3 DEF Alone

LEMMA SuccessHasResponse ==
  ASSUME ClientInv, NEW c \in Callers, pc[c] = "returned", err[c] = "nil"
  PROVE  /\ response[c] \in Packet /\ response[c] # None
         /\ response[c].xid = req[c].xid /\ response[c].op = "reply"
         /\ response[c].hw = IfaceHWAddr
         /\ req[c].match # None => response[c].type \in req[c].match
<1>1. response[c] # None
  BY AllAlone DEF ClientInv, AloneInv, HasResponse
<1>2. response[c] \in Packet
  BY <1>1, Zenon DEF ClientInv, Inv, TypeOK
<1> QED
  BY <1>1, <1>2, NoneOutside DEF ClientInv, RespInv, HeldMatches, Answers, ForMe

LEMMA ClientSteps ==
  ASSUME ClientInv, toClient \in [Packet -> Nat], [DoraNext]_doraVars
  PROVE  [Next]_vars
<1>1. CASE UNCHANGED doraVars
  BY <1>1 DEF doraVars
<1>2. CASE DoraNext
  <2> USE <1>2
  <2>1. panic = "no"
    BY DEF DoraNext
  <2>2. ASSUME NEW c \in Callers, NEW x \in Xids, DiscoverOffer(c, x) PROVE Next
    <3>1. [xid |-> x, match |-> {offer}] \in Requests
      BY DoraAssumption DEF DoraAssumption, Requests
    <3>2. SendAndRead(c, [xid |-> x, match |-> {offer}])
      BY <2>2 DEF DiscoverOffer
    <3> QED
      BY <2>1, <3>1, <3>2 DEF Next
  <2>3. ASSUME NEW c \in Callers, RequestFromOffer(c) PROVE [Next]_vars
    <3>1. CASE RequestFails(c)
      BY <3>1 DEF RequestFails
    <3>2. CASE ~RequestFails(c)
      <4> DEFINE r == [xid |-> response[c].xid, match |-> None]
      <4>1. pc[c] = "returned" /\ err[c] = "nil" /\ SendAndRead(c, r)
        BY <2>3, <3>2 DEF RequestFromOffer
      <4>2. response[c] \in Packet
        BY <4>1, SuccessHasResponse
      <4>3. r \in Requests
        BY <4>2, DoraAssumption DEF DoraAssumption, Requests, Packet
      <4> HIDE DEF r
      <4> QED
        BY <2>1, <4>1, <4>3 DEF Next
    <3> QED
      BY <3>1, <3>2
  <2>4. ASSUME NEW c \in Callers, RequestReturns(c) PROVE UNCHANGED vars
    BY <2>4 DEF RequestReturns, RequestFails
  <2>5. ASSUME NEW c \in Callers, Write(c) PROVE Next
    BY <2>1, <2>5 DEF Write, Next, CallStep
  <2>6. CASE ClientStep
    BY <2>1, <2>6 DEF ClientStep, Next, CallStep
  <2>7. ASSUME NEW p \in Members(toClient), Read(p) \/ Duplicate(p) PROVE [Next]_vars
    <3>1. p \in Datagram
      BY MembersIn DEF Datagram
    <3> QED
      BY <2>1, <2>7, <3>1 DEF Read, Duplicate, Next
  <2>8. ASSUME NEW m \in Members(toServer), Serve(m) PROVE UNCHANGED vars
    BY <2>8 DEF Serve
  <2>9. ASSUME NEW m \in Members(handling), Handle(m) PROVE UNCHANGED vars
    BY <2>9 DEF Handle
  <2>10. CASE Lose
    BY <2>10 DEF Lose
  <2> QED
    BY <2>2, <2>3, <2>4, <2>5, <2>6, <2>7, <2>8, <2>9, <2>10 DEF DoraNext
<1> QED
  BY <1>1, <1>2

LEMMA ClientInvNext ==
  ASSUME ClientInv, toClient \in [Packet -> Nat], [DoraNext]_doraVars
  PROVE  ClientInv'
<1>1. [Next]_vars
  BY ClientSteps
<1> QED
  BY <1>1, NextInv, AloneNext, RespNext DEF ClientInv

-----------------------------------------------------------------------------
(* Where a packet can be: n copies of it on the network, in receiveLoop's  *)
(* hands (r), in a channel (q), as the response of a call (s), as the      *)
(* offer of a Request (o).                                                 *)
In(p, q) == \E i \in 1..Len(q) : q[i] = p

(* Packet p is in at most one of these places, and once.                   *)
Once(p, n, r, q, s, o) ==
  /\ n <= 1
  /\ n = 1 => r # p /\ ~In(p, q) /\ s # p /\ o # p
  /\ r = p => ~In(p, q) /\ s # p /\ o # p
  /\ \A i, j \in 1..Len(q) : q[i] = p /\ q[j] = p => i = j
  /\ In(p, q) => s # p /\ o # p
  /\ s = p => o # p

LEMMA InEmpty == \A p : ~In(p, <<>>)
BY DEF In

LEMMA OnceLess ==
  ASSUME NEW p, p # None, NEW n \in Nat, NEW r, NEW q, NEW s, NEW o, Once(p, n, r, q, s, o),
         NEW n2 \in Nat, n2 <= n, NEW r2 \in {r, None}, NEW q2 \in {q, <<>>},
         NEW s2 \in {s, None}
  PROVE  Once(p, n2, r2, q2, s2, o)
<1>1. n2 <= 1 /\ (n2 = 1 => n = 1)
  BY DEF Once
<1>2. In(p, q2) => q2 = q
  BY InEmpty
<1>3. \A i, j \in 1..Len(q2) : q2[i] = p /\ q2[j] = p => i = j
  BY <1>2 DEF Once, In
<1>4. (r2 = p => r = p) /\ (s2 = p => s = p)
  OBVIOUS
<1> QED
  BY <1>1, <1>2, <1>3, <1>4 DEF Once

(* The first copy of a packet.                                             *)
LEMMA OnceNew ==
  ASSUME NEW p, NEW r, NEW q, NEW s, NEW o, r # p, ~In(p, q), s # p, o # p
  PROVE  Once(p, 1, r, q, s, o)
BY DEF Once, In

(* receiveLoop reads x.                                                    *)
LEMMA OnceRead ==
  ASSUME NEW p, NEW n \in Nat, NEW r, NEW q, NEW s, NEW o, Once(p, n, r, q, s, o),
         NEW x, NEW n2 \in Nat, n2 = n - (IF p = x THEN 1 ELSE 0)
  PROVE  Once(p, n2, x, q, s, o)
<1>1. CASE p = x
  <2>1. n <= 1 /\ n2 = n - 1
    BY <1>1 DEF Once
  <2>2. n = 1 /\ n2 = 0
    BY <2>1
  <2> QED
    BY <1>1, <2>2 DEF Once
<1>2. CASE p # x
  <2>1. n2 = n
    BY <1>2
  <2> QED
    BY <1>2, <2>1 DEF Once
<1> QED
  BY <1>1, <1>2

LEMMA InAppend ==
  ASSUME NEW q \in Seq(Packet), NEW r \in Packet, NEW p
  PROVE  /\ In(p, Append(q, r)) <=> In(p, q) \/ p = r
         /\ \A i \in 1..Len(Append(q, r)) : \/ i \in 1..Len(q) /\ Append(q, r)[i] = q[i]
                                            \/ i = Len(q) + 1 /\ Append(q, r)[i] = r
<1>1. Len(q) \in Nat
  BY LenProperties
<1>2. /\ Len(Append(q, r)) = Len(q) + 1
      /\ \A i \in 1..Len(q) : Append(q, r)[i] = q[i]
      /\ Append(q, r)[Len(q) + 1] = r
  BY AppendProperties
<1> DEFINE t == Append(q, r)
           m == Len(q)
<1>3. m \in Nat /\ (\A i \in 1..m : t[i] = q[i]) /\ t[m + 1] = r /\ Len(t) = m + 1
  BY <1>1, <1>2
<1>4. In(p, q) <=> \E i \in 1..m : q[i] = p
  BY DEF In
<1> HIDE DEF t, m
<1>5. \A i \in 1..(m + 1) : i \in 1..m \/ i = m + 1
  BY <1>3
<1>6. m + 1 \in 1..(m + 1) /\ \A i \in 1..m : i \in 1..(m + 1)
  BY <1>3
<1>7. In(p, t) <=> In(p, q) \/ p = r
  BY <1>3, <1>4, <1>5, <1>6 DEF In
<1>8. \A i \in 1..Len(t) : (i \in 1..m /\ t[i] = q[i]) \/ (i = m + 1 /\ t[i] = r)
  BY <1>3, <1>5
<1> QED
  BY <1>7, <1>8 DEF t, m

(* receiveLoop sends what it holds into the channel.                       *)
LEMMA OnceSend ==
  ASSUME NEW p, p # None, NEW n \in Nat, NEW r \in Packet, NEW q \in Seq(Packet), NEW s, NEW o,
         Once(p, n, r, q, s, o)
  PROVE  Once(p, n, None, Append(q, r), s, o)
<1> DEFINE t == Append(q, r)
<1>1. /\ In(p, t) <=> In(p, q) \/ p = r
      /\ \A i \in 1..Len(t) : \/ i \in 1..Len(q) /\ t[i] = q[i]
                              \/ i = Len(q) + 1 /\ t[i] = r
  BY InAppend
<1> HIDE DEF t
<1>2. ASSUME NEW i \in 1..Len(t), NEW j \in 1..Len(t), t[i] = p, t[j] = p PROVE i = j
  <2>1. CASE r = p
    BY <1>1, <1>2, <2>1 DEF Once, In
  <2>2. CASE r # p
    BY <1>1, <1>2, <2>2 DEF Once
  <2> QED
    BY <2>1, <2>2
<1>3. Once(p, n, None, t, s, o)
  BY <1>1, <1>2 DEF Once
<1> QED
  BY <1>3 DEF t

LEMMA InTail ==
  ASSUME NEW q \in Seq(Packet), q # <<>>
  PROVE  /\ Head(q) = q[1] /\ 1 \in 1..Len(q) /\ Tail(q) \in Seq(Packet)
         /\ \A i \in 1..Len(Tail(q)) : Tail(q)[i] = q[i+1] /\ i+1 \in 1..Len(q) /\ i + 1 # 1
         /\ \A p : In(p, Tail(q)) => In(p, q)
<1>1. /\ Len(Tail(q)) = Len(q) - 1 /\ Tail(q) \in Seq(Packet)
      /\ \A i \in 1..Len(Tail(q)) : Tail(q)[i] = q[i+1]
  BY HeadTailProperties
<1>2. Len(q) \in Nat \ {0}
  BY EmptySeq, LenProperties
<1>3. Head(q) = q[1]
  OBVIOUS
<1>4. 1 \in 1..Len(q) /\ \A i \in 1..(Len(q) - 1) : i+1 \in 1..Len(q) /\ i + 1 # 1
  BY <1>2
<1>5. \A i \in 1..Len(Tail(q)) : Tail(q)[i] = q[i+1] /\ i+1 \in 1..Len(q) /\ i + 1 # 1
  BY <1>1, <1>4
<1> QED
  BY <1>1, <1>3, <1>4, <1>5 DEF In

(* A call takes the head of its channel, as its response or not.           *)
LEMMA OnceTake ==
  ASSUME NEW p, p # None, NEW n \in Nat, NEW r, NEW q \in Seq(Packet), q # <<>>, NEW o,
         Once(p, n, r, q, None, o), NEW s \in {None, Head(q)}
  PROVE  Once(p, n, r, Tail(q), s, o)
<1> DEFINE t == Tail(q)
<1>1. /\ Head(q) = q[1] /\ 1 \in 1..Len(q)
      /\ \A i \in 1..Len(t) : t[i] = q[i+1] /\ i+1 \in 1..Len(q) /\ i + 1 # 1
      /\ In(p, t) => In(p, q)
  BY InTail
<1>2. t \in Seq(Packet)
  BY InTail
<1> HIDE DEF t
<1>3. s = p => In(p, q) /\ ~In(p, t)
  <2>1. s = p => q[1] = p
    BY <1>1
  <2> QED
    BY <1>1, <2>1 DEF Once, In
<1>4. ASSUME NEW i \in 1..Len(t), NEW j \in 1..Len(t), t[i] = p, t[j] = p PROVE i = j
  <2>1. i + 1 = j + 1
    BY <1>1, <1>4, Zenon DEF Once
  <2>2. i \in Int /\ j \in Int
    OBVIOUS
  <2> QED
    BY <2>1, <2>2
<1>5. Once(p, n, r, t, s, o)
  BY <1>1, <1>3, <1>4 DEF Once
<1> QED
  BY <1>5 DEF t

(* The response becomes the offer of the Request.                          *)
LEMMA OnceOffer ==
  ASSUME NEW p, p # None, NEW n \in Nat, NEW r, NEW q, NEW s, NEW o, Once(p, n, r, q, s, o)
  PROVE  Once(p, n, r, q, None, s)
BY DEF Once

-----------------------------------------------------------------------------
(* The inductive invariant, on top of ClientInv.                           *)

NetOK ==
  /\ toServer \in [Messages -> Nat] /\ handling \in [Messages -> Nat]
  /\ toClient \in [Packet -> Nat] /\ answered \in [Packet -> Nat]
  /\ dups \in Nat

(* Where Request is, and where its SendAndRead.                            *)
PhaseOf(c) ==
  /\ dora[c] = "idle" <=> pc[c] = "idle"
  /\ dora[c] \in {"ok", "failed"} => pc[c] = "returned"
  /\ dora[c] = "discover" => req[c].match = {offer}
  /\ dora[c] = "request" => /\ req[c].match = None
                            /\ offerOf[c] \in Packet
                            /\ offerOf[c].xid = req[c].xid
                            /\ offerOf[c].type = offer /\ offerOf[c].op = "reply"
                            /\ offerOf[c].hw = IfaceHWAddr
Phases ==
  /\ dora \in [Callers -> {"idle", "discover", "request", "ok", "failed"}]
  /\ offerOf \in [Callers -> Packet \cup {None}]
  /\ ackOf \in [Callers -> Packet \cup {None}]
  /\ \A c \in Callers : PhaseOf(c)

(* Whatever the client has, the server has sent.                           *)
Sent(p) == p \in Members(answered)
AllSent ==
  /\ \A p \in Members(toClient) : Sent(p)
  /\ rxMsg # None => Sent(rxMsg)
  /\ \A c \in Callers : /\ \A i \in 1..Len(buf[c]) : Sent(buf[c][i])
                        /\ response[c] # None => Sent(response[c])
                        /\ offerOf[c] # None => Sent(offerOf[c])

(* A packet sent once and never duplicated is in one place.                *)
OnceFor(c, p) ==
  answered[p] + dups <= 1 =>
    Once(p, toClient[p], rxMsg, buf[c], response[c], offerOf[c])
Sole == \A c \in Callers, p \in Packet : OnceFor(c, p)

DoraInv == NetOK /\ Phases /\ AllSent /\ Sole /\ TwoAnswers

(* A step in which the server and the network only add, and the client     *)
(* only drops packets.                                                     *)
Less ==
  /\ toClient' = toClient \/ (\E x \in Members(toClient) : toClient' = Take(toClient, x))
  /\ UNCHANGED <<answered, dups, offerOf>>
  /\ rxMsg' \in {rxMsg, None}
  /\ \A c \in Callers : buf'[c] \in {buf[c], <<>>} /\ response'[c] \in {response[c], None}

LEMMA LessNet ==
  ASSUME NetOK, Less
  PROVE  /\ toClient' \in [Packet -> Nat] /\ Members(toClient') \subseteq Members(toClient)
         /\ \A p \in Packet : /\ toClient'[p] \in Nat /\ toClient[p] \in Nat
                              /\ toClient'[p] <= toClient[p]
<1>1. toClient \in [Packet -> Nat]
  BY DEF NetOK
<1>2. CASE toClient' = toClient
  BY <1>1, <1>2
<1>3. ASSUME NEW x \in Members(toClient), toClient' = Take(toClient, x)
      PROVE  /\ toClient' \in [Packet -> Nat] /\ Members(toClient') \subseteq Members(toClient)
             /\ \A p \in Packet : toClient'[p] = toClient[p] - (IF p = x THEN 1 ELSE 0)
  BY <1>1, <1>3, TakeCopies
<1> QED
  BY <1>1, <1>2, <1>3 DEF Less

LEMMA LessKeeps ==
  ASSUME NetOK, AllSent, Sole, Less
  PROVE  AllSent' /\ Sole'
<1>1. Members(toClient') \subseteq Members(toClient)
  BY LessNet
<1>2. \A p : Sent(p)' <=> Sent(p)
  BY DEF Less, Sent
<1>3. AllSent'
  <2>1. \A p \in Members(toClient') : Sent(p)
    BY <1>1 DEF AllSent
  <2>2. rxMsg' # None => Sent(rxMsg')
    BY DEF AllSent, Less
  <2>3. ASSUME NEW c \in Callers
        PROVE  /\ \A i \in 1..Len(buf'[c]) : Sent(buf'[c][i])
               /\ response'[c] # None => Sent(response'[c])
               /\ offerOf'[c] # None => Sent(offerOf'[c])
    <3>1. response'[c] # None => Sent(response'[c])
      BY DEF AllSent, Less
    <3>2. offerOf'[c] # None => Sent(offerOf'[c])
      BY DEF AllSent, Less
    <3>3. CASE buf'[c] = buf[c]
      BY <3>1, <3>2, <3>3 DEF AllSent
    <3>4. CASE buf'[c] = <<>>
      BY <3>1, <3>2, <3>4
    <3> QED
      BY <3>3, <3>4 DEF Less
  <2> QED
    BY <1>2, <2>1, <2>2, <2>3 DEF AllSent, Sent, Less
<1>4. Sole'
  <2> SUFFICES ASSUME NEW c \in Callers, NEW p \in Packet PROVE OnceFor(c, p)'
    BY DEF Sole
  <2>1. p # None
    BY NoneOutside
  <2>2. /\ toClient'[p] \in Nat /\ toClient[p] \in Nat
        /\ toClient'[p] <= toClient[p]
    BY LessNet
  <2>3. SUFFICES ASSUME answered[p] + dups <= 1
                 PROVE  Once(p, toClient'[p], rxMsg', buf'[c], response'[c], offerOf[c])
    BY DEF OnceFor, Less
  <2>4. Once(p, toClient[p], rxMsg, buf[c], response[c], offerOf[c])
    BY <2>3 DEF Sole, OnceFor
  <2>5. rxMsg' \in {rxMsg, None} /\ buf'[c] \in {buf[c], <<>>} /\ response'[c] \in {response[c], None}
    BY DEF Less
  <2> QED
    BY <2>1, <2>2, <2>4, <2>5, OnceLess
<1> QED
  BY <1>3, <1>4

-----------------------------------------------------------------------------
(* The steps that leave Request where it is.                               *)

(* No call begins, and none that has returned goes on.                     *)
Steady ==
  /\ req' = req
  /\ \A c \in Callers : /\ pc'[c] = "idle" <=> pc[c] = "idle"
                        /\ pc[c] = "returned" => pc'[c] = "returned"

LEMMA SteadyPhases ==
  ASSUME Phases, Steady, UNCHANGED requestVars
  PROVE  Phases'
<1>1. ASSUME NEW c \in Callers PROVE PhaseOf(c)'
  <2>1. PhaseOf(c)
    BY DEF Phases
  <2> QED
    BY <2>1 DEF PhaseOf, Steady, requestVars
<1> QED
  BY <1>1 DEF Phases, requestVars

(* More answers do not undo TwoAnswers.                                    *)
LEMMA AnswersStay ==
  ASSUME NetOK, NetOK', TwoAnswers,
         \A c \in Callers : dora'[c] = "ok" =>
           dora[c] = "ok" /\ offerOf'[c] = offerOf[c] /\ ackOf'[c] = ackOf[c],
         answered' = answered \/ (\E x \in Packet : answered' = Put(answered, x)),
         dups <= dups'
  PROVE  TwoAnswers'
<1>1. /\ answered \in [Packet -> Nat] /\ answered' \in [Packet -> Nat]
      /\ dups \in Nat /\ dups' \in Nat
  BY DEF NetOK
<1>2. \A p \in Packet : answered[p] <= answered'[p]
  <2>1. CASE answered' = answered
    BY <1>1, <2>1
  <2>2. ASSUME NEW x \in Packet, answered' = Put(answered, x)
        PROVE  \A p \in Packet : answered'[p] = answered[p] + (IF p = x THEN 1 ELSE 0)
    BY <1>1, <2>2, PutCopies
  <2> QED
    BY <1>1, <2>1, <2>2
<1>3. \A p \in Members(answered) : p \in Members(answered')
  BY <1>1, <1>2 DEF Members
<1>4. ASSUME NEW p \in Members(answered), answered[p] + dups > 1
      PROVE  answered'[p] + dups' > 1
  <2>1. p \in Packet
    BY <1>1, MembersIn
  <2>2. answered[p] \in Nat /\ answered'[p] \in Nat /\ answered[p] <= answered'[p]
    BY <1>1, <1>2, <2>1
  <2> QED
    BY <1>1, <1>4, <2>2
<1> QED
  BY <1>3, <1>4 DEF TwoAnswers

LEMMA CallerSteady ==
  ASSUME Inv, NEW c \in Callers,
         \/ SendRegister(c) \/ SendWrite(c) \/ Arm(c) \/ SelectDone(c) \/ SelectTimeout(c)
         \/ SelectCtx(c) \/ SelectPacket(c) \/ CancelDone(c) \/ CancelRemove(c)
         \/ CtxCancel(c) \/ RxDone(c) \/ RxSend(c)
  PROVE  Steady
<1>1. pc \in [Callers -> {"idle", "send", "returned"} \cup Attempt]
  BY Zenon DEF Inv, TypeOK
<1>2. ASSUME pc' = pc, req' = req PROVE Steady
  BY <1>2 DEF Steady
<1>3. ASSUME NEW l, pc' = [pc EXCEPT ![c] = l], l # "idle", req' = req,
             pc[c] \in {"send", "write", "arm", "select", "recv", "cancel", "remove"}
      PROVE  Steady
  BY <1>1, <1>3 DEF Steady
<1>4. ASSUME NEW e \in Errors, AttemptEnds(c, e), req' = req, pc[c] \in {"send", "remove"}
      PROVE  Steady
  BY <1>1, <1>3, <1>4 DEF AttemptEnds
<1>5. CASE SendRegister(c)
  <2>1. pc[c] = "send" /\ req' = req
    BY <1>5, ZenonT(30) DEF SendRegister
  <2>2. CASE pending[req[c].xid] # None
    BY <1>4, <1>5, <2>1, <2>2, Zenon DEF SendRegister, Errors
  <2>3. CASE pending[req[c].xid] = None
    BY <1>3, <1>5, <2>1, <2>3, Zenon DEF SendRegister
  <2> QED
    BY <2>2, <2>3, ZenonT(30)
<1>6. CASE SendWrite(c)
  BY <1>3, <1>6 DEF SendWrite, Decide
<1>7. CASE Arm(c) \/ CancelDone(c)
  BY <1>3, <1>7 DEF Arm, CancelDone
<1>8. CASE SelectDone(c) \/ SelectTimeout(c) \/ SelectCtx(c)
  BY <1>3, <1>8 DEF SelectDone, SelectTimeout, SelectCtx, SelectEnds, Decide
<1>9. CASE SelectPacket(c)
  BY <1>3, <1>9, ZenonT(30) DEF SelectPacket, Decide
<1>10. CASE CancelRemove(c)
  <2>1. err[c] \in Errors
    BY ZenonT(30) DEF Inv, TypeOK
  <2> QED
    BY <1>4, <1>10, <2>1, Zenon DEF CancelRemove
<1>11. CASE CtxCancel(c) \/ RxDone(c)
  BY <1>2, <1>11, Zenon DEF CtxCancel, RxDone
<1>12. CASE RxSend(c)
  <2>1. rxMsg \in Packet /\ pending[rxMsg.xid] = c
    BY <1>12, ZenonT(30) DEF Inv, RxHolds, RxSend
  <2>2. pc[c] \in Attempt
    BY <2>1, NoneIsNil, Zenon DEF Inv, PendingLive, Packet
  <2> QED
    BY <1>2, <1>3, <1>12, <2>2, Zenon DEF RxSend, Attempt
<1> QED
  BY <1>5, <1>6, <1>7, <1>8, <1>9, <1>10, <1>11, <1>12

(* A step of the client that keeps or drops the packets it has.            *)
LEMMA QuietStep ==
  ASSUME DoraInv, Steady, Less, NetOK', UNCHANGED requestVars
  PROVE  DoraInv'
<1>1. Phases'
  BY SteadyPhases DEF DoraInv
<1>2. AllSent' /\ Sole'
  BY LessKeeps DEF DoraInv
<1>3. TwoAnswers'
  <2>1. dups \in Nat /\ dups' = dups /\ answered' = answered
    BY DEF DoraInv, NetOK, Less
  <2>2. dups <= dups'
    BY <2>1
  <2> QED
    BY <2>1, <2>2, AnswersStay DEF DoraInv, requestVars
<1> QED
  BY <1>1, <1>2, <1>3 DEF DoraInv

LEMMA SelectPacketDora ==
  ASSUME ClientInv, DoraInv, NEW c \in Callers, SelectPacket(c), UNCHANGED <<requestVars, netVars>>
  PROVE  DoraInv'
<1>1. /\ response \in [Callers -> Packet \cup {None}]
      /\ buf \in [Callers -> Seq(Packet)]
  BY ZenonT(30) DEF ClientInv, Inv, TypeOK
<1>2. /\ buf[c] \in Seq(Packet) /\ buf[c] # <<>> /\ response[c] = None
  BY <1>1, ZenonT(30) DEF SelectPacket, ClientInv, RespInv, HeldMatches
<1>3. /\ rxMsg' = rxMsg
      /\ buf' = [buf EXCEPT ![c] = Tail(buf[c])]
      /\ UNCHANGED <<answered, toClient, toServer, handling, dups, offerOf, ackOf, dora>>
  BY Zenon DEF SelectPacket, requestVars, netVars
<1>4. /\ response'[c] \in {None, Head(buf[c])}
      /\ \A d \in Callers \ {c} : response'[d] = response[d] /\ buf'[d] = buf[d]
      /\ buf'[c] = Tail(buf[c])
  <2>1. CASE Matches(req[c].match, Head(buf[c]))
    BY <1>1, <1>3, <2>1 DEF SelectPacket, Decide
  <2>2. CASE ~Matches(req[c].match, Head(buf[c]))
    BY <1>1, <1>2, <1>3, <2>2 DEF SelectPacket
  <2> QED
    BY <2>1, <2>2
<1>5. NetOK'
  BY <1>3 DEF DoraInv, NetOK
<1>6. Phases'
  BY CallerSteady, SteadyPhases DEF DoraInv, ClientInv
<1>7. AllSent'
  <2>1. /\ \A p \in Members(toClient) : Sent(p)
        /\ rxMsg # None => Sent(rxMsg)
    BY DEF DoraInv, AllSent
  <2>2. ASSUME NEW d \in Callers
        PROVE  /\ \A i \in 1..Len(buf'[d]) : Sent(buf'[d][i])
               /\ response'[d] # None => Sent(response'[d])
               /\ offerOf[d] # None => Sent(offerOf[d])
    <3>1. /\ \A i \in 1..Len(buf[d]) : Sent(buf[d][i])
          /\ response[d] # None => Sent(response[d])
          /\ offerOf[d] # None => Sent(offerOf[d])
      BY DEF DoraInv, AllSent
    <3>2. CASE d # c
      BY <1>4, <3>1, <3>2
    <3>3. CASE d = c
      <4>1. /\ Head(buf[c]) = buf[c][1] /\ 1 \in 1..Len(buf[c])
            /\ \A i \in 1..Len(Tail(buf[c])) :
                 Tail(buf[c])[i] = buf[c][i+1] /\ i+1 \in 1..Len(buf[c])
        BY <1>2, InTail
      <4>2. response'[d] # None => Sent(response'[d])
        BY <1>4, <3>1, <3>3, <4>1
      <4>3. \A i \in 1..Len(Tail(buf[c])) : Sent(Tail(buf[c])[i])
        BY <3>1, <3>3, <4>1
      <4> QED
        BY <1>4, <3>1, <3>3, <4>2, <4>3, Zenon
    <3> QED
      BY <3>2, <3>3
  <2> QED
    BY <1>3, <2>1, <2>2, Zenon DEF AllSent, Sent
<1>8. Sole'
  <2> SUFFICES ASSUME NEW d \in Callers, NEW p \in Packet,
                      answered[p] + dups <= 1
               PROVE  Once(p, toClient[p], rxMsg, buf'[d], response'[d], offerOf[d])
    BY <1>3, ZenonT(30) DEF Sole, OnceFor
  <2>1. Once(p, toClient[p], rxMsg, buf[d], response[d], offerOf[d])
    BY DEF DoraInv, Sole, OnceFor
  <2>2. CASE d # c
    BY <1>4, <2>1, <2>2, ZenonT(30)
  <2>3. CASE d = c
    <3>1. p # None /\ toClient[p] \in Nat
      BY NoneOutside DEF DoraInv, NetOK
    <3>2. Once(p, toClient[p], rxMsg, buf[c], None, offerOf[c])
      BY <1>2, <2>1, <2>3
    <3>3. Once(p, toClient[p], rxMsg, Tail(buf[c]), response'[c], offerOf[c])
      BY <1>2, <1>4, <3>1, <3>2, OnceTake, Zenon
    <3> QED
      BY <1>4, <2>3, <3>3
  <2> QED
    BY <2>2, <2>3
<1>9. TwoAnswers'
  BY <1>3 DEF DoraInv, TwoAnswers
<1> QED
  BY <1>5, <1>6, <1>7, <1>8, <1>9 DEF DoraInv

LEMMA RxSendDora ==
  ASSUME ClientInv, DoraInv, NEW c \in Callers, RxSend(c), UNCHANGED <<requestVars, netVars>>
  PROVE  DoraInv'
<1>1. buf \in [Callers -> Seq(Packet)]
  BY ZenonT(30) DEF ClientInv, Inv, TypeOK
<1>2. /\ rxMsg \in Packet /\ rxMsg' = None
      /\ buf' = [buf EXCEPT ![c] = Append(buf[c], rxMsg)]
      /\ UNCHANGED <<response, answered, toClient, toServer, handling, dups, offerOf, ackOf, dora>>
  BY Zenon DEF RxSend, requestVars, netVars, ClientInv, Inv, RxHolds
<1>3. /\ \A d \in Callers \ {c} : buf'[d] = buf[d]
      /\ buf'[c] = Append(buf[c], rxMsg) /\ buf[c] \in Seq(Packet)
  BY <1>1, <1>2
<1>4. rxMsg # None
  BY <1>2, NoneOutside
<1>5. NetOK'
  BY <1>2 DEF DoraInv, NetOK
<1>6. Phases'
  BY CallerSteady, SteadyPhases DEF DoraInv, ClientInv
<1>7. AllSent'
  <2>1. Sent(rxMsg) /\ \A p \in Members(toClient) : Sent(p)
    BY <1>4 DEF DoraInv, AllSent
  <2>2. ASSUME NEW d \in Callers
        PROVE  /\ \A i \in 1..Len(buf'[d]) : Sent(buf'[d][i])
               /\ response[d] # None => Sent(response[d])
               /\ offerOf[d] # None => Sent(offerOf[d])
    <3>1. /\ \A i \in 1..Len(buf[d]) : Sent(buf[d][i])
          /\ response[d] # None => Sent(response[d])
          /\ offerOf[d] # None => Sent(offerOf[d])
      BY DEF DoraInv, AllSent
    <3>2. CASE d # c
      BY <1>3, <3>1, <3>2
    <3>3. CASE d = c
      <4>1. \A i \in 1..Len(Append(buf[c], rxMsg)) :
               \/ i \in 1..Len(buf[c]) /\ Append(buf[c], rxMsg)[i] = buf[c][i]
               \/ i = Len(buf[c]) + 1 /\ Append(buf[c], rxMsg)[i] = rxMsg
        BY <1>2, <1>3, InAppend
      <4>2. \A i \in 1..Len(Append(buf[c], rxMsg)) : Sent(Append(buf[c], rxMsg)[i])
        BY <2>1, <3>1, <3>3, <4>1
      <4> QED
        BY <1>3, <3>1, <3>3, <4>2
    <3> QED
      BY <3>2, <3>3
  <2> QED
    BY <1>2, <2>1, <2>2, ZenonT(30) DEF AllSent, Sent
<1>8. Sole'
  <2> SUFFICES ASSUME NEW d \in Callers, NEW p \in Packet,
                      answered[p] + dups <= 1
               PROVE  Once(p, toClient[p], None, buf'[d], response[d], offerOf[d])
    BY <1>2 DEF Sole, OnceFor
  <2>1. Once(p, toClient[p], rxMsg, buf[d], response[d], offerOf[d])
    BY DEF DoraInv, Sole, OnceFor
  <2>2. p # None /\ toClient[p] \in Nat
    BY NoneOutside DEF DoraInv, NetOK
  <2>3. CASE d # c
    <3>1. toClient[p] <= toClient[p]
      BY <2>2
    <3>2. Once(p, toClient[p], None, buf[d], response[d], offerOf[d])
      BY <2>1, <2>2, <3>1, OnceLess
    <3> QED
      BY <1>3, <2>3, <3>2
  <2>4. CASE d = c
    <3>1. Once(p, toClient[p], None, Append(buf[c], rxMsg), response[c], offerOf[c])
      BY <1>2, <1>3, <2>1, <2>2, <2>4, OnceSend
    <3> QED
      BY <1>3, <2>4, <3>1, ZenonT(30)
  <2> QED
    BY <2>3, <2>4
<1>9. TwoAnswers'
  BY <1>2 DEF DoraInv, TwoAnswers
<1> QED
  BY <1>5, <1>6, <1>7, <1>8, <1>9 DEF DoraInv

LEMMA ClientStepDora ==
  ASSUME ClientInv, DoraInv, ClientStep
  PROVE  DoraInv'
<1>1. UNCHANGED <<requestVars, netVars>>
  BY DEF ClientStep
<1>2. NetOK'
  BY <1>1 DEF DoraInv, NetOK, netVars
<1>3. buf \in [Callers -> Seq(Packet)]
  BY Zenon DEF ClientInv, Inv, TypeOK
<1>4. ASSUME response' = response, rxMsg' \in {rxMsg, None},
             \A c \in Callers : buf'[c] \in {buf[c], <<>>}
      PROVE  Less
  BY <1>1, <1>4, ZenonT(30) DEF Less, requestVars, netVars
<1>5. ASSUME NEW c \in Callers,
             \/ SendRegister(c) \/ Arm(c) \/ SelectDone(c) \/ SelectTimeout(c)
             \/ SelectCtx(c) \/ CancelDone(c) \/ CancelRemove(c) \/ CtxCancel(c) \/ RxDone(c)
      PROVE  DoraInv'
  <2>1. Steady
    BY <1>5, CallerSteady DEF ClientInv
  <2>2. response' = response /\ rxMsg' \in {rxMsg, None}
    BY <1>5, ZenonT(30) DEF SendRegister, Arm, SelectDone, SelectTimeout, SelectCtx, SelectEnds,
       CancelDone, CancelRemove, CtxCancel, RxDone
  <2>3. buf' = buf \/ buf' = [buf EXCEPT ![c] = <<>>]
    BY <1>5, Zenon DEF SendRegister, Arm, SelectDone, SelectTimeout, SelectCtx, SelectEnds,
       CancelDone, CancelRemove, CtxCancel, RxDone
  <2>4. \A d \in Callers : buf'[d] \in {buf[d], <<>>}
    BY <1>3, <2>3
  <2> QED
    BY <1>1, <1>2, <1>4, <2>1, <2>2, <2>4, QuietStep, Zenon
<1>6. ASSUME NEW c \in Callers, SelectPacket(c) PROVE DoraInv'
  BY <1>1, <1>6, SelectPacketDora
<1>7. ASSUME NEW c \in Callers, RxSend(c) PROVE DoraInv'
  BY <1>1, <1>7, RxSendDora
<1>8. ASSUME UNCHANGED <<pc, req, response, buf>>, rxMsg' \in {rxMsg, None} PROVE DoraInv'
  BY <1>1, <1>2, <1>4, <1>8, QuietStep DEF Steady
<1>9. CASE RxReadError \/ RxLock
  BY <1>8, <1>9 DEF RxReadError, RxLock
<1>10. ASSUME NEW k \in Closers,
              CloseCAS(k) \/ CloseConn(k) \/ CloseDone(k) \/ CloseWait(k)
       PROVE  DoraInv'
  BY <1>8, <1>10 DEF CloseCAS, CloseConn, CloseDone, CloseWait, CloseStep
<1> QED
  BY <1>5, <1>6, <1>7, <1>9, <1>10 DEF ClientStep

-----------------------------------------------------------------------------
(* The steps of Request.                                                   *)

LEMMA DiscoverDora ==
  ASSUME ClientInv, DoraInv, NEW c \in Callers, NEW x \in Xids, DiscoverOffer(c, x)
  PROVE  DoraInv'
<1>1. /\ pc \in [Callers -> {"idle", "send", "returned"} \cup Attempt]
      /\ response \in [Callers -> Packet \cup {None}]
      /\ req \in [Callers -> Requests \cup {None}]
  BY ZenonT(30) DEF ClientInv, Inv, TypeOK
<1>2. /\ dora \in [Callers -> {"idle", "discover", "request", "ok", "failed"}]
      /\ dora' = [dora EXCEPT ![c] = "discover"]
      /\ UNCHANGED <<offerOf, ackOf, toServer, handling, toClient, dups, answered, rxMsg, buf>>
  BY ZenonT(30) DEF DoraInv, Phases, DiscoverOffer, SendAndRead, netVars
<1>3. /\ pc'[c] # "idle" /\ req'[c].match = {offer} /\ response'[c] = None
      /\ \A d \in Callers \ {c} : /\ pc'[d] = pc[d] /\ req'[d] = req[d]
                                  /\ response'[d] = response[d]
  BY <1>1, Zenon DEF DiscoverOffer, SendAndRead
<1>4. NetOK'
  BY <1>2 DEF DoraInv, NetOK
<1>5. Phases'
  <2>1. ASSUME NEW d \in Callers PROVE PhaseOf(d)'
    <3>1. PhaseOf(d)
      BY DEF DoraInv, Phases
    <3>2. CASE d = c
      BY <1>2, <1>3, <3>2 DEF PhaseOf
    <3>3. CASE d # c
      BY <1>2, <1>3, <3>1, <3>3 DEF PhaseOf
    <3> QED
      BY <3>2, <3>3
  <2> QED
    BY <1>2, <2>1 DEF DoraInv, Phases
<1>6. Less
  BY <1>2, <1>3, ZenonT(30) DEF Less
<1>7. TwoAnswers'
  BY <1>2, Zenon DEF DoraInv, TwoAnswers
<1> QED
  BY <1>4, <1>5, <1>6, <1>7, LessKeeps DEF DoraInv

LEMMA RequestFailsDora ==
  ASSUME DoraInv, NEW c \in Callers, pc[c] = "returned", RequestFails(c)
  PROVE  DoraInv'
<1>1. /\ dora \in [Callers -> {"idle", "discover", "request", "ok", "failed"}]
      /\ dora' = [dora EXCEPT ![c] = "failed"]
      /\ UNCHANGED <<offerOf, ackOf, toServer, handling, toClient, dups, answered,
                     rxMsg, buf, pc, req, response>>
  BY DEF DoraInv, Phases, RequestFails, netVars, vars
<1>2. NetOK'
  BY <1>1 DEF DoraInv, NetOK
<1>3. Phases'
  <2>1. ASSUME NEW d \in Callers PROVE PhaseOf(d)'
    <3>1. PhaseOf(d)
      BY DEF DoraInv, Phases
    <3>2. CASE d = c
      BY <1>1, <3>2 DEF PhaseOf
    <3>3. CASE d # c
      BY <1>1, <3>1, <3>3 DEF PhaseOf
    <3> QED
      BY <3>2, <3>3
  <2> QED
    BY <1>1, <2>1 DEF DoraInv, Phases
<1>4. Less
  BY <1>1, ZenonT(30) DEF Less
<1>5. TwoAnswers'
  BY <1>1, Zenon DEF DoraInv, TwoAnswers
<1> QED
  BY <1>2, <1>3, <1>4, <1>5, LessKeeps DEF DoraInv

LEMMA RequestFromOfferDora ==
  ASSUME ClientInv, DoraInv, NEW c \in Callers, RequestFromOffer(c), ~RequestFails(c)
  PROVE  DoraInv'
<1>1. /\ pc \in [Callers -> {"idle", "send", "returned"} \cup Attempt]
      /\ response \in [Callers -> Packet \cup {None}]
      /\ req \in [Callers -> Requests \cup {None}]
  BY ZenonT(30) DEF ClientInv, Inv, TypeOK
<1>2. /\ dora \in [Callers -> {"idle", "discover", "request", "ok", "failed"}]
      /\ dora' = [dora EXCEPT ![c] = "request"]
      /\ offerOf \in [Callers -> Packet \cup {None}]
      /\ offerOf' = [offerOf EXCEPT ![c] = response[c]]
      /\ UNCHANGED <<ackOf, toServer, handling, toClient, dups, answered, rxMsg, buf>>
  BY ZenonT(30) DEF DoraInv, Phases, RequestFromOffer, SendAndRead, netVars
<1>3. /\ pc'[c] # "idle" /\ response'[c] = None
      /\ req'[c].match = None /\ req'[c].xid = response[c].xid
      /\ \A d \in Callers \ {c} : /\ pc'[d] = pc[d] /\ req'[d] = req[d]
                                  /\ response'[d] = response[d]
                                  /\ offerOf'[d] = offerOf[d]
      /\ offerOf'[c] = response[c]
  <2>1. \E s \in {"returned", "send"} : pc' = [pc EXCEPT ![c] = s]
    BY Zenon DEF RequestFromOffer, SendAndRead
  <2>2. /\ req' = [req EXCEPT ![c] = [xid |-> response[c].xid, match |-> None]]
        /\ response' = [response EXCEPT ![c] = None]
    BY Zenon DEF RequestFromOffer, SendAndRead
  <2> QED
    BY <1>1, <1>2, <2>1, <2>2
<1>4. /\ dora[c] = "discover" /\ pc[c] = "returned" /\ err[c] = "nil"
      /\ req[c].match = {offer}
  BY Zenon DEF RequestFromOffer, DoraInv, Phases, PhaseOf
<1>5. /\ response[c] \in Packet /\ response[c] # None
      /\ response[c].op = "reply" /\ response[c].hw = IfaceHWAddr
      /\ req[c].match # None => response[c].type \in req[c].match
  BY <1>4, SuccessHasResponse, ZenonT(30)
<1>6. response[c].type = offer
  BY <1>4, <1>5, OfferMatcher, Zenon
<1>7. NetOK'
  BY <1>2 DEF DoraInv, NetOK
<1>8. Phases'
  <2>1. ASSUME NEW d \in Callers PROVE PhaseOf(d)'
    <3>1. PhaseOf(d)
      BY DEF DoraInv, Phases
    <3>2. CASE d = c
      BY <1>2, <1>3, <1>5, <1>6, <3>2, Zenon DEF PhaseOf
    <3>3. CASE d # c
      BY <1>2, <1>3, <3>1, <3>3, Zenon DEF PhaseOf
    <3> QED
      BY <3>2, <3>3
  <2>2. /\ dora' \in [Callers -> {"idle", "discover", "request", "ok", "failed"}]
        /\ offerOf' \in [Callers -> Packet \cup {None}]
    BY <1>2, <1>5, ZenonT(30)
  <2> QED
    BY <1>2, <2>1, <2>2, ZenonT(30) DEF DoraInv, Phases
<1>9. AllSent'
  <2>1. /\ \A p \in Members(toClient) : Sent(p)
        /\ rxMsg # None => Sent(rxMsg)
    BY ZenonT(30) DEF DoraInv, AllSent
  <2>2. ASSUME NEW d \in Callers
        PROVE  /\ \A i \in 1..Len(buf[d]) : Sent(buf[d][i])
               /\ response'[d] # None => Sent(response'[d])
               /\ offerOf'[d] # None => Sent(offerOf'[d])
    BY <1>3, ZenonT(30) DEF DoraInv, AllSent
  <2> QED
    BY <1>2, <2>1, <2>2, ZenonT(30) DEF AllSent, Sent
<1>10. Sole'
  <2> SUFFICES ASSUME NEW d \in Callers, NEW p \in Packet,
                      answered[p] + dups <= 1
               PROVE  Once(p, toClient[p], rxMsg, buf[d], response'[d], offerOf'[d])
    BY <1>2, ZenonT(30) DEF Sole, OnceFor
  <2>1. Once(p, toClient[p], rxMsg, buf[d], response[d], offerOf[d])
    BY ZenonT(30) DEF DoraInv, Sole, OnceFor
  <2>2. CASE d # c
    BY <1>3, <2>1, <2>2, ZenonT(30)
  <2>3. CASE d = c
    <3>1. p # None /\ toClient[p] \in Nat
      BY NoneOutside DEF DoraInv, NetOK
    <3>2. Once(p, toClient[p], rxMsg, buf[d], None, response[d])
      BY <2>1, <3>1, OnceOffer
    <3> QED
      BY <1>3, <2>3, <3>2
  <2> QED
    BY <2>2, <2>3, ZenonT(30)
<1>11. TwoAnswers'
  BY <1>2, Zenon DEF DoraInv, TwoAnswers
<1> QED
  BY <1>7, <1>8, <1>9, <1>10, <1>11 DEF DoraInv

LEMMA RequestReturnsDora ==
  ASSUME ClientInv, DoraInv, NEW c \in Callers, RequestReturns(c), err[c] = "nil"
  PROVE  DoraInv'
<1>1. /\ dora \in [Callers -> {"idle", "discover", "request", "ok", "failed"}]
      /\ dora' = [dora EXCEPT ![c] = "ok"]
      /\ ackOf \in [Callers -> Packet \cup {None}]
      /\ ackOf' = [ackOf EXCEPT ![c] = response[c]]
      /\ UNCHANGED <<offerOf, toServer, handling, toClient, dups, answered,
                     rxMsg, buf, pc, req, response>>
  BY ZenonT(30) DEF DoraInv, Phases, RequestReturns, netVars, vars
<1>2. dora[c] = "request" /\ pc[c] = "returned"
  BY Zenon DEF RequestReturns
<1>3. /\ response[c] \in Packet /\ response[c] # None
      /\ response[c].xid = req[c].xid /\ response[c].op = "reply"
      /\ response[c].hw = IfaceHWAddr
  BY <1>2, SuccessHasResponse, Zenon
<1>4. /\ offerOf[c] \in Packet /\ offerOf[c].xid = req[c].xid
      /\ offerOf[c].type = offer /\ offerOf[c].op = "reply" /\ offerOf[c].hw = IfaceHWAddr
  BY <1>2 DEF DoraInv, Phases, PhaseOf
<1>5. offerOf[c] # None
  BY <1>4, NoneOutside
<1>6. NetOK'
  BY <1>1 DEF DoraInv, NetOK
<1>7. Phases'
  <2>1. ASSUME NEW d \in Callers PROVE PhaseOf(d)'
    <3>1. PhaseOf(d)
      BY DEF DoraInv, Phases
    <3>2. CASE d = c
      BY <1>1, <1>2, <3>2 DEF PhaseOf
    <3>3. CASE d # c
      BY <1>1, <3>1, <3>3 DEF PhaseOf
    <3> QED
      BY <3>2, <3>3
  <2>2. /\ dora' \in [Callers -> {"idle", "discover", "request", "ok", "failed"}]
        /\ ackOf' \in [Callers -> Packet \cup {None}]
    BY <1>1, <1>3, ZenonT(30)
  <2> QED
    BY <1>1, <2>1, <2>2 DEF DoraInv, Phases
<1>8. Less
  BY <1>1 DEF Less
<1>9. response[c] \in Members(answered) /\ offerOf[c] \in Members(answered)
  BY <1>3, <1>5, ZenonT(30) DEF DoraInv, AllSent, Sent
<1>10. ASSUME response[c].type = offer PROVE answered[response[c]] + dups > 1
  <2>1. response[c] = offerOf[c]
    BY <1>3, <1>4, <1>10 DEF Packet
  <2>2. ~Once(response[c], toClient[response[c]], rxMsg, buf[c], response[c], offerOf[c])
    BY <2>1 DEF Once
  <2>3. ~(answered[response[c]] + dups <= 1)
    BY <1>3, <2>2, ZenonT(30) DEF DoraInv, Sole, OnceFor
  <2>4. answered[response[c]] \in Nat /\ dups \in Nat
    BY <1>3 DEF DoraInv, NetOK
  <2> QED
    BY <2>3, <2>4
<1>11. TwoAnswers'
  <2> SUFFICES ASSUME NEW d \in Callers, dora'[d] = "ok"
               PROVE  /\ offerOf[d] # None /\ offerOf[d].type = offer
                      /\ ackOf'[d] # None /\ ackOf'[d].xid = offerOf[d].xid
                      /\ offerOf[d] \in Members(answered) /\ ackOf'[d] \in Members(answered)
                      /\ ackOf'[d].type = offer => answered[ackOf'[d]] + dups > 1
    BY <1>1, ZenonT(30) DEF TwoAnswers
  <2>1. CASE d = c
    <3>1. ackOf'[d] = response[c]
      BY <1>1, <2>1, ZenonT(30)
    <3> QED
      BY <1>3, <1>4, <1>5, <1>9, <1>10, <2>1, <3>1
  <2>2. CASE d # c
    <3>1. ackOf'[d] = ackOf[d] /\ dora[d] = "ok"
      BY <1>1, <2>2, Zenon
    <3> QED
      BY <3>1, ZenonT(30) DEF DoraInv, TwoAnswers
  <2> QED
    BY <2>1, <2>2, ZenonT(30)
<1> QED
  BY <1>6, <1>7, <1>8, <1>11, LessKeeps DEF DoraInv

-----------------------------------------------------------------------------
(* The steps of the wire.                                                  *)

LEMMA WriteDora ==
  ASSUME ClientInv, DoraInv, NEW c \in Callers, Write(c)
  PROVE  DoraInv'
<1> DEFINE m == [xid |-> req[c].xid, kind |-> dora[c]]
<1>1. /\ SendWrite(c) /\ pc[c] = "write"
      /\ toServer' = toServer \/ toServer' = Put(toServer, m)
      /\ UNCHANGED <<requestVars, handling, toClient, dups, answered>>
  BY ZenonT(30) DEF Write, SendWrite
<1>2. m \in Messages
  <2>1. dora[c] \in {"discover", "request"}
    BY <1>1, ZenonT(30) DEF DoraInv, Phases, PhaseOf
  <2>2. req[c].xid \in Xids
    BY <1>1 DEF ClientInv, Inv, HasRequest, Requests
  <2> QED
    BY <2>1, <2>2, ZenonT(30) DEF Messages
<1> HIDE DEF m
<1>3. toServer' \in [Messages -> Nat]
  BY <1>1, <1>2, PutCopies DEF DoraInv, NetOK
<1>4. NetOK'
  BY <1>1, <1>3 DEF DoraInv, NetOK
<1>5. Steady
  BY <1>1, CallerSteady DEF ClientInv
<1>6. Less
  BY <1>1, Zenon DEF Less, SendWrite, requestVars
<1> QED
  BY <1>1, <1>4, <1>5, <1>6, QuietStep

LEMMA ReadDora ==
  ASSUME ClientInv, DoraInv, NEW x \in Members(toClient), Read(x)
  PROVE  DoraInv'
<1>1. /\ UNCHANGED <<pc, req, response, buf>> /\ UNCHANGED requestVars
      /\ UNCHANGED <<toServer, handling, dups, answered>>
      /\ toClient' = Take(toClient, x) /\ x \in Members(toClient)
      /\ rxMsg' = rxMsg \/ rxMsg' = x
  BY DEF Read, RxRead
<1>2. Steady
  BY <1>1 DEF Steady
<1>3. toClient \in [Packet -> Nat]
  BY DEF DoraInv, NetOK
<1>4. /\ toClient' \in [Packet -> Nat] /\ Members(toClient') \subseteq Members(toClient)
      /\ \A p \in Packet : toClient'[p] = toClient[p] - (IF p = x THEN 1 ELSE 0)
  BY <1>1, <1>3, TakeCopies
<1>5. NetOK'
  BY <1>1, <1>3, <1>4 DEF DoraInv, NetOK
<1>6. CASE rxMsg' = rxMsg
  <2>1. Less
    BY <1>1, <1>6 DEF Less, requestVars
  <2> QED
    BY <1>1, <1>2, <1>5, <2>1, QuietStep
<1>7. CASE rxMsg' = x
  <2>1. Phases'
    BY <1>1, <1>2, SteadyPhases DEF DoraInv
  <2>2. TwoAnswers'
    BY <1>1, ZenonT(30) DEF DoraInv, TwoAnswers, requestVars
  <2>3. AllSent'
    <3>1. Sent(x) /\ \A p \in Members(toClient') : Sent(p)
      BY <1>4 DEF DoraInv, AllSent
    <3>2. \A c \in Callers : /\ \A i \in 1..Len(buf[c]) : Sent(buf[c][i])
                             /\ response[c] # None => Sent(response[c])
                             /\ offerOf[c] # None => Sent(offerOf[c])
      BY ZenonT(30) DEF DoraInv, AllSent
    <3> QED
      BY <1>1, <1>7, <3>1, <3>2 DEF AllSent, Sent, requestVars
  <2>4. Sole'
    <3> SUFFICES ASSUME NEW c \in Callers, NEW p \in Packet,
                        answered[p] + dups <= 1
                 PROVE  Once(p, toClient'[p], x, buf[c], response[c], offerOf[c])
      BY <1>1, <1>7, ZenonT(30) DEF Sole, OnceFor, requestVars
    <3>1. Once(p, toClient[p], rxMsg, buf[c], response[c], offerOf[c])
      BY Zenon DEF DoraInv, Sole, OnceFor
    <3>2. toClient[p] \in Nat /\ toClient'[p] \in Nat
      BY <1>3, <1>4
    <3> QED
      BY <1>4, <3>1, <3>2, OnceRead, Zenon
  <2> QED
    BY <1>5, <2>1, <2>2, <2>3, <2>4 DEF DoraInv
<1> QED
  BY <1>1, <1>6, <1>7

LEMMA DuplicateDora ==
  ASSUME DoraInv, NEW x \in Members(toClient), Duplicate(x)
  PROVE  DoraInv'
<1>1. /\ UNCHANGED <<pc, req, response, buf, rxMsg>> /\ UNCHANGED requestVars
      /\ UNCHANGED <<toServer, handling, answered>>
      /\ toClient' = Put(toClient, x) /\ dups' = dups + 1
  BY DEF Duplicate, vars
<1>2. /\ toClient \in [Packet -> Nat]
      /\ answered \in [Packet -> Nat] /\ dups \in Nat
  BY DEF DoraInv, NetOK
<1>3. /\ toClient' \in [Packet -> Nat] /\ Members(toClient') = Members(toClient) \cup {x}
      /\ \A p \in Packet : toClient'[p] = toClient[p] + (IF p = x THEN 1 ELSE 0)
  <2>1. x \in Packet
    BY <1>2, MembersIn
  <2> QED
    BY <1>1, <1>2, <2>1, PutCopies
<1>4. NetOK'
  <2>1. dups' \in Nat
    BY <1>1, <1>2
  <2> QED
    BY <1>1, <1>2, <1>3, <2>1 DEF DoraInv, NetOK
<1>5. Phases'
  BY <1>1, SteadyPhases DEF DoraInv, Steady
<1>6. AllSent'
  <2>1. \A p \in Members(toClient') : Sent(p)
    BY <1>3, ZenonT(30) DEF DoraInv, AllSent
  <2> QED
    BY <1>1, <2>1, ZenonT(30) DEF DoraInv, AllSent, Sent, requestVars
<1>7. Sole'
  <2> SUFFICES ASSUME NEW c \in Callers, NEW p \in Packet,
                      answered[p] + (dups + 1) <= 1
               PROVE  Once(p, toClient'[p], rxMsg, buf[c], response[c], offerOf[c])
    BY <1>1, Zenon DEF Sole, OnceFor, requestVars
  <2>1. /\ answered[p] \in Nat /\ toClient[p] \in Nat
        /\ p \in Members(answered) => answered[p] > 0
    BY <1>2, MembersIn
  <2>2. p # x
    <3>1. x \in Members(answered)
      BY DEF DoraInv, AllSent, Sent
    <3> QED
      BY <1>2, <2>1, <3>1
  <2>3. answered[p] + dups <= 1 /\ toClient'[p] = toClient[p]
    BY <1>2, <1>3, <2>1, <2>2
  <2> QED
    BY <2>3, ZenonT(30) DEF DoraInv, Sole, OnceFor
<1>8. TwoAnswers'
  <2>1. dups <= dups'
    BY <1>1, <1>2
  <2> QED
    BY <1>1, <1>4, <2>1, AnswersStay, Zenon DEF DoraInv, requestVars
<1> QED
  BY <1>4, <1>5, <1>6, <1>7, <1>8 DEF DoraInv

LEMMA ServeDora ==
  ASSUME DoraInv, NEW m \in Members(toServer), Serve(m)
  PROVE  DoraInv'
<1>1. /\ UNCHANGED <<pc, req, response, buf, rxMsg>> /\ UNCHANGED requestVars
      /\ UNCHANGED <<toClient, answered, dups>>
      /\ toServer' = Take(toServer, m) /\ m \in Members(toServer)
      /\ handling' = Put(handling, m)
  BY DEF Serve, vars
<1>2. /\ toServer \in [Messages -> Nat]
      /\ handling \in [Messages -> Nat]
  BY DEF DoraInv, NetOK
<1>3. toServer' \in [Messages -> Nat]
  BY <1>1, <1>2, TakeCopies
<1>4. handling' \in [Messages -> Nat]
  <2>1. m \in Messages
    BY <1>2, MembersIn
  <2> QED
    BY <1>1, <1>2, <2>1, PutCopies
<1>5. NetOK'
  BY <1>1, <1>2, <1>3, <1>4 DEF DoraInv, NetOK
<1>6. Less /\ Steady
  BY <1>1, Zenon DEF Less, Steady, requestVars
<1> QED
  BY <1>1, <1>5, <1>6, QuietStep

LEMMA LoseDora ==
  ASSUME DoraInv, Lose
  PROVE  DoraInv'
<1>1. /\ UNCHANGED <<pc, req, response, buf, rxMsg>> /\ UNCHANGED requestVars
      /\ UNCHANGED <<handling, answered, dups>>
      /\ \/ /\ \E x \in Members(toClient) : toClient' = Take(toClient, x)
            /\ toServer' = toServer
         \/ /\ \E x \in Members(toServer) : toServer' = Take(toServer, x)
            /\ toClient' = toClient
  BY DEF Lose, vars
<1>2. Less /\ Steady
  BY <1>1 DEF Less, Steady, requestVars
<1>3. toClient' \in [Packet -> Nat]
  BY <1>2, LessNet DEF DoraInv
<1>4. toServer' \in [Messages -> Nat]
  BY <1>1, TakeCopies DEF DoraInv, NetOK
<1>5. NetOK'
  BY <1>1, <1>3, <1>4 DEF DoraInv, NetOK
<1> QED
  BY <1>1, <1>2, <1>5, QuietStep

LEMMA HandleDora ==
  ASSUME DoraInv, NEW m \in Members(handling), Handle(m)
  PROVE  DoraInv'
<1>1. PICK x : /\ \E t \in Types : x = [xid |-> m.xid, type |-> t, op |-> "reply", hw |-> IfaceHWAddr]
               /\ toClient' = Put(toClient, x) /\ answered' = Put(answered, x)
  BY DoraAssumption, Zenon DEF DoraAssumption, Handle
<1>2. /\ UNCHANGED <<pc, req, response, buf, rxMsg>> /\ UNCHANGED requestVars
      /\ UNCHANGED <<toServer, dups>>
      /\ handling' = Take(handling, m) /\ m \in Members(handling)
  BY DEF Handle, vars
<1>3. /\ handling \in [Messages -> Nat]
      /\ toClient \in [Packet -> Nat]
      /\ answered \in [Packet -> Nat] /\ dups \in Nat
  BY DEF DoraInv, NetOK
<1>4. x \in Packet
  <2>1. m \in Messages
    BY <1>3, MembersIn, Zenon
  <2>2. m.xid \in Xids
    BY <2>1 DEF Messages
  <2>3. PICK t \in Types :
          x = [xid |-> m.xid, type |-> t, op |-> "reply", hw |-> IfaceHWAddr]
    BY <1>1, Zenon
  <2> QED
    BY <2>2, <2>3, NoneOutside, Zenon DEF Packet
<1>5. handling' \in [Messages -> Nat]
  BY <1>2, <1>3, TakeCopies
<1>6. /\ toClient' \in [Packet -> Nat] /\ Members(toClient') = Members(toClient) \cup {x}
      /\ \A p \in Packet : toClient'[p] = toClient[p] + (IF p = x THEN 1 ELSE 0)
  <2>1. toClient' = Put(toClient, x) /\ toClient \in [Packet -> Nat]
    BY <1>1, <1>3, Zenon
  <2> QED
    BY <1>4, <2>1, PutCopies
<1>7. /\ answered' \in [Packet -> Nat] /\ Members(answered') = Members(answered) \cup {x}
      /\ \A p \in Packet : answered'[p] = answered[p] + (IF p = x THEN 1 ELSE 0)
  <2>1. answered' = Put(answered, x) /\ answered \in [Packet -> Nat]
    BY <1>1, <1>3, Zenon
  <2> QED
    BY <1>4, <2>1, PutCopies
<1>8. NetOK'
  BY <1>2, <1>3, <1>4, <1>5, <1>6, <1>7 DEF DoraInv, NetOK
<1>9. Phases'
  BY <1>2, SteadyPhases DEF DoraInv, Steady
<1>10. AllSent'
  <2>1. \A p : Sent(p) \/ p = x => Sent(p)'
    BY <1>7 DEF Sent
  <2>2. \A p \in Members(toClient') : Sent(p)'
    BY <1>6, <2>1, ZenonT(30) DEF DoraInv, AllSent
  <2>3. /\ rxMsg # None => Sent(rxMsg)
        /\ \A c \in Callers : /\ \A i \in 1..Len(buf[c]) : Sent(buf[c][i])
                              /\ response[c] # None => Sent(response[c])
                              /\ offerOf[c] # None => Sent(offerOf[c])
    BY Zenon DEF DoraInv, AllSent
  <2>4. /\ rxMsg' # None => rxMsg' \in Members(answered')
        /\ \A c \in Callers : /\ \A i \in 1..Len(buf'[c]) : buf'[c][i] \in Members(answered')
                              /\ response'[c] # None => response'[c] \in Members(answered')
                              /\ offerOf'[c] # None => offerOf'[c] \in Members(answered')
    BY <1>2, <2>1, <2>3, Zenon DEF Sent, requestVars
  <2> QED
    BY <2>2, <2>4, Zenon DEF AllSent, Sent
<1>11. Sole'
  <2> SUFFICES ASSUME NEW c \in Callers, NEW p \in Packet,
                      answered'[p] + dups <= 1
               PROVE  Once(p, toClient'[p], rxMsg, buf[c], response[c], offerOf[c])
    BY <1>2, Zenon DEF Sole, OnceFor, requestVars
  <2>1. /\ answered[p] \in Nat /\ toClient[p] \in Nat
        /\ p \in Members(answered) <=> answered[p] > 0
        /\ p \in Members(toClient) <=> toClient[p] > 0
    BY <1>3, MembersIn
  <2>2. answered[p] + dups <= 1
    BY <1>3, <1>7, <2>1
  <2>3. Once(p, toClient[p], rxMsg, buf[c], response[c], offerOf[c])
    BY <2>2, ZenonT(30) DEF DoraInv, Sole, OnceFor
  <2>4. CASE p # x
    <3>1. toClient'[p] = toClient[p]
      BY <1>6, <2>1, <2>4
    <3> QED
      BY <2>3, <3>1
  <2>5. CASE p = x
    <3>1. answered[p] = 0
      BY <1>3, <1>7, <2>1, <2>5
    <3>2. ~Sent(p)
      BY <2>1, <3>1 DEF Sent
    <3>3. p # None
      BY NoneOutside
    <3>4. p \notin Members(toClient) /\ rxMsg # p
      BY <3>2, <3>3 DEF DoraInv, AllSent
    <3>5. ~In(p, buf[c]) /\ response[c] # p /\ offerOf[c] # p
      BY <3>2, <3>3 DEF DoraInv, AllSent, In
    <3>6. toClient'[p] = 1
      BY <1>6, <2>1, <2>5, <3>4
    <3> QED
      BY <3>4, <3>5, <3>6, OnceNew, Zenon
  <2> QED
    BY <2>4, <2>5, Zenon
<1>12. TwoAnswers'
  <2>1. dups <= dups'
    BY <1>2, <1>3
  <2> QED
    BY <1>1, <1>2, <1>4, <1>8, <2>1, AnswersStay, Zenon DEF DoraInv, requestVars
<1> QED
  BY <1>8, <1>9, <1>10, <1>11, <1>12 DEF DoraInv

-----------------------------------------------------------------------------
(* The theorems.                                                           *)

LEMMA NextDora == ClientInv /\ DoraInv /\ [DoraNext]_doraVars => DoraInv'
<1> SUFFICES ASSUME ClientInv, DoraInv, [DoraNext]_doraVars PROVE DoraInv'
  OBVIOUS
<1>1. CASE UNCHANGED doraVars
  BY <1>1, Zenon DEF doraVars, vars, requestVars, netVars, DoraInv, NetOK, Phases, PhaseOf,
     AllSent, Sent, Sole, OnceFor, TwoAnswers
<1>2. ASSUME NEW c \in Callers, NEW x \in Xids, DiscoverOffer(c, x) PROVE DoraInv'
  BY <1>2, DiscoverDora
<1>3. ASSUME NEW c \in Callers, RequestFromOffer(c) PROVE DoraInv'
  BY <1>3, RequestFromOfferDora, RequestFailsDora, ZenonT(30) DEF RequestFromOffer
<1>4. ASSUME NEW c \in Callers, RequestReturns(c) PROVE DoraInv'
  BY <1>4, RequestReturnsDora, RequestFailsDora, Zenon DEF RequestReturns
<1>5. ASSUME NEW c \in Callers, Write(c) PROVE DoraInv'
  BY <1>5, WriteDora
<1>6. CASE ClientStep
  BY <1>6, ClientStepDora
<1>7. ASSUME NEW p \in Members(toClient), Read(p) \/ Duplicate(p) PROVE DoraInv'
  BY <1>7, ReadDora, DuplicateDora
<1>8. ASSUME NEW m \in Members(toServer), Serve(m) PROVE DoraInv'
  BY <1>8, ServeDora
<1>9. ASSUME NEW m \in Members(handling), Handle(m) PROVE DoraInv'
  BY <1>9, HandleDora
<1>10. CASE Lose
  BY <1>10, LoseDora
<1> QED
  BY <1>1, <1>2, <1>3, <1>4, <1>5, <1>6, <1>7, <1>8, <1>9, <1>10 DEF DoraNext

LEMMA InitDora == DoraInit => ClientInv /\ DoraInv
<1> SUFFICES ASSUME DoraInit PROVE ClientInv /\ DoraInv
  OBVIOUS
<1>1. Init
  BY DEF DoraInit
<1>2. ClientInv
  BY <1>1, InitInv, InitAlone, InitResp DEF ClientInv
<1>3. NetOK
  BY DEF DoraInit, NetOK
<1>4. \A c \in Callers : pc[c] = "idle" /\ buf[c] = <<>> /\ response[c] = None
  BY <1>1, Zenon DEF Init
<1>5. \A c \in Callers : dora[c] = "idle" /\ offerOf[c] = None
  BY Zenon DEF DoraInit
<1>6. Phases
  BY <1>4, <1>5 DEF DoraInit, Phases, PhaseOf
<1>7. AllSent
  BY <1>1, <1>4, <1>5 DEF DoraInit, Init, AllSent, Members
<1>8. Sole
  <2>1. rxMsg = None /\ \A p \in Packet : toClient[p] = 0
    BY <1>1 DEF DoraInit, Init
  <2>2. \A p \in Packet : p # None
    BY NoneOutside
  <2>3. ASSUME NEW p \in Packet PROVE Once(p, 0, None, <<>>, None, None)
    BY <2>2, InEmpty DEF Once
  <2> QED
    BY <1>4, <1>5, <2>1, <2>3 DEF Sole, OnceFor
<1>9. TwoAnswers
  BY <1>5 DEF TwoAnswers
<1> QED
  BY <1>2, <1>3, <1>6, <1>7, <1>8, <1>9 DEF DoraInv

LEMMA DoraInvariance == DoraSpec => [](ClientInv /\ DoraInv)
<1>1. ClientInv /\ DoraInv /\ [DoraNext]_doraVars => (ClientInv /\ DoraInv)'
  BY ClientInvNext, NextDora DEF DoraInv, NetOK
<1> QED
  BY InitDora, <1>1, PTL DEF DoraSpec

(* DiscoverOffer and Request use the client only as callers of SendAndRead *)
(* do, so that all that is proved of NClient4 holds of the client in a     *)
(* handshake; and no select finds its channel closed, so that ClientStep   *)
(* loses nothing by leaving SelectNil out.                                 *)
THEOREM RequestUsesClient ==
  DoraSpec => Spec /\ [](\A c \in Callers : pc[c] = "select" => ~chClosed[c])
<1>1. DoraInit => Init
  BY DEF DoraInit
<1>2. ClientInv /\ DoraInv /\ [DoraNext]_doraVars => [Next]_vars
  BY ClientSteps DEF DoraInv, NetOK
<1>3. DoraSpec => Spec
  BY <1>1, <1>2, DoraInvariance, PTL DEF DoraSpec, Spec
<1>4. ClientInv => \A c \in Callers : pc[c] = "select" => ~chClosed[c]
  BY AllAlone, AloneChannelOpen DEF ClientInv
<1>5. DoraSpec => [](\A c \in Callers : pc[c] = "select" => ~chClosed[c])
  BY <1>4, DoraInvariance, PTL
<1> QED
  BY <1>3, <1>5

(* When Request returns without an error its two packets are two datagrams *)
(* of one transaction that the server sent, however many calls run, and    *)
(* however the network loses, reorders and duplicates.                     *)
THEOREM HandshakeSafety == DoraSpec => []TwoAnswers
BY DoraInvariance, PTL DEF DoraInv
=============================================================================
