--------------------------- MODULE Server6Proofs ---------------------------
(***************************************************************************)
(* No listener of server6 is leaked, for any number of calls.  The socket  *)
(* that ListenUDP returns overwrites s.conn, so the invariant needs that   *)
(* the field is still nil then: it was when the lock was taken, and the    *)
(* lock is what keeps it so.                                               *)
(***************************************************************************)
EXTENDS Server6, TLAPS

(* Between Lock and the assignment of s.conn the field is nil. *)
NilUntilListen == \A s \in Serves : spc[s] = "listen" => conn = None

LeakInv == TypeOK /\ NilUntilListen /\ NoLeakedSocket

LEMMA InitLeak == Init => LeakInv
BY ServerAssumption DEF Init, LeakInv, TypeOK, NilUntilListen, NoLeakedSocket, Serving

(* A step of one call that neither takes nor gives back the lock and       *)
(* leaves the connection alone.                                            *)
LEMMA LocalStep ==
  ASSUME LeakInv, NEW s \in Serves,
         \/ Activate(s) \/ InnerClose(s) \/ TakeConn(s) \/ SelectStop(s)
         \/ SelectTimer(s) \/ ReadContinue(s) \/ ReadError(s)
  PROVE  LeakInv'
<1>1. UNCHANGED <<mu, conn, sock, cpc>>
  BY DEF Activate, InnerClose, TakeConn, SelectStop, SelectTimer, ReadContinue, ReadError
<1>2. stop' \in 0..1 /\ pc' \in [Serves -> Serves \cup {None}]
  BY DEF LeakInv, TypeOK, Activate, InnerClose, TakeConn, SelectStop, SelectTimer,
     ReadContinue, ReadError
<1>3. \E l \in {"lock", "relock", "select", "read", "returned"} :
        /\ spc' = [spc EXCEPT ![s] = l]
        /\ l = "relock" <=> spc[s] = "close"
        /\ spc[s] \notin {"relock", "listen"}
  BY DEF Activate, InnerClose, TakeConn, SelectStop, SelectTimer, ReadContinue,
     ReadError, ServeGoto
<1>4. TypeOK'
  BY <1>1, <1>2, <1>3 DEF LeakInv, TypeOK, Serving
<1> QED
  BY <1>1, <1>3, <1>4 DEF LeakInv, TypeOK, NilUntilListen, NoLeakedSocket

LEMMA LockStep ==
  ASSUME LeakInv, NEW s \in Serves, Lock(s)
  PROVE  LeakInv'
<1>1. TypeOK'
  BY ServerAssumption DEF LeakInv, TypeOK, Lock, ServeGoto, Serving
<1>2. NilUntilListen'
  BY DEF LeakInv, TypeOK, NilUntilListen, Lock, ServeGoto
<1> QED
  BY <1>1, <1>2 DEF LeakInv, NoLeakedSocket, Lock

LEMMA ListenStep ==
  ASSUME LeakInv, NEW s \in Serves, Listen(s)
  PROVE  LeakInv'
<1>1. \A t \in Serves : spc[t] = "listen" => t = s
  BY DEF LeakInv, TypeOK, Listen
<1>2. TypeOK'
  BY ServerAssumption DEF LeakInv, TypeOK, Listen, ServeGoto, Serving
<1>3. NilUntilListen'
  BY <1>1 DEF LeakInv, TypeOK, NilUntilListen, Listen, ServeGoto
<1>4. \A t \in Serves : sock[t] # "open"
  BY ServerAssumption DEF LeakInv, NilUntilListen, NoLeakedSocket, Listen
<1>5. NoLeakedSocket'
  BY <1>4 DEF LeakInv, TypeOK, NoLeakedSocket, Listen
<1> QED
  BY <1>2, <1>3, <1>5 DEF LeakInv

LEMMA CloseSteps ==
  ASSUME LeakInv, NEW k \in Closes, CloseCall(k) \/ CloseStop(k) \/ CloseConn(k)
  PROVE  LeakInv'
<1>1. TypeOK'
  BY DEF LeakInv, TypeOK, CloseCall, CloseStop, CloseConn
<1>2. NilUntilListen'
  BY DEF LeakInv, NilUntilListen, CloseCall, CloseStop, CloseConn
<1>3. NoLeakedSocket'
  BY ServerAssumption DEF LeakInv, TypeOK, NoLeakedSocket, CloseCall, CloseStop, CloseConn
<1> QED
  BY <1>1, <1>2, <1>3 DEF LeakInv

(* A socket that ActivateAndServe has opened and Close has not closed is   *)
(* s.conn, for any number of calls of both.                                *)
THEOREM ListenerSafety == Spec => []NoLeakedSocket
<1>1. LeakInv /\ [Next]_vars => LeakInv'
  <2> SUFFICES ASSUME LeakInv, [Next]_vars PROVE LeakInv'
    OBVIOUS
  <2>1. CASE UNCHANGED vars
    BY <2>1 DEF vars, LeakInv, TypeOK, NilUntilListen, NoLeakedSocket
  <2> QED
    BY <2>1, LocalStep, LockStep, ListenStep, CloseSteps DEF Next, ServeStep
<1>2. LeakInv => NoLeakedSocket
  BY DEF LeakInv
<1> QED
  BY InitLeak, <1>1, <1>2, PTL DEF Spec
=============================================================================
