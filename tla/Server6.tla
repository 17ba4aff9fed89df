------------------------------ MODULE Server6 ------------------------------
(***************************************************************************)
(* The DHCPv6 server of dhcpv6/server6/server.go: calls of                 *)
(* ActivateAndServe and of Close by different goroutines on one Server.    *)
(* The socket that a call of ActivateAndServe opens is named by the call.  *)
(* Handlers run in goroutines of their own and touch nothing here.         *)
(***************************************************************************)
EXTENDS Integers

CONSTANTS
  Serves,      \* calls of ActivateAndServe
  Closes,      \* calls of Close
  None         \* nil

ASSUME ServerAssumption ==
  /\ None \notin Serves
  /\ Serves \cap Closes = {}

VARIABLES
  mu,    \* the call that holds s.connMutex across steps, or None
  conn,  \* s.conn
  sock,  \* the state of each socket: "none", "open" or "closed"
  stop,  \* the number of values in s.shouldStop, which has room for one
  spc,   \* where each ActivateAndServe is
  pc,    \* its local pc: the socket it reads from
  cpc    \* where each Close is

vars == <<mu, conn, sock, stop, spc, pc, cpc>>

Serving == {"select", "read"}

(* Every variable has its type; the lock is held exactly by the call that  *)
(* is between Lock and Unlock.                                             *)
TypeOK ==
  /\ mu \in Serves \cup {None}
  /\ conn \in Serves \cup {None}
  /\ sock \in [Serves -> {"none", "open", "closed"}]
  /\ stop \in 0..1
  /\ spc \in [Serves -> {"idle", "lock", "close", "relock", "listen", "assert",
                         "returned"} \cup Serving]
  /\ pc \in [Serves -> Serves \cup {None}]
  /\ cpc \in [Closes -> {"idle", "push", "lock", "returned"}]
  /\ \A s \in Serves : mu = s <=> spc[s] \in {"close", "relock", "listen"}

(* NewServer. *)
Init ==
  /\ mu = None /\ conn = None /\ stop = 0
  /\ sock = [s \in Serves |-> "none"]
  /\ spc = [s \in Serves |-> "idle"]
  /\ pc = [s \in Serves |-> None]
  /\ cpc = [k \in Closes |-> "idle"]

-----------------------------------------------------------------------------
(* ActivateAndServe.                                                       *)

ServeGoto(s, l) == spc' = [spc EXCEPT ![s] = l]

Activate(s) ==
  /\ spc[s] = "idle"
  /\ ServeGoto(s, "lock")
  /\ UNCHANGED <<mu, conn, sock, stop, pc, cpc>>

(* A connection that is still set is closed first, with the lock held.     *)
Lock(s) ==
  /\ spc[s] = "lock" /\ mu = None
  /\ mu' = s
  /\ ServeGoto(s, IF conn # None THEN "close" ELSE "listen")
  /\ UNCHANGED <<conn, sock, stop, pc, cpc>>

(* s.Close() inside ActivateAndServe: its send, and then its Lock, which   *)
(* waits for the lock this goroutine holds.  No step leads on from there.  *)
InnerClose(s) ==
  /\ spc[s] = "close" /\ stop = 0
  /\ stop' = 1
  /\ ServeGoto(s, "relock")
  /\ UNCHANGED <<mu, conn, sock, pc, cpc>>

(* net.ListenUDP fails, or its socket becomes s.conn; Unlock.              *)
Listen(s) ==
  /\ spc[s] = "listen"
  /\ mu' = None
  /\ \/ /\ conn' = s
        /\ sock' = [sock EXCEPT ![s] = "open"]
        /\ ServeGoto(s, "assert")
     \/ /\ ServeGoto(s, "returned")
        /\ UNCHANGED <<conn, sock>>
  /\ UNCHANGED <<stop, pc, cpc>>

(* s.conn is read again, without the lock; nil fails the type assertion.   *)
TakeConn(s) ==
  /\ spc[s] = "assert"
  /\ pc' = [pc EXCEPT ![s] = conn]
  /\ ServeGoto(s, IF conn = None THEN "returned" ELSE "select")
  /\ UNCHANGED <<mu, conn, sock, stop, cpc>>

(* Mutant: the select has no case for shouldStop.                          *)
NoSelectStop(s) == FALSE

(* The select: break leaves the select and not the loop.                   *)
SelectStop(s) ==
  /\ spc[s] = "select" /\ stop = 1
  /\ stop' = 0
  /\ ServeGoto(s, "read")
  /\ UNCHANGED <<mu, conn, sock, pc, cpc>>

SelectTimer(s) ==
  /\ spc[s] = "select"
  /\ ServeGoto(s, "read")
  /\ UNCHANGED <<mu, conn, sock, stop, pc, cpc>>

(* A timeout, a datagram that does not parse, or one for the handler.      *)
ReadContinue(s) ==
  /\ spc[s] = "read" /\ sock[pc[s]] = "open"
  /\ ServeGoto(s, "select")
  /\ UNCHANGED <<mu, conn, sock, stop, pc, cpc>>

(* Mutant: every read error is skipped like a timeout.                     *)
ReadErrorSkipped(s) ==
  /\ spc[s] = "read"
  /\ ServeGoto(s, "select")
  /\ UNCHANGED <<mu, conn, sock, stop, pc, cpc>>

(* A net.Error that is no timeout, which a closed socket always gives.     *)
ReadError(s) ==
  /\ spc[s] = "read"
  /\ ServeGoto(s, "returned")
  /\ UNCHANGED <<mu, conn, sock, stop, pc, cpc>>

-----------------------------------------------------------------------------
(* Close.                                                                  *)

CloseCall(k) ==
  /\ cpc[k] = "idle"
  /\ cpc' = [cpc EXCEPT ![k] = "push"]
  /\ UNCHANGED <<mu, conn, sock, stop, spc, pc>>

(* s.shouldStop <- true.                                                   *)
CloseStop(k) ==
  /\ cpc[k] = "push" /\ stop = 0
  /\ stop' = 1
  /\ cpc' = [cpc EXCEPT ![k] = "lock"]
  /\ UNCHANGED <<mu, conn, sock, spc, pc>>

(* Mutant: the field is reset but the socket stays open.                   *)
CloseConnLeaks(k) ==
  /\ cpc[k] = "lock" /\ mu = None
  /\ conn' = None
  /\ cpc' = [cpc EXCEPT ![k] = "returned"]
  /\ UNCHANGED <<mu, sock, stop, spc, pc>>

(* The locked part.                                                        *)
CloseConn(k) ==
  /\ cpc[k] = "lock" /\ mu = None
  /\ conn' = None
  /\ sock' = IF conn = None THEN sock ELSE [sock EXCEPT ![conn] = "closed"]
  /\ cpc' = [cpc EXCEPT ![k] = "returned"]
  /\ UNCHANGED <<mu, stop, spc, pc>>

-----------------------------------------------------------------------------
ServeStep(s) ==
  \/ Lock(s) \/ InnerClose(s) \/ Listen(s) \/ TakeConn(s)
  \/ SelectTimer(s) \/ ReadContinue(s) \/ ReadError(s)

Next ==
  \/ \E s \in Serves : Activate(s) \/ ServeStep(s) \/ SelectStop(s)
  \/ \E k \in Closes : CloseCall(k) \/ CloseStop(k) \/ CloseConn(k)

Spec == Init /\ [][Next]_vars

(* Fairness: goroutines that can run do, a read returns by its deadline of *)
(* one second, the lock and the channel serve whoever waits for them, and  *)
(* a select whose shouldStop case is ready again and again picks it.       *)
Fairness ==
  /\ \A s \in Serves : WF_vars(ServeStep(s)) /\ SF_vars(Lock(s) \/ SelectStop(s))
  /\ \A k \in Closes : SF_vars(CloseStop(k) \/ CloseConn(k))

FairSpec == Spec /\ Fairness

-----------------------------------------------------------------------------
(* No listener is leaked: a socket that is open is s.conn, where Close     *)
(* will find it, in every interleaving of starts and stops (lines 40-52    *)
(* and 100-106).                                                           *)
NoLeakedSocket == \A s \in Serves : sock[s] = "open" => conn = s

(* A call of ActivateAndServe that found s.conn set: it waits for itself,  *)
(* and whoever needs the lock waits with it (line 44).                     *)
SelfLocked == \E s \in Serves : spc[s] \in {"close", "relock"}

(* shouldStop is full and no loop is left to empty it.                     *)
StopStuck == stop = 1 /\ \A s \in Serves : spc[s] \in {"idle", "returned"}

(* Close ends (lines 97-108) in every case but two: a call of              *)
(* ActivateAndServe locked itself out, or the value of an earlier Close is *)
(* still in shouldStop and no loop is running.                             *)
CloseReturns ==
  \A k \in Closes :
    cpc[k] = "push" ~> cpc[k] = "returned" \/ SelfLocked \/ StopStuck

(* A loop that is serving when Close is called (lines 65-79) ends, though  *)
(* the value sent to it may be taken by another loop and does not stop it: *)
(* the closed socket does.                                                 *)
ServingInterrupted ==
  \A s \in Serves, k \in Closes :
    (spc[s] \in Serving /\ cpc[k] = "push")
      ~> spc[s] = "returned" \/ SelfLocked
=============================================================================
