--------------------------- MODULE NClient4Retry ---------------------------
(***************************************************************************)
(* How long SendAndRead of dhcpv4/nclient4/client.go takes: one call, its  *)
(* attempts and their timers on a discrete clock.  NClient4 has the other  *)
(* ways a call can end; here only time, packets and timeouts matter.       *)
(***************************************************************************)
EXTENDS Integers

CONSTANTS
  Timeout,      \* c.timeout
  Retry,        \* c.retry; negative means retry for ever
  MaxUnmatched, \* bound: packets that reach the call and do not match
  MaxNow        \* bound: the clock

ASSUME RetryAssumption ==
  /\ Timeout \in Nat \ {0}
  /\ Retry \in Int
  /\ MaxUnmatched \in Nat /\ MaxNow \in Nat

VARIABLES
  now,       \* the time since SendAndRead was called
  i,         \* the loop variable of retryFn
  timeout,   \* its timeout
  sentAt,    \* when the attempt began
  armedAt,   \* when time.After was last called
  unmatched, \* packets of the attempt that did not match
  total,     \* packets of the call that did not match
  pc         \* "waiting", "responded" or "exhausted"

vars == <<now, i, timeout, sentAt, armedAt, unmatched, total, pc>>

(* Every variable has its type, and no timer that is due is passed over.   *)
TypeOK ==
  /\ now \in Nat /\ i \in Nat /\ timeout \in Nat \ {0}
  /\ sentAt \in 0..now /\ armedAt \in sentAt..now
  /\ unmatched \in Nat /\ total \in Nat /\ unmatched <= total
  /\ pc \in {"waiting", "responded", "exhausted"}
  /\ now <= armedAt + timeout

(* A retry count of zero makes no attempt at all.                          *)
Init ==
  /\ now = 0 /\ i = 0 /\ timeout = Timeout
  /\ sentAt = 0 /\ armedAt = 0 /\ unmatched = 0 /\ total = 0
  /\ pc = IF Retry = 0 THEN "exhausted" ELSE "waiting"

Tick ==
  /\ pc = "waiting" /\ now < armedAt + timeout /\ now < MaxNow
  /\ now' = now + 1
  /\ UNCHANGED <<i, timeout, sentAt, armedAt, unmatched, total, pc>>

(* Mutant: the timeout is not doubled.                                     *)
ExpireFlat ==
  /\ pc = "waiting" /\ now = armedAt + timeout
  /\ IF Retry < 0 \/ i + 1 < Retry
       THEN /\ i' = i + 1
            /\ sentAt' = now /\ armedAt' = now /\ unmatched' = 0
            /\ UNCHANGED pc
       ELSE /\ pc' = "exhausted"
            /\ UNCHANGED <<i, sentAt, armedAt, unmatched>>
  /\ UNCHANGED <<now, total, timeout>>

(* The timer fires: the next attempt waits twice as long, if there is one. *)
Expire ==
  /\ pc = "waiting" /\ now = armedAt + timeout
  /\ IF Retry < 0 \/ i + 1 < Retry
       THEN /\ i' = i + 1 /\ timeout' = 2 * timeout
            /\ sentAt' = now /\ armedAt' = now /\ unmatched' = 0
            /\ UNCHANGED pc
       ELSE /\ pc' = "exhausted"
            /\ UNCHANGED <<i, timeout, sentAt, armedAt, unmatched>>
  /\ UNCHANGED <<now, total>>

(* A packet that does not match: the loop calls time.After again.          *)
Unmatched ==
  /\ pc = "waiting" /\ total < MaxUnmatched
  /\ armedAt' = now
  /\ unmatched' = unmatched + 1 /\ total' = total + 1
  /\ UNCHANGED <<now, i, timeout, sentAt, pc>>

Match ==
  /\ pc = "waiting"
  /\ pc' = "responded"
  /\ UNCHANGED <<now, i, timeout, sentAt, armedAt, unmatched, total>>

Next == Tick \/ Expire \/ Unmatched \/ Match

Spec == Init /\ [][Next]_vars

-----------------------------------------------------------------------------
(* Retransmissions back off: the attempts before this one waited Timeout,  *)
(* twice Timeout, ... (line 404), which add up to timeout - Timeout, and   *)
(* longer only if packets that do not match arrived.                       *)
Backoff ==
  /\ sentAt >= timeout - Timeout
  /\ total = 0 => sentAt = timeout - Timeout

(* Each packet that does not match can extend an attempt by one timeout    *)
(* and no more (line 369).                                                 *)
AttemptBounded == now - sentAt <= (unmatched + 1) * timeout

(* A call gives up only after all its attempts (lines 396-411).            *)
AllAttempts == pc = "exhausted" => Retry >= 0 /\ i + 1 >= Retry

(* The times of a call: when its attempts begin, how long one lasts, and   *)
(* how many there are.  An attempt takes its timeout "at worst" (comment,  *)
(* line 395) only when no packet restarts the timer.                       *)
AttemptTimes == Backoff /\ AttemptBounded /\ AllAttempts
=============================================================================
