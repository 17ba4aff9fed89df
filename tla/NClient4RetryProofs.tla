------------------------ MODULE NClient4RetryProofs ------------------------
(***************************************************************************)
(* The timing of SendAndRead for every timeout, retry count and number of  *)
(* packets.  The strengthening is that the timer now running was armed in  *)
(* time: each packet that did not match pushed it back by at most one      *)
(* timeout.  Without it neither Backoff nor AttemptBounded is inductive.   *)
(***************************************************************************)
EXTENDS NClient4Retry, TLAPS

USE RetryAssumption

ArmedInTime == armedAt - sentAt <= unmatched * timeout

TimeInv == TypeOK /\ Backoff /\ ArmedInTime

LEMMA OneMore ==
  ASSUME NEW n \in Nat, NEW t \in Nat
  PROVE  /\ n * t \in Nat
         /\ (n + 1) * t = n * t + t
OBVIOUS

LEMMA InitTime == Init => TimeInv
BY DEF Init, TimeInv, TypeOK, Backoff, ArmedInTime

LEMMA NextTime == TimeInv /\ [Next]_vars => TimeInv'
<1> SUFFICES ASSUME TimeInv, [Next]_vars PROVE TimeInv'
  OBVIOUS
<1> USE DEF TimeInv
<1>1. CASE Tick
  BY <1>1 DEF Tick, TypeOK, Backoff, ArmedInTime
<1>2. CASE Expire
  <2>1. CASE Retry < 0 \/ i + 1 < Retry
    <3>1. TypeOK'
      BY <1>2, <2>1 DEF Expire, TypeOK
    <3>2. Backoff'
      <4>1. total = 0 => unmatched * timeout = 0
        BY DEF TypeOK
      <4>2. total = 0 => armedAt = sentAt
        BY <4>1 DEF TypeOK, ArmedInTime
      <4> QED
        BY <1>2, <2>1, <4>2 DEF Expire, TypeOK, Backoff
    <3>3. ArmedInTime'
      BY <1>2, <2>1 DEF Expire, TypeOK, ArmedInTime
    <3> QED
      BY <3>1, <3>2, <3>3
  <2>2. CASE ~(Retry < 0 \/ i + 1 < Retry)
    BY <1>2, <2>2 DEF Expire, TypeOK, Backoff, ArmedInTime
  <2> QED
    BY <2>1, <2>2
<1>3. CASE Unmatched
  <2>1. TypeOK' /\ Backoff'
    BY <1>3 DEF Unmatched, TypeOK, Backoff
  <2>2. (unmatched + 1) * timeout = unmatched * timeout + timeout
    BY OneMore DEF TypeOK
  <2>3. ArmedInTime'
    <3>1. unmatched * timeout \in Nat
      BY OneMore DEF TypeOK
    <3> QED
      BY <1>3, <2>2, <3>1 DEF Unmatched, TypeOK, ArmedInTime
  <2> QED
    BY <2>1, <2>3
<1>4. CASE Match
  BY <1>4 DEF Match, TypeOK, Backoff, ArmedInTime
<1>5. CASE UNCHANGED vars
  BY <1>5 DEF vars, TypeOK, Backoff, ArmedInTime
<1> QED
  BY <1>1, <1>2, <1>3, <1>4, <1>5 DEF Next

(* exhausted is reached only where the loop of retryFn ends.               *)
LEMMA NextAttempts == TimeInv /\ AllAttempts /\ [Next]_vars => AllAttempts'
<1> SUFFICES ASSUME TimeInv, AllAttempts, [Next]_vars PROVE AllAttempts'
  OBVIOUS
<1>1. CASE Expire
  BY <1>1 DEF Expire, AllAttempts, TimeInv, TypeOK
<1>2. CASE Tick \/ Unmatched \/ Match \/ UNCHANGED vars
  BY <1>2 DEF Tick, Unmatched, Match, vars, AllAttempts
<1> QED
  BY <1>1, <1>2 DEF Next

(* Whatever arrives, SendAndRead backs off as retryFn says and an attempt  *)
(* lasts one timeout for each packet that did not match, and one more; it  *)
(* gives up after c.retry attempts and no fewer.                           *)
THEOREM TimeSafety == Spec => [](TypeOK /\ AttemptTimes)
<1>1. TimeInv => AttemptBounded
  <2> SUFFICES ASSUME TimeInv PROVE AttemptBounded
    OBVIOUS
  <2>1. /\ unmatched * timeout \in Nat
        /\ (unmatched + 1) * timeout = unmatched * timeout + timeout
    BY OneMore DEF TimeInv, TypeOK
  <2> QED
    BY <2>1 DEF TimeInv, TypeOK, ArmedInTime, AttemptBounded
<1>2. TimeInv /\ AllAttempts => TypeOK /\ AttemptTimes
  BY <1>1 DEF TimeInv, AttemptTimes
<1>3. Init => AllAttempts
  BY DEF Init, AllAttempts
<1> QED
  BY InitTime, NextTime, NextAttempts, <1>2, <1>3, PTL DEF Spec
=============================================================================
