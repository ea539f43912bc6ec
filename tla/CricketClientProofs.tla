------------------------- MODULE CricketClientProofs -------------------------
(***************************************************************************)
(* Proofs about CricketClient, for any number of callers, any limits and   *)
(* whatever the provider answers.                                          *)
(***************************************************************************)
EXTENDS CricketClient, TLAPS

Pc == {"idle", "gate", "send", "inflight", "backoff", "done"}

CallRecord ==
  [pc : Pc, endpoint : Endpoint, attempt : 0 .. MaxRetries, sleep : Nat, notBefore : Nat,
   last : Answer \cup {Null}, outcome : Outcome]

(* A call that may still send has an attempt left, a call waits at least as long as the
   provider asked for, and once it goes on that time is over. *)
Paced(r) ==
  /\ r.pc \in {"send", "backoff"} => r.attempt < MaxRetries
  /\ r.pc = "gate" => r.attempt = 0
  /\ r.notBefore <= r.sleep
  /\ r.pc # "backoff" => r.notBefore = 0

CallInv ==
  /\ call \in [Caller -> CallRecord]
  /\ \A c \in Caller : Paced(call[c])

Quota == [left : Nat \cup {Null}, resetIn : Nat]

Inv == CallInv /\ age \in 0 .. MinInterval /\ quota \in Quota

(* A caller that gets a well-typed and paced record leaves the others as they are. *)
LEMMA OneCallMoves ==
  ASSUME CallInv, NEW c \in Caller, NEW r \in CallRecord, Paced(r),
         call' = [call EXCEPT ![c] = r]
  PROVE  CallInv'
  BY DEF CallInv

(* The parts of a call's record. *)
LEMMA CallParts ==
  ASSUME CallInv, NEW c \in Caller
  PROVE  /\ call[c] \in CallRecord /\ Paced(call[c])
         /\ call[c].pc \in Pc /\ call[c].endpoint \in Endpoint
         /\ call[c].attempt \in 0 .. MaxRetries
         /\ call[c].sleep \in Nat /\ call[c].notBefore \in Nat
         /\ call[c].last \in Answer \cup {Null} /\ call[c].outcome \in Outcome
  BY DEF CallInv, CallRecord

(* The record of a caller that has never called. *)
LEMMA NoCallType ==
  /\ NoCall \in CallRecord /\ Paced(NoCall)
  /\ NoCall.attempt = 0 /\ NoCall.sleep = 0 /\ NoCall.notBefore = 0
  BY ClientAssumption DEF NoCall, CallRecord, Pc, Endpoint, Outcome, Paced

(* That of a call which ended. *)
LEMMA EndedKeeps ==
  ASSUME CallInv, NEW c \in Caller, NEW a \in Answer \cup {Null}, NEW outcome \in Outcome,
         Ended(c, a, outcome)
  PROVE  CallInv'
<1> DEFINE r == [NoCall EXCEPT !.pc = "done", !.last = a, !.outcome = outcome]
<1>1. r \in CallRecord /\ Paced(r)
  BY NoCallType DEF CallRecord, Pc, Paced
<1> QED
  BY <1>1, OneCallMoves DEF Ended

(* An answer leaves the quota well typed. *)
LEMMA QuotaKept ==
  ASSUME quota \in Quota, NEW a \in Answer
  PROVE  QuotaAfter(a) \in Quota
<1>1. a.left \in Nat \cup {Null} /\ a.resets \in Nat \cup {Null}
  BY AnswerAssumption
<1>2. ResetAfter(a) \in Nat
  BY <1>1, ClientAssumption DEF Quota, ResetAfter
<1> QED
  BY <1>1, <1>2 DEF Quota, QuotaAfter

(* The invariant of the client: types, the attempt limit and the pace of each call. *)
THEOREM ClientInv == Spec => []Inv
<1>1. Init => Inv
  BY ClientAssumption, NoCallType DEF Init, Inv, CallInv, Quota
<1>2. Inv /\ [Next]_vars => Inv'
  <2> SUFFICES ASSUME Inv, [Next]_vars PROVE Inv'
    OBVIOUS
  <2>0. CallInv /\ age \in 0 .. MinInterval /\ quota \in Quota /\ MinInterval \in Nat
    BY ClientAssumption DEF Inv
  <2>1. ASSUME NEW c \in Caller, Begin(c) PROVE Inv'
    <3>1. PICK endpoint \in Endpoint :
            \/ Ended(c, Null, "ApiRateLimitError") /\ UNCHANGED age
            \/ /\ ~QuotaSpent /\ GateWait > 0
               /\ call' = [call EXCEPT ![c] = [NoCall EXCEPT !.pc = "gate",
                                                 !.endpoint = endpoint, !.sleep = GateWait]]
               /\ UNCHANGED age
            \/ /\ ~QuotaSpent /\ GateWait = 0
               /\ call' = [call EXCEPT ![c] = [NoCall EXCEPT !.pc = "send",
                                                 !.endpoint = endpoint]]
               /\ age' = 0
      BY <2>1 DEF Begin
    <3>2. CASE Ended(c, Null, "ApiRateLimitError") /\ UNCHANGED age
      <4>1. CallInv'
        BY <2>0, <3>2, EndedKeeps DEF Outcome
      <4> QED
        BY <2>0, <2>1, <3>2, <4>1 DEF Begin, Inv
    <3>3. CASE /\ GateWait > 0
               /\ call' = [call EXCEPT ![c] = [NoCall EXCEPT !.pc = "gate",
                                                 !.endpoint = endpoint, !.sleep = GateWait]]
               /\ UNCHANGED age
      <4> DEFINE r == [NoCall EXCEPT !.pc = "gate", !.endpoint = endpoint, !.sleep = GateWait]
      <4>1. GateWait \in Nat
        BY <2>0 DEF GateWait
      <4>2. r \in CallRecord /\ Paced(r)
        <5>1. r \in CallRecord
          BY <4>1, NoCallType DEF CallRecord, Pc
        <5>2. r.pc = "gate" /\ r.attempt = 0 /\ r.notBefore = 0 /\ r.sleep = GateWait
          BY NoCallType DEF CallRecord
        <5> QED
          BY <4>1, <5>1, <5>2 DEF Paced
      <4>3. CallInv'
        BY <2>0, <3>3, <4>2, OneCallMoves
      <4> QED
        BY <2>0, <2>1, <3>3, <4>3 DEF Begin, Inv
    <3>4. CASE /\ call' = [call EXCEPT ![c] = [NoCall EXCEPT !.pc = "send",
                                                 !.endpoint = endpoint]]
               /\ age' = 0
      <4> DEFINE r == [NoCall EXCEPT !.pc = "send", !.endpoint = endpoint]
      <4>1. r \in CallRecord /\ Paced(r)
        <5>1. r \in CallRecord
          BY NoCallType DEF CallRecord, Pc
        <5>2. r.pc = "send" /\ r.attempt = 0 /\ r.notBefore = 0 /\ r.sleep = 0
          BY NoCallType DEF CallRecord
        <5> QED
          BY <5>1, <5>2, ClientAssumption DEF Paced
      <4>2. CallInv'
        BY <2>0, <3>4, <4>1, OneCallMoves
      <4> QED
        BY <2>0, <2>1, <3>4, <4>2 DEF Begin, Inv
    <3> QED
      BY <3>1, <3>2, <3>3, <3>4
  <2>2. ASSUME NEW c \in Caller, PassGate(c) PROVE Inv'
    <3> DEFINE r == [call[c] EXCEPT !.pc = "send"]
    <3>1. r \in CallRecord /\ Paced(r)
      BY <2>0, <2>2, CallParts, ClientAssumption DEF PassGate, CallRecord, Pc, Paced
    <3>2. CallInv'
      BY <2>0, <2>2, <3>1, OneCallMoves DEF PassGate
    <3> QED
      BY <2>0, <2>2, <3>2 DEF PassGate, Inv
  <2>3. ASSUME NEW c \in Caller, Send(c) PROVE Inv'
    <3> DEFINE r == [call[c] EXCEPT !.pc = "inflight", !.attempt = CountAttempt(@)]
    <3>1. CountAttempt(call[c].attempt) \in 0 .. MaxRetries
      BY <2>0, <2>3, CallParts, ClientAssumption DEF Send, Paced, CountAttempt
    <3>2. r \in CallRecord /\ Paced(r)
      BY <2>0, <2>3, <3>1, CallParts DEF Send, CallRecord, Pc, Paced
    <3>3. call' = [call EXCEPT ![c] = r]
      BY <2>3 DEF Send
    <3>4. CallInv'
      BY <2>0, <3>2, <3>3, OneCallMoves
    <3> QED
      BY <2>0, <2>3, <3>4 DEF Send, Inv
  <2>4. ASSUME NEW c \in Caller, Respond(c) PROVE Inv'
    <3>1. PICK a \in Answer : Succeed(c, a) \/ Fail(c, a) \/ BackOff(c, a)
      BY <2>4 DEF Respond
    <3>2. CASE Succeed(c, a)
      <4>1. CallInv'
        <5>1. PICK outcome \in {"ApiParseError", "NotFoundError", "ok"} : Ended(c, a, outcome)
          BY <3>2 DEF Succeed, Finished
        <5> QED
          BY <2>0, <5>1, EndedKeeps DEF Outcome
      <4>2. quota' \in Quota
        BY <2>0, <3>2, QuotaKept DEF Succeed
      <4> QED
        BY <2>0, <2>4, <4>1, <4>2 DEF Respond, Inv
    <3>3. CASE Fail(c, a)
      <4>1. CallInv'
        <5>1. ErrorOf(a, call[c].endpoint) \in Outcome
          BY DEF ErrorOf, Outcome
        <5> QED
          BY <2>0, <3>3, <5>1, EndedKeeps DEF Fail
      <4> QED
        BY <2>0, <2>4, <3>3, <4>1 DEF Respond, Fail, Inv
    <3>4. CASE BackOff(c, a)
      <4> DEFINE asked == IF a.status = 429 /\ a.retryAfter # Null THEN a.retryAfter ELSE 0
      <4>1. PICK delay \in Delays(a, call[c].attempt) :
              call' = [call EXCEPT ![c] = [@ EXCEPT !.pc = "backoff", !.sleep = delay,
                                             !.last = a, !.notBefore = asked]]
        BY <3>4 DEF BackOff
      <4>2. delay \in Nat /\ asked \in Nat /\ asked <= delay
        BY AnswerAssumption DEF Delays
      <4> DEFINE r == [call[c] EXCEPT !.pc = "backoff", !.sleep = delay, !.last = a,
                         !.notBefore = asked]
      <4>3. r \in CallRecord
        <5> HIDE DEF asked
        <5> QED
          BY <2>0, <4>2, CallParts DEF CallRecord, Pc
      <4>4. call[c].attempt < MaxRetries
        BY <2>0, <3>4, CallParts, ClientAssumption DEF BackOff, Exhausted
      <4>5. Paced(r)
        <5> HIDE DEF asked
        <5> QED
          BY <2>0, <4>2, <4>4, CallParts DEF CallRecord, Paced
      <4>6. call' = [call EXCEPT ![c] = r]
        BY <4>1
      <4>7. CallInv'
        <5> HIDE DEF r
        <5> QED
          BY <2>0, <4>3, <4>5, <4>6, OneCallMoves
      <4> QED
        BY <2>0, <2>4, <3>4, <4>7 DEF Respond, BackOff, Inv
    <3> QED
      BY <3>1, <3>2, <3>3, <3>4
  <2>5. ASSUME NEW c \in Caller, Retry(c) PROVE Inv'
    <3> DEFINE r == [call[c] EXCEPT !.pc = "send"]
    <3>1. r \in CallRecord /\ Paced(r)
      BY <2>0, <2>5, CallParts DEF Retry, CallRecord, Pc, Paced
    <3>2. CallInv'
      BY <2>0, <2>5, <3>1, OneCallMoves DEF Retry
    <3> QED
      BY <2>0, <2>5, <3>2 DEF Retry, Inv
  <2>6. CASE Tick
    <3> DEFINE r(c) == [call[c] EXCEPT !.sleep = Sooner(@), !.notBefore = Sooner(@)]
    <3>1. ASSUME NEW c \in Caller PROVE r(c) \in CallRecord /\ Paced(r(c))
      <4>1. /\ Sooner(call[c].sleep) \in Nat /\ Sooner(call[c].notBefore) \in Nat
            /\ Sooner(call[c].notBefore) <= Sooner(call[c].sleep)
            /\ call[c].notBefore = 0 => Sooner(call[c].notBefore) = 0
        BY <2>0, CallParts DEF Paced, Sooner
      <4> QED
        BY <2>0, <4>1, CallParts DEF CallRecord, Paced
    <3>2. call' = [c \in Caller |-> r(c)]
      BY <2>6 DEF Tick
    <3>3. CallInv'
      <4> HIDE DEF r
      <4> QED
        BY <3>1, <3>2 DEF CallInv
    <3>4. age' \in 0 .. MinInterval
      <4>1. age' = Least(MinInterval, age + 1)
        BY <2>6 DEF Tick
      <4> QED
        BY <2>0, <4>1 DEF Least
    <3>5. quota' \in Quota
      <4>1. quota' = [quota EXCEPT !.resetIn = Sooner(@)]
        BY <2>6 DEF Tick
      <4> QED
        BY <2>0, <4>1 DEF Quota, Sooner
    <3> QED
      BY <3>3, <3>4, <3>5 DEF Inv
  <2>7. CASE UNCHANGED vars
    BY <2>0, <2>7 DEF vars, Inv, CallInv
  <2> QED
    BY <2>1, <2>2, <2>3, <2>4, <2>5, <2>6, <2>7 DEF Next
<1> QED
  BY <1>1, <1>2, PTL DEF Spec

(* Every field of the client keeps its type, and no call makes more attempts than
   CRICKET_API_MAX_RETRIES, whatever the provider answers. *)
THEOREM ClientTypes == Spec => []TypeOK
<1>1. Inv => TypeOK
  BY CallParts DEF Inv, TypeOK, Quota, Pc
<1> QED
  BY <1>1, ClientInv, PTL

(* No attempt goes out before the Retry-After of the attempt before it is over. *)
THEOREM RetryAfter == Spec => RetryAfterHonoured
<1>1. ASSUME Inv, NEW c \in Caller, Sends(c) PROVE call[c].notBefore = 0
  BY <1>1, CallParts DEF Inv, Sends, Paced
<1>2. Inv => [\A c \in Caller : Sends(c) => call[c].notBefore = 0]_vars
  BY <1>1
<1> QED
  BY <1>2, ClientInv, PTL DEF RetryAfterHonoured

-----------------------------------------------------------------------------
(* The spacing of calls, when there is one caller. *)

(* A call at the gate sleeps until the interval is over. *)
AtGate == \A c \in Caller : call[c].pc = "gate" => call[c].sleep + age >= MinInterval

(* An answered call is over, or backs off. *)
LEMMA AnsweredGoesOn ==
  ASSUME CallInv, NEW c \in Caller, Respond(c)
  PROVE  call'[c].pc \in {"done", "backoff"}
<1>1. call \in [Caller -> CallRecord] /\ NoCall \in CallRecord
  BY NoCallType DEF CallInv
<1>2. PICK a \in Answer : Succeed(c, a) \/ Fail(c, a) \/ BackOff(c, a)
  BY DEF Respond
<1>3. \A outcome : Ended(c, a, outcome) => call'[c].pc = "done"
  BY <1>1 DEF Ended, CallRecord
<1>4. CASE Succeed(c, a) \/ Fail(c, a)
  BY <1>3, <1>4 DEF Succeed, Fail
<1>5. CASE BackOff(c, a)
  BY <1>1, <1>5 DEF BackOff, CallRecord
<1> QED
  BY <1>2, <1>4, <1>5

(* The arithmetic of the gate is right: with a single caller every call keeps its
   distance from the one before.  What FirstAttemptsSpaced fails for is the pause between
   the read of lastCallAt and its write, in which another caller can get. *)
THEOREM AloneSpaced ==
  ASSUME \A c, d \in Caller : c = d
  PROVE  Spec => FirstAttemptsSpaced
<1>1. Init => AtGate
  BY DEF Init, AtGate, NoCall
<1>2. Inv /\ AtGate /\ [Next]_vars => AtGate'
  <2> SUFFICES ASSUME Inv, AtGate, [Next]_vars, NEW d \in Caller, call'[d].pc = "gate"
               PROVE  call'[d].sleep + age' >= MinInterval
    BY DEF AtGate
  <2>0. /\ call \in [Caller -> CallRecord] /\ age \in 0 .. MinInterval /\ MinInterval \in Nat
        /\ call[d].sleep \in Nat
    BY ClientAssumption, CallParts DEF Inv, CallInv
  <2>1. CASE Begin(d)
    <3>1. call'[d].sleep = GateWait /\ age' = age
      BY <2>0, <2>1 DEF Begin, Ended, CallRecord, NoCall
    <3> QED
      BY <2>0, <3>1 DEF GateWait
  <2>2. CASE PassGate(d) \/ Send(d) \/ Retry(d)
    BY <2>0, <2>2 DEF PassGate, Send, Retry, CallRecord
  <2>3. CASE Respond(d)
    BY <2>3, AnsweredGoesOn DEF Inv
  <2>4. CASE Tick
    <3>1. /\ call'[d].pc = call[d].pc /\ call'[d].sleep = Sooner(call[d].sleep)
          /\ age' = Least(MinInterval, age + 1)
      BY <2>0, <2>4 DEF Tick, CallRecord
    <3>2. call[d].sleep + age >= MinInterval
      BY <3>1 DEF AtGate
    <3> QED
      BY <2>0, <3>1, <3>2 DEF Sooner, Least
  <2>5. CASE UNCHANGED vars
    BY <2>5 DEF vars, AtGate
  <2>6. \A c \in Caller : c = d
    OBVIOUS
  <2> QED
    BY <2>1, <2>2, <2>3, <2>4, <2>5, <2>6, Zenon DEF Next
<1>3. ASSUME Inv, AtGate, [Next]_vars, NEW c \in Caller,
             call[c].pc \in {"idle", "gate", "done"}, call'[c].pc = "send"
      PROVE  age >= MinInterval
  <2>0. /\ call \in [Caller -> CallRecord] /\ age \in 0 .. MinInterval /\ MinInterval \in Nat
    BY <1>3, ClientAssumption DEF Inv, CallInv
  <2>1. CASE Begin(c)
    <3>1. GateWait = 0
      BY <1>3, <2>0, <2>1 DEF Begin, Ended, CallRecord, NoCall
    <3> QED
      BY <2>0, <3>1 DEF GateWait
  <2>2. CASE PassGate(c)
    <3>1. call[c].pc = "gate" /\ call[c].sleep = 0
      BY <2>2 DEF PassGate
    <3> QED
      BY <1>3, <2>0, <3>1 DEF AtGate
  <2>3. CASE Send(c) \/ Respond(c) \/ Retry(c)
    BY <1>3, <2>3 DEF Send, Respond, Retry
  <2>4. CASE Tick
    <3>1. call'[c].pc = call[c].pc
      BY <2>0, <2>4 DEF Tick, CallRecord
    <3> QED
      BY <1>3, <3>1
  <2>6. CASE UNCHANGED vars
    BY <1>3, <2>6 DEF vars
  <2>5. \A d \in Caller : d = c
    OBVIOUS
  <2> QED
    BY <1>3, <2>1, <2>2, <2>3, <2>4, <2>5, <2>6, Zenon DEF Next
<1>4. Inv /\ AtGate /\ [Next]_vars
        => [\A c \in Caller : call[c].pc \in {"idle", "gate", "done"} /\ call'[c].pc = "send"
                                => age >= MinInterval]_vars
  BY <1>3
<1> QED
  BY <1>1, <1>2, <1>4, ClientInv, PTL DEF Spec, FirstAttemptsSpaced
=============================================================================
