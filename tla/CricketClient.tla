---------------------------- MODULE CricketClient ----------------------------
(***************************************************************************)
(* The client of the cricket provider (src/lib/cricketApiClient.js) with   *)
(* the retry loop it uses (src/lib/retry.js), called at the same time by   *)
(* the poll job and by routes that miss the cache: one event loop, shared  *)
(* lastCallAt and quota.                                                   *)
(*                                                                         *)
(* Time passes in ticks and is kept relative: how long ago lastCallAt was, *)
(* how long a call still sleeps, how long until quota.resetAt.             *)
(***************************************************************************)
EXTENDS Integers, FiniteSets

CONSTANTS
  Caller,        \* concurrent callers of the client
  Null,
  MaxRetries,    \* CRICKET_API_MAX_RETRIES: attempts per call
  MinInterval,   \* CRICKET_API_MIN_INTERVAL_MS in ticks
  BaseDelay, MaxDelay,  \* the backoff's base and clamp in ticks
  QuotaPause,    \* ticks until a spent quota without reset header is tried again
  Answer         \* what the provider may do with one request, see below

(* An answer is a record
     [status, body, retryAfter, left, resets]
   status      200, 404, 401, 429, 500, or 0 for a network error or an abort
   body        "ok", "empty" without data, "malformed", "key", "limit" or "other" for the
               in-body failures, "aborted" when the timeout fires while it is read
   retryAfter  the Retry-After header in ticks, Null without one
   left        the remaining quota the answer tells of, Null without one
   resets      the x-ratelimit-reset header in ticks from now, Null without one    *)

ASSUME ClientAssumption ==
  /\ MaxRetries \in Nat \ {0}
  /\ MinInterval \in Nat /\ BaseDelay \in Nat /\ MaxDelay \in Nat /\ QuotaPause \in Nat

ASSUME AnswerAssumption ==
  \A a \in Answer : {a.retryAfter, a.left, a.resets} \subseteq Nat \cup {Null}

VARIABLES
  call,      \* [Caller -> [pc, endpoint, attempt, sleep, notBefore, last, outcome]]
  age,       \* ticks since lastCallAt, up to MinInterval
  quota      \* [left, resetIn]

vars == <<call, age, quota>>

Endpoint == {"/currentMatches", "/match_info"}

Least(a, b) == IF a < b THEN a ELSE b

NoCall == [pc |-> "idle", endpoint |-> "/currentMatches", attempt |-> 0, sleep |-> 0,
           notBefore |-> 0, last |-> Null, outcome |-> Null]

-----------------------------------------------------------------------------
(* Classifying an answer: httpGet, assertOk, assertBodyOk, the final typing *)

\* What httpGet hands on: a body that cannot be read is null, timeout or not.
Envelope(a) == [a EXCEPT !.body = IF @ = "aborted" THEN "null" ELSE @]

Ok(a) == a.status = 200 /\ a.body \notin {"key", "limit", "other"}

\* err.retryable: network failures, aborts before the headers, 429 and 5xx.
Retryable(a) == a.status \in {0, 429, 500}

\* parseOrThrow rejects it.
Unparseable(a) == a.body \in {"malformed", "null"}

NotFound(a, endpoint) ==
  /\ endpoint = "/match_info"
  /\ \/ a.status = 404
     \/ a.status = 200 /\ a.body = "other"

\* The error class the caller of the client sees.
ErrorOf(a, endpoint) ==
  IF NotFound(a, endpoint) THEN "NotFoundError"
  ELSE IF a.status = 429 \/ (a.status = 200 /\ a.body = "limit") THEN "ApiRateLimitError"
  ELSE "ApiUnavailableError"

\* What parseOrThrow and finish() make of a body that was let through.
Finished(a, endpoint) ==
  CASE Unparseable(a)                                  -> "ApiParseError"
    [] a.body = "empty" /\ endpoint = "/match_info"    -> "NotFoundError"
    [] OTHER                                           -> "ok"

-----------------------------------------------------------------------------
(* Quota, spacing and backoff *)

QuotaSpent == quota.left = 0 /\ quota.resetIn > 0

\* The header says when; without it a spent quota pauses for a while.
ResetAfter(a) ==
  IF a.resets # Null THEN a.resets ELSE IF a.left = 0 THEN QuotaPause ELSE quota.resetIn

QuotaAfter(a) == IF a.left = Null THEN quota ELSE [left |-> a.left, resetIn |-> ResetAfter(a)]

\* minIntervalMs - (now - lastCallAt), 0 when that is not positive.
GateWait == IF MinInterval > age THEN MinInterval - age ELSE 0

\* Mutant: Retry-After is not consulted.
Delays_jitterOnly(a, attempt) == 0 .. Least(MaxDelay, BaseDelay * 2 ^ (attempt - 1))

\* The sleeps possible before the next attempt: Retry-After, or full jitter.
Delays(a, attempt) ==
  IF a.status = 429 /\ a.retryAfter # Null THEN {a.retryAfter}
  ELSE 0 .. Least(MaxDelay, BaseDelay * 2 ^ (attempt - 1))

\* Mutants: one attempt too many; attempts are not counted.
Exhausted_offByOne(attempt) == attempt > MaxRetries
CountAttempt_stuck(attempt) == 1

Exhausted(attempt) == attempt >= MaxRetries

CountAttempt(attempt) == attempt + 1

-----------------------------------------------------------------------------
Init ==
  /\ call = [c \in Caller |-> NoCall]
  /\ age = MinInterval
  /\ quota = [left |-> Null, resetIn |-> 0]

Ended(c, a, outcome) ==
  call' = [call EXCEPT ![c] = [NoCall EXCEPT !.pc = "done", !.last = a, !.outcome = outcome]]

\* guardQuota, and applyMinInterval up to its sleep, in one turn.
Begin(c) ==
  /\ call[c].pc \in {"idle", "done"}
  /\ \E endpoint \in Endpoint :
       \/ /\ QuotaSpent
          /\ Ended(c, Null, "ApiRateLimitError")
          /\ UNCHANGED age
       \/ /\ ~QuotaSpent /\ GateWait > 0
          /\ call' = [call EXCEPT ![c] = [NoCall EXCEPT !.pc = "gate",
                                            !.endpoint = endpoint, !.sleep = GateWait]]
          /\ UNCHANGED age
       \/ /\ ~QuotaSpent /\ GateWait = 0
          /\ call' = [call EXCEPT ![c] = [NoCall EXCEPT !.pc = "send", !.endpoint = endpoint]]
          /\ age' = 0
  /\ UNCHANGED quota

\* The sleep of the gate is over: lastCallAt = Date.now(), then the request.
PassGate(c) ==
  /\ call[c].pc = "gate" /\ call[c].sleep = 0
  /\ call' = [call EXCEPT ![c].pc = "send"]
  /\ age' = 0
  /\ UNCHANGED quota

Send(c) ==
  /\ call[c].pc = "send"
  /\ call' = [call EXCEPT ![c].pc = "inflight", ![c].attempt = CountAttempt(@)]
  /\ UNCHANGED <<age, quota>>

\* The attempt succeeded: updateQuota, then the parse and finish().
Succeed(c, a) ==
  /\ Ok(Envelope(a))
  /\ quota' = QuotaAfter(a)
  /\ Ended(c, a, Finished(Envelope(a), call[c].endpoint))

\* It failed for good, or once too often: the error is typed and thrown.
Fail(c, a) ==
  /\ ~Ok(a)
  /\ ~Retryable(a) \/ Exhausted(call[c].attempt)
  /\ Ended(c, a, ErrorOf(a, call[c].endpoint))
  /\ UNCHANGED quota

BackOff(c, a) ==
  /\ ~Ok(a) /\ Retryable(a) /\ ~Exhausted(call[c].attempt)
  /\ \E delay \in Delays(a, call[c].attempt) :
       call' = [call EXCEPT ![c] =
                  [@ EXCEPT !.pc = "backoff", !.sleep = delay, !.last = a,
                     !.notBefore = IF a.status = 429 /\ a.retryAfter # Null
                                   THEN a.retryAfter ELSE 0]]
  /\ UNCHANGED quota

Respond(c) ==
  /\ call[c].pc = "inflight"
  /\ \E a \in Answer : Succeed(c, a) \/ Fail(c, a) \/ BackOff(c, a)
  /\ UNCHANGED age

Retry(c) ==
  /\ call[c].pc = "backoff" /\ call[c].sleep = 0
  /\ call' = [call EXCEPT ![c].pc = "send"]
  /\ UNCHANGED <<age, quota>>

Sooner(n) == IF n = 0 THEN 0 ELSE n - 1

\* A tick passes; a request that is ready to go out goes out first.
Tick ==
  /\ \A c \in Caller : call[c].pc # "send"
  /\ call' = [c \in Caller |-> [call[c] EXCEPT !.sleep = Sooner(@), !.notBefore = Sooner(@)]]
  /\ age' = Least(MinInterval, age + 1)
  /\ quota' = [quota EXCEPT !.resetIn = Sooner(@)]

Next ==
  \/ \E c \in Caller : Begin(c) \/ PassGate(c) \/ Send(c) \/ Respond(c) \/ Retry(c)
  \/ Tick

Spec == Init /\ [][Next]_vars

\* Time passes, timers fire, and a request is answered or aborted by its timeout.
FairSpec ==
  /\ Spec
  /\ WF_vars(Tick)
  /\ \A c \in Caller : WF_vars(PassGate(c) \/ Send(c) \/ Respond(c) \/ Retry(c))

-----------------------------------------------------------------------------
(* Properties *)

Outcome == {Null, "ok", "NotFoundError", "ApiRateLimitError", "ApiUnavailableError",
            "ApiParseError"}

\* Types, and no call makes more than CRICKET_API_MAX_RETRIES attempts.
TypeOK ==
  /\ \A c \in Caller :
       /\ call[c].pc \in {"idle", "gate", "send", "inflight", "backoff", "done"}
       /\ call[c].endpoint \in Endpoint
       /\ call[c].attempt \in 0 .. MaxRetries
       /\ call[c].sleep \in Nat /\ call[c].notBefore \in Nat
       /\ call[c].last \in Answer \cup {Null}
       /\ call[c].outcome \in Outcome
  /\ age \in 0 .. MinInterval
  /\ quota.left \in Nat \cup {Null} /\ quota.resetIn \in Nat

Sends(c) == call[c].pc = "send" /\ call'[c].pc = "inflight"

\* "Enforce a minimum spacing between outbound calls": the first attempt of a call
\* follows the one of the call before by the interval (retries go around the gate).
FirstAttemptsSpaced ==
  [][\A c \in Caller : call[c].pc \in {"idle", "gate", "done"} /\ call'[c].pc = "send"
                         => age >= MinInterval]_vars

\* No attempt goes out before the Retry-After of the 429 it follows is over.
RetryAfterHonoured ==
  [][\A c \in Caller : Sends(c) => call[c].notBefore = 0]_vars

\* Every call comes back to its caller.
CallEnds == \A c \in Caller : call[c].pc \in {"gate", "inflight"} ~> call[c].pc = "done"

\* A timeout is transient ("Network failure or abort (timeout). Mark transient so
\* withRetry retries"): a call is not given up as malformed because of one.
AbortIsTransient ==
  \A c \in Caller : call[c].outcome = "ApiParseError" => call[c].last.body # "aborted"
=============================================================================
