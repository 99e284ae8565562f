---------------------------- MODULE SignInLimits ----------------------------
(***************************************************************************)
(* The two Redis counters a sign-in passes (routers/auth.py:87, core/rate_ *)
(* limit.py): requests of one client in a minute, and failed sign-ins of   *)
(* one account in a quarter of an hour.  A counter is created by its first *)
(* INCR and given its time to live by a second command.  Any command may   *)
(* fail, and then the sign-in goes on as if the counter did not exist; a   *)
(* process may die between two commands.                                   *)
(***************************************************************************)
EXTENDS Integers, FiniteSets

CONSTANTS
  Attempts,         \* sign-in requests, of one client for one account
  HitLimit,         \* RATE_LIMIT_ATTEMPTS
  HitWindow,        \* RATE_LIMIT_WINDOW_SEC, in ticks
  FailureLimit,     \* LOCKOUT_ATTEMPTS
  FailureWindow,    \* LOCKOUT_WINDOW_SEC, in ticks
  LastTick,         \* bound: time
  MaxOutages        \* bound: Redis commands that fail, and deaths

ASSUME LimitAssumption ==
  /\ HitLimit \in Nat \ {0} /\ FailureLimit \in Nat \ {0}
  /\ HitWindow \in Nat \ {0} /\ FailureWindow \in Nat \ {0} /\ LastTick \in Nat

VARIABLES
  now,       \* time
  hits,      \* the counter of the client's requests
  failures,  \* the counter of the account's failures
  attempt,   \* the sign-ins
  (* history, guards nothing but the bounds *)
  admitted,  \* when a sign-in passed the first limit, as a counter judged it
  lost,      \* counters that a failure left without a time to live
  late,      \* sign-ins whose password was looked at while the account was locked
  excused,   \* those that could not read the failures, or were not alone
  outages

limitVars == <<now, hits, failures, attempt, admitted, lost, late, excused, outages>>

(* A key of Redis: absent when n is 0, and Forever without time to live.   *)
Forever == LastTick + HitWindow + FailureWindow + 1
Absent == [n |-> 0, until |-> Forever]

UnderWay(r) == attempt[r].pc \notin {"new", "end"}

(* Whom the start of r makes sign-ins that are not alone.                  *)
Overlapping(r) ==
  LET others == {q \in Attempts \ {r} : UnderWay(q)}
  IN IF others = {} THEN {} ELSE others \union {r}

LimitTypeOK ==
  /\ now \in 0 .. LastTick
  /\ \A key \in {hits, failures} : key.n \in Nat /\ key.until \in 0 .. Forever
  /\ \A r \in Attempts : attempt[r].pc \in {"new", "expire_hits", "locked", "verify", "count",
                                            "expire_failures", "reset", "end"}

LimitInit ==
  /\ now = 0 /\ hits = Absent /\ failures = Absent
  /\ attempt = [r \in Attempts |-> [pc |-> "new"]]
  /\ admitted = [r \in Attempts |-> Forever]
  /\ lost = {} /\ late = {} /\ excused = {} /\ outages = 0

Goto(r, pc) == attempt' = [attempt EXCEPT ![r].pc = pc]

(* Fault: the answer of INCR is taken for the count before it.             *)
FirstIfZero(n) == n = 0

(* INCR answered with n: is this the command that created the counter?     *)
First(n) == n = 1

---------------------------------------------------------------------------
(* check_rate_limit *)

(* Fault: one request more than the limit passes.                          *)
TooManyByOne(n) == n > HitLimit + 1

TooMany(n) == n > HitLimit

CountHit(r) ==
  /\ attempt[r].pc = "new"
  /\ LET n == hits.n + 1
     IN /\ hits' = [hits EXCEPT !.n = n]
        /\ Goto(r, IF First(n) THEN "expire_hits" ELSE IF TooMany(n) THEN "end" ELSE "locked")
        /\ admitted' = IF TooMany(n) THEN admitted ELSE [admitted EXCEPT ![r] = now]
  /\ excused' = excused \union Overlapping(r)
  /\ UNCHANGED <<now, failures, lost, late, outages>>

(* The time to live; EXPIRE of a counter that is gone does nothing.        *)
ExpireHits(r) ==
  /\ attempt[r].pc = "expire_hits"
  /\ hits' = IF hits.n = 0 THEN hits ELSE [hits EXCEPT !.until = now + HitWindow]
  /\ Goto(r, "locked")
  /\ UNCHANGED <<now, failures, admitted, lost, late, excused, outages>>

---------------------------------------------------------------------------
(* check_account_lockout, the password, and what becomes of the failures *)

(* Fault: the account is locked one failure late.                          *)
LockedLate(n) == n > FailureLimit

Locked(n) == n >= FailureLimit

CheckLockout(r) ==
  /\ attempt[r].pc = "locked"
  /\ Goto(r, IF Locked(failures.n) THEN "end" ELSE "verify")
  /\ UNCHANGED <<now, hits, failures, admitted, lost, late, excused, outages>>

VerifyPassword(r) ==
  /\ attempt[r].pc = "verify"
  /\ \E right \in BOOLEAN : Goto(r, IF right THEN "reset" ELSE "count")
  /\ late' = late \union {q \in {r} : failures.n >= FailureLimit}
  /\ UNCHANGED <<now, hits, failures, admitted, lost, excused, outages>>

CountFailure(r) ==
  /\ attempt[r].pc = "count"
  /\ failures' = [failures EXCEPT !.n = @ + 1]
  /\ Goto(r, IF First(failures.n + 1) THEN "expire_failures" ELSE "end")
  /\ UNCHANGED <<now, hits, admitted, lost, late, excused, outages>>

ExpireFailures(r) ==
  /\ attempt[r].pc = "expire_failures"
  /\ failures' = IF failures.n = 0 THEN failures
                 ELSE [failures EXCEPT !.until = now + FailureWindow]
  /\ Goto(r, "end")
  /\ UNCHANGED <<now, hits, admitted, lost, late, excused, outages>>

ResetFailures(r) ==
  /\ attempt[r].pc = "reset"
  /\ failures' = Absent /\ lost' = lost \ {"failures"}
  /\ Goto(r, "end")
  /\ UNCHANGED <<now, hits, admitted, late, excused, outages>>

---------------------------------------------------------------------------
(* Failures, and time. *)

ExpiryLost(r) ==
  {key \in {"hits", "failures"} : attempt[r].pc = IF key = "hits" THEN "expire_hits"
                                                  ELSE "expire_failures"}

(* A command fails, and the sign-in goes on as if it had not been there.   *)
CommandFails(r) ==
  /\ outages < MaxOutages /\ outages' = outages + 1
  /\ \/ attempt[r].pc \in {"new", "expire_hits"} /\ Goto(r, "locked")
     \/ attempt[r].pc = "locked" /\ Goto(r, "verify")
     \/ attempt[r].pc \in {"count", "expire_failures", "reset"} /\ Goto(r, "end")
  /\ lost' = lost \union ExpiryLost(r)
  /\ excused' = excused \union {q \in {r} : attempt[r].pc = "locked"}
                        \union (IF attempt[r].pc = "new" THEN Overlapping(r) ELSE {})
  /\ UNCHANGED <<now, hits, failures, admitted, late>>

(* The process that serves the sign-in dies.                               *)
KillAttempt(r) ==
  /\ UnderWay(r) /\ outages < MaxOutages /\ outages' = outages + 1
  /\ Goto(r, "end")
  /\ lost' = lost \union ExpiryLost(r)
  /\ UNCHANGED <<now, hits, failures, admitted, late, excused>>

Lives(key) == IF key.until <= now + 1 THEN Absent ELSE key

LimitTick ==
  /\ now < LastTick /\ now' = now + 1
  /\ hits' = Lives(hits) /\ failures' = Lives(failures)
  /\ UNCHANGED <<attempt, admitted, lost, late, excused, outages>>

LimitNext ==
  \/ \E r \in Attempts : CountHit(r) \/ ExpireHits(r) \/ CheckLockout(r) \/ VerifyPassword(r)
                         \/ CountFailure(r) \/ ExpireFailures(r) \/ ResetFailures(r)
                         \/ CommandFails(r) \/ KillAttempt(r)
  \/ LimitTick

---------------------------------------------------------------------------
(* A counter ends within its window, or somebody is about to see to it,    *)
(* or the command that would have was lost: then, and only then, a client  *)
(* or an account may be refused for ever (rate_limit.py:24-26, 62-64).     *)
CountersEnd ==
  /\ \/ hits.n = 0 \/ hits.until <= now + HitWindow \/ "hits" \in lost
     \/ \E r \in Attempts : attempt[r].pc = "expire_hits"
  /\ \/ failures.n = 0 \/ failures.until <= now + FailureWindow \/ "failures" \in lost
     \/ \E r \in Attempts : attempt[r].pc = "expire_failures"

(* A window is fixed by its first request, and so HitWindow ticks may see  *)
(* the end of one and the start of the next; but not the request that      *)
(* opened the first, and so never as many as twice the limit               *)
(* (rate_limit.py:17-35).                                                  *)
BurstBounded ==
  \A t \in 0 .. LastTick :
    Cardinality({r \in Attempts : admitted[r] \in t .. (t + HitWindow - 1)}) < 2 * HitLimit

(* A password is looked at while the account is locked only for a sign-in  *)
(* that could not read the counter, or one that was under way together     *)
(* with others: the counter is read before the password is looked at and   *)
(* written after (auth.py:91-101).                                         *)
LockedUnlessTogether == late \subseteq excused

(* Both limits hold, and both end (rate_limit.py, auth.py:87-114).         *)
LimitsHold ==
  LimitTypeOK /\ CountersEnd /\ BurstBounded /\ LockedUnlessTogether
=============================================================================
