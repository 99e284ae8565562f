--------------------------- MODULE Recommendations ---------------------------
(***************************************************************************)
(* The recommended interventions of one customer (core/ml/interventions.py *)
(* and routers/explanations.py).  A request predicts the customer's risk   *)
(* tier, looks for a cached answer under a key that does not name the      *)
(* tier, and asks the language model if there is none; an answer of the    *)
(* model is cached for a day.  Redis and the model may fail.  Texts are    *)
(* represented by the tier that the model was told and when.               *)
(***************************************************************************)
EXTENDS Integers, FiniteSets

CONSTANTS
  Asks,         \* requests for an explanation
  Tiers,        \* risk tiers
  CacheLife,    \* ticks that a cached answer lives: 86400 seconds
  LastHour,     \* bound: time
  MaxFailures,  \* bound: failures of Redis and of the model
  Fallback      \* the answer given when there is none of the model

ASSUME RecommendationAssumption ==
  /\ CacheLife \in Nat \ {0} /\ LastHour \in Nat /\ MaxFailures \in Nat /\ Fallback \notin Tiers

VARIABLES
  hour,      \* time
  tier,      \* what a prediction would say now
  cache,     \* the key in Redis, {} when absent: tier told, when, until
  ask,       \* the requests
  (* history, guards nothing but the bounds *)
  asked,     \* when, and for which request, the model gave an answer
  blind,     \* requests that could not read or write the cache
  beside,    \* requests that missed the cache while another was asking, and that other
  failed

recommendVars == <<hour, tier, cache, ask, asked, blind, beside, failed>>

Lost == LastHour + CacheLife + 1

RecommendTypeOK ==
  /\ hour \in 0 .. LastHour /\ tier \in Tiers /\ Cardinality(cache) <= 1
  /\ \A c \in cache : c.told \in Tiers \union {Fallback} /\ c.seen \in 0 .. hour /\ c.until \in 0 .. Lost
  /\ \A r \in Asks : /\ ask[r].pc \in {"new", "look", "ask", "keep", "done"}
                     /\ ask[r].answer \in Tiers \union {Fallback} /\ ask[r].seen \in 0 .. hour

RecommendInit ==
  /\ hour = 0 /\ tier \in Tiers /\ cache = {}
  /\ ask = [r \in Asks |-> [pc |-> "new", told |-> tier, began |-> 0, answer |-> Fallback, seen |-> 0, ended |-> 0]]
  /\ asked = {} /\ blind = {} /\ beside = {} /\ failed = 0

(* The answer for which the request ends, and when its tier was predicted. *)
Answered(r, answer, seen) ==
  ask' = [ask EXCEPT ![r] = [@ EXCEPT !.pc = "done", !.answer = answer, !.seen = seen, !.ended = hour]]

Asking == {q \in Asks : ask[q].pc \in {"ask", "keep"}}

---------------------------------------------------------------------------
(* Features, prediction and drivers.                                       *)
Predict(r) ==
  /\ ask[r].pc = "new"
  /\ ask' = [ask EXCEPT ![r] = [@ EXCEPT !.pc = "look", !.told = tier, !.began = hour]]
  /\ UNCHANGED <<hour, tier, cache, asked, blind, beside, failed>>

(* Fault: an answer is taken only if it is of this hour.                   *)
HitOfTheHour(c) == c.seen = hour

(* A cached answer is taken whatever tier it was given for.                *)
Hit(c) == TRUE

LookInCache(r) ==
  /\ ask[r].pc = "look"
  /\ \/ /\ \E c \in cache : Hit(c) /\ Answered(r, c.told, c.seen)
        /\ UNCHANGED beside
     \/ /\ \A c \in cache : ~ Hit(c)
        /\ ask' = [ask EXCEPT ![r].pc = "ask"]
        /\ beside' = beside \union (IF Asking = {} THEN {} ELSE Asking \union {r})
  /\ UNCHANGED <<hour, tier, cache, asked, blind, failed>>

AskModel(r) ==
  /\ ask[r].pc = "ask"
  /\ ask' = [ask EXCEPT ![r].pc = "keep"]
  /\ asked' = asked \union {<<r, hour>>}
  /\ UNCHANGED <<hour, tier, cache, blind, beside, failed>>

(* Fault: the answer is kept without an expiry.                            *)
KeptForGood(r) == {[told |-> ask[r].told, seen |-> ask[r].began, until |-> Lost]}

Kept(r) == {[told |-> ask[r].told, seen |-> ask[r].began, until |-> hour + CacheLife]}

KeepAnswer(r) ==
  /\ ask[r].pc = "keep"
  /\ cache' = Kept(r)
  /\ Answered(r, ask[r].told, ask[r].began)
  /\ UNCHANGED <<hour, tier, asked, blind, beside, failed>>

(* Fault: the answer of a failed request is kept too.                      *)
KeptFallback(r) == {[told |-> Fallback, seen |-> ask[r].began, until |-> hour + CacheLife]}

(* What a failed request leaves in the cache.                              *)
LeftByFailure(r) == cache

(* No key for the model, no answer, or one that does not fit the schema.   *)
ModelFails(r) ==
  /\ ask[r].pc = "ask" /\ failed < MaxFailures /\ failed' = failed + 1
  /\ cache' = LeftByFailure(r)
  /\ Answered(r, Fallback, hour)
  /\ UNCHANGED <<hour, tier, asked, blind, beside>>

(* Redis cannot be read, or cannot be written: the request goes on.        *)
RedisFails(r) ==
  /\ failed < MaxFailures /\ failed' = failed + 1
  /\ \/ ask[r].pc = "look" /\ ask' = [ask EXCEPT ![r].pc = "ask"]
     \/ ask[r].pc = "keep" /\ Answered(r, ask[r].told, ask[r].began)
  /\ blind' = blind \union {r}
  /\ UNCHANGED <<hour, tier, cache, asked, beside>>

(* External: events change what a prediction says, and time passes.  A     *)
(* request may see one tick pass.                                          *)
TierChanges ==
  /\ \E t \in Tiers \ {tier} : tier' = t
  /\ UNCHANGED <<hour, cache, ask, asked, blind, beside, failed>>

HourPasses ==
  /\ hour < LastHour /\ hour' = hour + 1
  /\ \A r \in Asks : ask[r].pc \in {"new", "done"} \/ ask[r].began = hour
  /\ cache' = {c \in cache : c.until > hour + 1}
  /\ UNCHANGED <<tier, ask, asked, blind, beside, failed>>

RecommendNext ==
  \/ \E r \in Asks : Predict(r) \/ LookInCache(r) \/ AskModel(r) \/ KeepAnswer(r)
                     \/ ModelFails(r) \/ RedisFails(r)
  \/ TierChanges \/ HourPasses

---------------------------------------------------------------------------
(* Nobody is given a recommendation that rests on a prediction older than  *)
(* a day and the length of two requests (interventions.py:80-86, 138).     *)
RecommendedOnRecentRisk ==
  \A r \in Asks : ask[r].pc = "done" => ask[r].ended - ask[r].seen <= CacheLife + 1

(* The model is asked once a day for a customer, unless a request could    *)
(* not use the cache, or two were asking at once (interventions.py:83-95). *)
AskedOnceADay ==
  \A p, q \in asked :
    p[2] <= q[2] /\ q[2] - p[2] < CacheLife => \/ p = q \/ {p[1], q[1]} \subseteq beside
                                              \/ {p[1], q[1]} \intersect blind # {}

(* The fallback is given for one failure and not for a day: whoever finds  *)
(* an answer in the cache finds one of the model (interventions.py:144).   *)
FallbackNotKept ==
  Cardinality({r \in Asks : ask[r].pc = "done" /\ ask[r].answer = Fallback}) <= failed

(* The cache as a whole: fresh enough, effective, and free of fallbacks    *)
(* (interventions.py:80-148).                                              *)
AdviceSound ==
  RecommendTypeOK /\ RecommendedOnRecentRisk /\ AskedOnceADay /\ FallbackNotKept
=============================================================================
