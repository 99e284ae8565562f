-------------------------- MODULE ExpansionSignal --------------------------
(***************************************************************************)
(* The expansion signal of one customer: the request that computes it anew *)
(* and stores it (routers/health.py:177-221) and the nightly job that      *)
(* stores it too (worker.py:40-120).  Both load the row, predict, and      *)
(* write the columns they changed; both fall back when the model fails,    *)
(* each in its own way.                                                    *)
(*                                                                         *)
(* Probabilities and slopes are percents; a time stamp is the number of    *)
(* the computation that took it.                                           *)
(***************************************************************************)
EXTENDS Integers

CONSTANTS
  Traits,      \* what the customer's features may be
  Unpredicted, \* the columns before the first computation
  Predictions, \* what the model may answer
  SignalAsks,  \* requests
  SignalNights, \* runs of the nightly job
  MaxStamps    \* bound: time stamps, past which no run is killed

ASSUME ExpansionAssumption ==
  /\ Traits \subseteq [seats : Int, slope : Int, used : Int, premium : BOOLEAN]
  /\ Predictions \subseteq 0 .. 100 /\ Unpredicted \notin Predictions /\ SignalAsks \cap SignalNights = {}

VARIABLES
  stored,   \* the customer's expansion_probability and expansion_computed_at
  stamps,   \* time stamps taken
  writer,   \* the requests and the runs
  (* history, guards nothing *)
  contended   \* whether two writers were at work at once

expansionVars == <<stored, stamps, writer, contended>>

Writers == SignalAsks \union SignalNights

ExpansionTypeOK ==
  /\ stored.p \in 0 .. 100 \union {Unpredicted} /\ stored.at \in 0 .. stamps
  /\ \A w \in Writers : writer[w].pc \in {"new", "load", "predict", "save", "done"}

ExpansionInit ==
  /\ stored = [p |-> Unpredicted, at |-> 0] /\ stamps = 0
  /\ writer = [w \in Writers |-> [pc |-> "new"]]
  /\ contended = FALSE

---------------------------------------------------------------------------
(* Fault: without a bound.                                                 *)
Unclamped(n) == n

Clamped(n) == IF n < 5 THEN 5 ELSE IF n > 95 THEN 95 ELSE n

Estimate(f) == Clamped(20 + 20 * f.seats + (30 * f.slope) \div 100)

(* Fault: usage is looked at before seats.                                 *)
UpsellByUsage(f) ==
  IF f.slope > 10 \/ f.used > 8 THEN (IF f.premium THEN "addon" ELSE "tier_upgrade")
  ELSE IF f.seats > 0 THEN "seat_expansion" ELSE "cross_sell"

Upsell(f) ==
  IF f.seats > 0 THEN "seat_expansion"
  ELSE IF f.slope > 10 \/ f.used > 8 THEN (IF f.premium THEN "addon" ELSE "tier_upgrade")
  ELSE "cross_sell"

UpsellWithoutModel(f) == IF f.seats > 0 THEN "seat_expansion" ELSE "tier_upgrade"

(* The request loads the row and then takes its time stamp; the job takes  *)
(* its own before it loads anything.                                       *)
BeginSignal(w) ==
  /\ writer[w].pc = "new"
  /\ stamps' = stamps + 1
  /\ writer' = [writer EXCEPT ![w] =
       IF w \in SignalAsks THEN [pc |-> "predict", at |-> stamps + 1, was |-> stored]
       ELSE [pc |-> "load", at |-> stamps + 1]]
  /\ contended' = (contended \/ \E v \in Writers : writer[v].pc \notin {"new", "done"})
  /\ UNCHANGED stored

LoadForNight(w) ==
  /\ writer[w].pc = "load"
  /\ writer' = [writer EXCEPT ![w] = [pc |-> "predict", at |-> @.at, was |-> stored]]
  /\ UNCHANGED <<stored, stamps, contended>>

(* What a writer answers: the model's word, or its own when that fails.    *)
Answers(w, f) ==
  {[p |-> p, type |-> Upsell(f), failed |-> FALSE] : p \in Predictions}
  \union {IF w \in SignalAsks THEN [p |-> Estimate(f), type |-> UpsellWithoutModel(f), failed |-> TRUE]
          ELSE [p |-> 10, type |-> Upsell(f), failed |-> TRUE]}

Foresee(w) ==
  /\ writer[w].pc = "predict"
  /\ \E f \in Traits : \E a \in Answers(w, f) :
       writer' = [writer EXCEPT ![w] = [pc |-> "save", at |-> @.at, was |-> @.was, of |-> f, answer |-> a]]
  /\ UNCHANGED <<stored, stamps, contended>>

(* Fault: only the probability is written.                                 *)
WrittenUnstamped(row, w) == [row EXCEPT !.p = writer[w].answer.p]

(* A flush writes the columns that differ from the row as loaded.          *)
WrittenBy(row, w) ==
  [p |-> IF writer[w].answer.p = writer[w].was.p THEN row.p ELSE writer[w].answer.p,
   at |-> writer[w].at]

SaveSignal(w) ==
  /\ writer[w].pc = "save"
  /\ stored' = WrittenBy(stored, w)
  /\ writer' = [writer EXCEPT ![w] = [pc |-> "done", at |-> @.at, of |-> @.of, answer |-> @.answer]]
  /\ UNCHANGED <<stamps, contended>>

(* The night's run loses its transaction: the worker is killed.            *)
KillNight(w) ==
  /\ w \in SignalNights /\ writer[w].pc \in {"load", "predict", "save"} /\ stamps < MaxStamps
  /\ writer' = [writer EXCEPT ![w] = [pc |-> "new"]]
  /\ UNCHANGED <<stored, stamps, contended>>

ExpansionNext ==
  \E w \in Writers : \/ BeginSignal(w) \/ LoadForNight(w) \/ Foresee(w) \/ SaveSignal(w)
                     \/ KillNight(w)

---------------------------------------------------------------------------
(* The stored probability and its time stamp belong together, and are      *)
(* those of the newest computation that was stored, unless two writers     *)
(* were at work at once: the one may then leave the other's probability    *)
(* under its own time, or an older pair over a newer (health.py:212-215).  *)
PairComputed ==
  ~contended =>
    LET saved == {w \in Writers : writer[w].pc = "done"}
    IN /\ \A w \in saved : writer[w].at <= stored.at
       /\ \A w \in saved : writer[w].at = stored.at => writer[w].answer.p = stored.p
       /\ saved = {} <=> stored.at = 0

(* With the model and without it, more seats are what is suggested exactly *)
(* when seats increase, and an estimate made without the model leaves room *)
(* for doubt (health.py:203-210, expansion.py:80-91).                      *)
SeatsSuggested ==
  \A w \in SignalAsks : writer[w].pc \in {"save", "done"} =>
    LET a == writer[w].answer
    IN /\ a.type = "seat_expansion" <=> writer[w].of.seats > 0
       /\ a.failed => a.p \in 5 .. 95
       /\ a.type = "tier_upgrade" /\ writer[w].of.premium => a.failed

(* The expansion signal as a whole (health.py:177-221).                    *)
ExpansionSound == ExpansionTypeOK /\ PairComputed /\ SeatsSuggested
=============================================================================
