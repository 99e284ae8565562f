---------------------------- MODULE ExitSurveys ----------------------------
(***************************************************************************)
(* Exit surveys (core/surveys/engine.py:48-84) and the report that holds   *)
(* the reasons customers state against the reasons their features suggest  *)
(* (core/analytics/attribution.py:141-216).  A submission adds a survey    *)
(* and copies its reason to the customer; the report reads the surveys in  *)
(* one statement and the features of each customer in another, while       *)
(* training stores features.                                               *)
(***************************************************************************)
EXTENDS Integers, FiniteSets

CONSTANTS
  Leavers,     \* customers of the tenant
  Elsewhere,   \* customers of other tenants
  Reasons,     \* reason categories that submissions carry
  NoReason,    \* a customer's stated_churn_reason before any
  Submissions, \* requests that submit a survey
  Validations, \* requests for the report
  Portraits,   \* feature rows that training may store
  MaxPortraits \* bound: feature rows stored

(* Training stores no count of tickets under the name the report reads.    *)
ASSUME SurveyAssumption ==
  NoReason \notin Reasons /\ Leavers \intersect Elsewhere = {} /\ \A f \in Portraits : f.tickets = 0

(* Whom a survey may be about: the table wants a customer, of any tenant.  *)
Surveyed == Leavers \union Elsewhere

VARIABLES
  surveys,   \* committed exit_surveys rows
  stated,    \* the stated_churn_reason of each customer
  portrait,  \* the newest churn_features row of each customer, {} when none
  submit, validation,  \* the requests
  (* history, guards nothing but the bounds *)
  lastReason, \* the reason of each customer's last survey
  rivals,     \* customers for whom two were submitting at once
  portrayed   \* feature rows stored

surveyVars == <<surveys, stated, portrait, submit, validation, lastReason, rivals, portrayed>>

SurveyTypeOK ==
  /\ \A s \in surveys : s.by \in Submissions /\ s.who \in Surveyed /\ s.reason \in Reasons
  /\ stated \in [Leavers -> Reasons \union {NoReason}]
  /\ \A c \in Leavers : portrait[c] \subseteq Portraits /\ Cardinality(portrait[c]) <= 1
  /\ \A r \in Submissions : submit[r].pc \in {"new", "write", "done", "failed"}
  /\ \A v \in Validations : validation[v].pc \in {"new", "judge", "done"}

SurveyInit ==
  /\ surveys = {} /\ stated = [c \in Leavers |-> NoReason] /\ portrait = [c \in Leavers |-> {}]
  /\ submit = [r \in Submissions |-> [pc |-> "new"]]
  /\ validation = [v \in Validations |-> [pc |-> "new", of |-> {}, left |-> {}, judged |-> {}, since |-> 0]]
  /\ lastReason = stated /\ rivals = {} /\ portrayed = 0

---------------------------------------------------------------------------
(* Submitting: the survey is added and the customer of the tenant loaded,  *)
(* then both are committed together.  No such customer, no reason.         *)

LoadLeaver(r) ==
  /\ submit[r].pc = "new"
  /\ \E c \in Surveyed, reason \in Reasons :
       /\ submit' = [submit EXCEPT ![r] =
            [pc |-> "write", who |-> c, reason |-> reason, was |-> IF c \in Leavers THEN stated[c] ELSE NoReason]]
       /\ rivals' = rivals \union {d \in {c} : \E q \in Submissions : submit[q].pc = "write" /\ submit[q].who = c}
  /\ UNCHANGED <<surveys, stated, portrait, validation, lastReason, portrayed>>

(* Of a customer that is in no table, the survey is not taken.             *)
LoadNobody(r) ==
  /\ submit[r].pc = "new" /\ submit' = [submit EXCEPT ![r] = [pc |-> "failed"]]
  /\ UNCHANGED <<surveys, stated, portrait, validation, lastReason, rivals, portrayed>>

(* Fault: the first reason a customer states stays.                        *)
RestatedOnce(now, was, asked) == IF was # NoReason THEN now ELSE asked

(* A flush writes the reason if it differs from the one that was loaded.   *)
Restated(now, was, asked) == IF asked = was THEN now ELSE asked

SubmitSurvey(r) ==
  /\ submit[r].pc = "write"
  /\ LET c == submit[r].who
         reason == submit[r].reason
     IN /\ surveys' = surveys \union {[by |-> r, who |-> c, reason |-> reason]}
        /\ stated' = [d \in Leavers |-> IF d = c THEN Restated(stated[c], submit[r].was, reason) ELSE stated[d]]
        /\ lastReason' = [d \in Leavers |-> IF d = c THEN reason ELSE lastReason[d]]
  /\ submit' = [submit EXCEPT ![r] = [pc |-> "done"]]
  /\ UNCHANGED <<portrait, validation, rivals, portrayed>>

---------------------------------------------------------------------------
(* The report. *)

StorePortrait(c) ==
  /\ portrayed < MaxPortraits /\ portrayed' = portrayed + 1
  /\ \E f \in Portraits : portrait' = [portrait EXCEPT ![c] = {f}]
  /\ UNCHANGED <<surveys, stated, submit, validation, lastReason, rivals>>

(* The reason that the features suggest.                                   *)
Suggested(f) ==
  IF f.failed > 0 THEN "price" ELSE IF f.silent > 14 THEN "usability"
  ELSE IF f.tickets > 2 THEN "poor_support" ELSE "usability"

(* Without a row, usage is taken to have declined.                         *)
SuggestedFor(c) == IF c \notin Leavers \/ portrait[c] = {} THEN "usability" ELSE Suggested(CHOOSE f \in portrait[c] : TRUE)

ListSurveys(v) ==
  /\ validation[v].pc = "new"
  /\ validation' = [validation EXCEPT ![v] =
       [pc |-> IF surveys = {} THEN "done" ELSE "judge", of |-> surveys, left |-> surveys,
        judged |-> {}, since |-> portrayed]]
  /\ UNCHANGED <<surveys, stated, portrait, submit, lastReason, rivals, portrayed>>

(* Fault: a survey of a customer without features is passed over.          *)
JudgedIfPortrayed(s) ==
  IF s.who \in Elsewhere \/ portrait[s.who] = {} THEN {} ELSE {[survey |-> s, suggested |-> SuggestedFor(s.who)]}

Judged(s) == {[survey |-> s, suggested |-> SuggestedFor(s.who)]}

(* A report that has judged one survey more; at the last, its history is   *)
(* how many feature rows were stored since it began.                       *)
Further(report, s) ==
  LET last == report.left = {s}
  IN [pc |-> IF last THEN "done" ELSE "judge", of |-> report.of, left |-> report.left \ {s},
      judged |-> report.judged \union Judged(s),
      since |-> IF last THEN portrayed - report.since ELSE report.since]

JudgeSurvey(v, s) ==
  /\ validation[v].pc = "judge" /\ s \in validation[v].left
  /\ validation' = [validation EXCEPT ![v] = Further(validation[v], s)]
  /\ UNCHANGED <<surveys, stated, portrait, submit, lastReason, rivals, portrayed>>

SurveyNext ==
  \/ \E r \in Submissions : LoadLeaver(r) \/ LoadNobody(r) \/ SubmitSurvey(r)
  \/ \E c \in Leavers : StorePortrait(c)
  \/ \E v \in Validations : ListSurveys(v) \/ \E s \in validation[v].left : JudgeSurvey(v, s)

---------------------------------------------------------------------------
(* A customer has a stated reason once a survey was submitted, and always  *)
(* one that a survey of the customer gave, whoever else surveys name; it   *)
(* is that of the last survey, unless two were submitted for the customer  *)
(* at once (engine.py:71-83).                                              *)
ReasonIsStated ==
  \A c \in Leavers :
    /\ stated[c] \in {s.reason : s \in {s \in surveys : s.who = c}}
         \union IF \E s \in surveys : s.who = c THEN {} ELSE {NoReason}
    /\ stated[c] = lastReason[c] \/ c \in rivals

Agreeing(v) == {d \in validation[v].judged : d.suggested = d.survey.reason}

(* A finished report judges every survey there was, once; judges surveys   *)
(* of one customer alike unless features were stored while it ran; and     *)
(* agrees only with reasons of price and usability, whatever customers     *)
(* state: there are no tickets to suggest another (attribution.py:148-205).*)
ReportWhole ==
  \A v \in Validations : validation[v].pc = "done" =>
    /\ {d.survey : d \in validation[v].judged} = validation[v].of
    /\ Cardinality(validation[v].judged) = Cardinality(validation[v].of)
    /\ \A d, e \in validation[v].judged :
         d.survey.who = e.survey.who => d.suggested = e.suggested \/ validation[v].since > 0
    /\ {d.survey.reason : d \in Agreeing(v)} \subseteq {"price", "usability"}

(* Exit surveys as a whole (surveys/engine.py, attribution.py:141-216).    *)
SurveysSound == SurveyTypeOK /\ ReasonIsStated /\ ReportWhole
=============================================================================
