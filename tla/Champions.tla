----------------------------- MODULE Champions ------------------------------
(***************************************************************************)
(* The contacts of one account and the anomaly that is recorded when one   *)
(* of its champions goes quiet (routers/champions.py, analytics/champion.  *)
(* py).  A status request evaluates the champions: it loads them, looks,   *)
(* champion by champion, for an open anomaly of the last day, commits the  *)
(* new ones and announces them.  Contacts are saved by other requests.     *)
(*                                                                         *)
(* Days are the unit of time.                                              *)
(***************************************************************************)
EXTENDS Integers, FiniteSets

CONSTANTS
  Emails,        \* addresses that contacts are saved under
  Checks,        \* status requests
  Saves,         \* requests that save a contact
  Quiet,         \* days without activity that make a champion inactive
  Debounce,      \* days for which an open anomaly keeps others back
  LastDay,       \* bound: time
  MaxResolved,   \* bound: anomalies resolved by hand
  MaxCheckKills  \* bound: status requests that die

ASSUME ChampionAssumption ==
  /\ Quiet \in Nat \ {0} /\ Debounce \in Nat /\ LastDay \in Nat

VARIABLES
  day,        \* time
  contacts,   \* account_contacts rows
  concerns,   \* committed `champion_change' anomalies
  check,      \* the status requests
  save,       \* the saving requests
  (* history, guards nothing but the bounds *)
  announced,  \* anomalies that were published
  together,   \* pairs of status requests that were under way at once
  twiceSaved, \* addresses that two requests were saving at once
  resolutions, checkKills

championVars == <<day, contacts, concerns, check, save, announced, together, twiceSaved,
                  resolutions, checkKills>>

Judging == {"judge", "commit"}
Waiting == [pc |-> "new", now |-> 0, champions |-> {}, left |-> {}, new |-> {}]

(* Rows are told apart by the request that inserted them.  `reachable' is  *)
(* is_active and not bounced, `seen' the last confirmed activity.          *)
Contact(e, by, champion, reachable, seen) ==
  [email |-> e, by |-> by, champion |-> champion, reachable |-> reachable, seen |-> seen]

ChampionTypeOK ==
  /\ day \in 0 .. LastDay
  /\ \A c \in contacts : c.email \in Emails /\ c.seen \in 0 .. LastDay
  /\ \A a \in concerns : a.by \in Checks /\ a.at \in 0 .. LastDay /\ a.resolved \in BOOLEAN
  /\ \A r \in Checks : check[r].pc \in {"new", "judge", "commit", "publish", "done", "dead"}
  /\ \A s \in Saves : save[s].pc \in {"new", "write", "done"}

(* One champion is known from the start, under any of the addresses.       *)
ChampionInit ==
  /\ day = 0
  /\ \E e \in Emails : contacts = {Contact(e, "start", TRUE, TRUE, 0)}
  /\ concerns = {} /\ check = [r \in Checks |-> Waiting]
  /\ save = [s \in Saves |-> [pc |-> "new"]]
  /\ announced = {} /\ together = {} /\ twiceSaved = {} /\ resolutions = 0 /\ checkKills = 0

---------------------------------------------------------------------------
(* Evaluating the champions. *)

StartCheck(r) ==
  /\ check[r].pc = "new"
  /\ LET champions == {c \in contacts : c.champion}
     IN check' = [check EXCEPT ![r] = [@ EXCEPT
                    !.pc = IF champions = {} THEN "done" ELSE "judge",
                    !.now = day, !.champions = champions, !.left = champions]]
  /\ together' = together \union {{r, q} : q \in {q \in Checks : check[q].pc \in Judging}}
  /\ UNCHANGED <<day, contacts, concerns, save, announced, twiceSaved, resolutions, checkKills>>

(* Fault: a champion is inactive one day late.                             *)
InactiveLate(c, now) == ~ c.reachable \/ now - c.seen > Quiet

(* Nobody else's activity is asked for, though the docstring reports a     *)
(* quiet champion only "while other account users are active" (champion.py:*)
(* 19-21): one of an account in which all are quiet is reported as well.   *)
Inactive(c, now) == ~ c.reachable \/ now - c.seen >= Quiet

(* Fault: the request does not see the anomalies it has added itself.      *)
SeenWithoutFlush(r) == concerns

(* What the request's query returns: the flush before it has sent the      *)
(* anomalies it has added.                                                 *)
Seen(r) == concerns \union check[r].new

Debounced(r) == \E a \in Seen(r) : ~ a.resolved /\ a.at >= check[r].now - Debounce

JudgeChampion(r, c) ==
  /\ check[r].pc = "judge" /\ c \in check[r].left
  /\ LET anomaly == [by |-> r, about |-> c.email, from |-> c.by, at |-> check[r].now, resolved |-> FALSE]
         new == IF Inactive(c, check[r].now) /\ ~ Debounced(r) THEN {anomaly} ELSE {}
         left == check[r].left \ {c}
     IN check' = [check EXCEPT ![r] = [@ EXCEPT
                    !.left = left, !.new = check[r].new \union new,
                    !.pc = IF left # {} THEN "judge"
                           ELSE IF check[r].new \union new = {} THEN "done" ELSE "commit"]]
  /\ UNCHANGED <<day, contacts, concerns, save, announced, together, twiceSaved, resolutions,
                 checkKills>>

(* Fault: anomalies are announced as they are added.                       *)
AnnouncedWhenAdded(r) == check[r].pc \in {"judge", "commit", "publish"} /\ check[r].new # {}

(* Anomalies are announced after the commit.                               *)
MayAnnounce(r) == check[r].pc = "publish"

CommitConcerns(r) ==
  /\ check[r].pc = "commit"
  /\ concerns' = concerns \union check[r].new
  /\ check' = [check EXCEPT ![r].pc = "publish"]
  /\ UNCHANGED <<day, contacts, save, announced, together, twiceSaved, resolutions, checkKills>>

Announce(r) ==
  /\ MayAnnounce(r)
  /\ announced' = announced \union {[a EXCEPT !.resolved = FALSE] : a \in check[r].new}
  /\ check' = [check EXCEPT ![r].pc = IF @ = "publish" THEN "done" ELSE @]
  /\ UNCHANGED <<day, contacts, concerns, save, together, twiceSaved, resolutions, checkKills>>

KillCheck(r) ==
  /\ check[r].pc \in {"judge", "commit", "publish"} /\ checkKills < MaxCheckKills
  /\ checkKills' = checkKills + 1
  /\ check' = [check EXCEPT ![r].pc = "dead"]
  /\ UNCHANGED <<day, contacts, concerns, save, announced, together, twiceSaved, resolutions>>

---------------------------------------------------------------------------
(* Saving a contact: look it up by address, then insert or update. *)

(* Fault: the row is looked for among the champions.                       *)
ChampionsAt(e) == {c \in contacts : c.email = e /\ c.champion}

RowsAt(e) == {c \in contacts : c.email = e}

LookUp(s) ==
  /\ save[s].pc = "new"
  /\ \E e \in Emails, champion, reachable \in BOOLEAN :
       /\ \E was \in IF RowsAt(e) = {} THEN {{}} ELSE {{c} : c \in RowsAt(e)} :
            save' = [save EXCEPT ![s] =
              [pc |-> "write", was |-> was, asked |-> Contact(e, s, champion, reachable, day)]]
       /\ twiceSaved' = twiceSaved \union
            {e2 \in {e} : \E q \in Saves : save[q].pc = "write" /\ save[q].asked.email = e}
  /\ UNCHANGED <<day, contacts, concerns, check, announced, together, resolutions, checkKills>>

(* A flush writes the columns that differ from the row as loaded; the last *)
(* activity is confirmed by a save that says the contact is reachable.     *)
Changed(row, was, asked) ==
  [row EXCEPT !.champion = IF asked.champion = was.champion THEN @ ELSE asked.champion,
              !.reachable = IF asked.reachable = was.reachable THEN @ ELSE asked.reachable,
              !.seen = IF asked.reachable THEN day ELSE @]

WriteContact(s) ==
  /\ save[s].pc = "write"
  /\ LET asked == save[s].asked
         was == save[s].was
     IN contacts' = IF was = {} THEN contacts \union {[asked EXCEPT !.seen = day]}
                    ELSE {IF \E w \in was : w.by = row.by THEN Changed(row, CHOOSE w \in was : TRUE, asked)
                          ELSE row : row \in contacts}
  /\ save' = [save EXCEPT ![s] = [pc |-> "done"]]
  /\ UNCHANGED <<day, concerns, check, announced, together, twiceSaved, resolutions, checkKills>>

---------------------------------------------------------------------------
(* External: anomalies are resolved on their own page, and time passes. *)

ResolveConcern ==
  /\ resolutions < MaxResolved /\ resolutions' = resolutions + 1
  /\ \E a \in concerns : ~ a.resolved
       /\ concerns' = (concerns \ {a}) \union {[a EXCEPT !.resolved = TRUE]}
  /\ UNCHANGED <<day, contacts, check, save, announced, together, twiceSaved, checkKills>>

(* A request does not last a day.                                          *)
DayPasses ==
  /\ day < LastDay /\ day' = day + 1
  /\ \A r \in Checks : check[r].pc \in {"new", "done", "dead"}
  /\ \A s \in Saves : save[s].pc # "write"
  /\ UNCHANGED <<contacts, concerns, check, save, announced, together, twiceSaved, resolutions,
                 checkKills>>

ChampionNext ==
  \/ \E r \in Checks : StartCheck(r) \/ CommitConcerns(r) \/ Announce(r) \/ KillCheck(r)
                       \/ \E c \in check[r].left : JudgeChampion(r, c)
  \/ \E s \in Saves : LookUp(s) \/ WriteContact(s)
  \/ ResolveConcern \/ DayPasses

---------------------------------------------------------------------------
(* An account has no two open champion anomalies within the debounce time, *)
(* whichever of its champions they are about, unless two evaluations ran   *)
(* at once (champion.py:56-69).                                            *)
OneConcernAtATime ==
  \A a, b \in concerns : \/ a = b \/ a.resolved \/ b.resolved
                         \/ a.at - b.at > Debounce \/ b.at - a.at > Debounce
                         \/ {a.by, b.by} \in together

(* Who follows the anomaly channel is told of nothing that is not stored   *)
(* (champion.py:93-96).                                                    *)
AnnouncedIsStored ==
  \A a \in announced : a \in concerns \/ [a EXCEPT !.resolved = TRUE] \in concerns

(* When an evaluation has ended, each champion that was out of reach or    *)
(* quiet for the full time has an anomaly of the account to show for it,   *)
(* its own or the one that kept it back, whether or not others of the      *)
(* account were active: the docstring's condition (champion.py:20) is not  *)
(* in the code (champion.py:45-71).                                        *)
QuietChampionReported ==
  \A r \in Checks : check[r].pc = "done" =>
    \A c \in check[r].champions :
      ~ c.reachable \/ check[r].now - c.seen >= Quiet =>
        \E a \in concerns : a.at >= check[r].now - Debounce

(* An address has one contact row, unless two requests were saving it at   *)
(* once: the table has no constraint that says so (champions.py:85-111).   *)
ContactPerEmail ==
  \A c, d \in contacts : c = d \/ c.email # d.email \/ c.email \in twiceSaved

(* Contacts and their evaluation as a whole: a quiet champion is reported, *)
(* once, and there is one row to judge by (champion.py, champions.py).     *)
ChampionsSound ==
  ChampionTypeOK /\ OneConcernAtATime /\ AnnouncedIsStored /\ QuietChampionReported /\ ContactPerEmail
=============================================================================
