---------------------------- MODULE RefreshTokens ----------------------------
(***************************************************************************)
(* The refresh tokens of one user (routers/auth.py:114-218).  A sign-in    *)
(* stores a token, a refresh exchanges one for another, a sign-out revokes *)
(* them all; each is one transaction that reads and later writes.          *)
(*                                                                         *)
(* A token's text is made of the user and the second in which it expires   *)
(* (security.py:28-35): two issued in one second are one and the same.     *)
(* Here it is the tick of issue.  Rows are told apart by who made them.    *)
(***************************************************************************)
EXTENDS Integers, FiniteSets

CONSTANTS
  SignIns,    \* sign-in requests
  Refreshes,  \* refresh requests
  SignOuts,   \* sign-out requests
  Life,       \* ticks for which a token is good: seven days
  EndOfTime   \* bound: time

ASSUME TokenAssumption ==
  /\ Life \in Nat \ {0} /\ EndOfTime \in Nat
  /\ SignIns \intersect Refreshes = {}
  /\ SignOuts \intersect (SignIns \union Refreshes) = {}

VARIABLES
  clock,      \* time
  tokens,     \* committed rows: who made it, the text, whether it is revoked
  request,    \* all requests
  (* history, guards nothing *)
  parent,     \* refresh -> the row it was handed in exchange for
  overlap     \* pairs of requests that were between their read and their commit together

tokenVars == <<clock, tokens, request, parent, overlap>>

TokenRequests == SignIns \union Refreshes \union SignOuts
Token(by, text) == [by |-> by, text |-> text, revoked |-> FALSE]
Issued == {t.text : t \in tokens}
Open(r) == request[r].pc = "commit"

TokenTypeOK ==
  /\ clock \in 0 .. EndOfTime
  /\ \A t \in tokens : t.by \in SignIns \union Refreshes /\ t.text \in 0 .. clock
                       /\ t.revoked \in BOOLEAN
  /\ \A r \in TokenRequests : request[r].pc \in {"new", "commit", "done", "refused"}
                              /\ request[r].rows \subseteq SignIns \union Refreshes

TokenInit ==
  /\ clock = 0 /\ tokens = {}
  /\ request = [r \in TokenRequests |-> [pc |-> "new", rows |-> {}, text |-> 0]]
  /\ parent = {} /\ overlap = {}

(* A request reads, and is from now on in flight with those that are.      *)
Opened(r, rows, text) ==
  /\ request' = [request EXCEPT ![r] = [pc |-> "commit", rows |-> rows, text |-> text]]
  /\ overlap' = overlap \union {{r, q} : q \in {q \in TokenRequests : Open(q)}}

Finished(r) == request' = [request EXCEPT ![r].pc = "done"]

(* Fault: a sign-out revokes one row.                                      *)
RevokedOne(t, rows) == t.by \in rows /\ t.by = CHOOSE b \in rows : TRUE

(* A flush sets revoked_at of the rows that were loaded live.              *)
Revoked(t, rows) == t.by \in rows

After(rows) == {[t EXCEPT !.revoked = @ \/ Revoked(t, rows)] : t \in tokens}

---------------------------------------------------------------------------
(* The password was right: see SignInLimits for what comes before.         *)
SignIn(r) ==
  /\ r \in SignIns /\ request[r].pc = "new"
  /\ tokens' = tokens \union {Token(r, clock)}
  /\ Finished(r)
  /\ UNCHANGED <<clock, parent, overlap>>

(* Fault: revoked rows are not left out.                                   *)
LiveIfUnexpired(t) == clock < t.text + Life

(* Fault: the row's expiry is not asked.                                   *)
LiveIfUnrevoked(t) == ~ t.revoked

Live(t) == ~ t.revoked /\ clock < t.text + Life

(* A text that was issued is presented: the first live row it fits, in no  *)
(* particular order, is exchanged; without one the request is refused.     *)
PresentToken(r) ==
  /\ r \in Refreshes /\ request[r].pc = "new"
  /\ \E text \in Issued :
       LET fits == {t \in tokens : Live(t) /\ t.text = text}
       IN \/ \E t \in fits : Opened(r, {t.by}, text)
          \/ /\ fits = {}
             /\ request' = [request EXCEPT ![r] = [pc |-> "refused", rows |-> {}, text |-> text]]
             /\ UNCHANGED overlap
  /\ UNCHANGED <<clock, tokens, parent>>

(* Fault: the old token stays as it is.                                    *)
ExchangedKeepingOld(r) == tokens \union {Token(r, clock)}

Exchanged(r) == After(request[r].rows) \union {Token(r, clock)}

ExchangeToken(r) ==
  /\ r \in Refreshes /\ Open(r)
  /\ tokens' = Exchanged(r)
  /\ parent' = parent \union {<<r, row>> : row \in request[r].rows}
  /\ Finished(r)
  /\ UNCHANGED <<clock, overlap>>

LoadForSignOut(r) ==
  /\ r \in SignOuts /\ request[r].pc = "new" /\ tokens # {}
  /\ Opened(r, {t.by : t \in {t \in tokens : ~ t.revoked}}, clock)
  /\ UNCHANGED <<clock, tokens, parent>>

SignOut(r) ==
  /\ r \in SignOuts /\ Open(r)
  /\ tokens' = After(request[r].rows)
  /\ Finished(r)
  /\ UNCHANGED <<clock, parent, overlap>>

(* External: time.  A request does not last as long as a token's life.     *)
ClockTicks ==
  /\ clock < EndOfTime /\ clock' = clock + 1
  /\ \A r \in TokenRequests : Open(r) => clock < request[r].text + Life
  /\ UNCHANGED <<tokens, request, parent, overlap>>

TokenNext ==
  \/ \E r \in TokenRequests :
       SignIn(r) \/ PresentToken(r) \/ ExchangeToken(r) \/ LoadForSignOut(r) \/ SignOut(r)
  \/ ClockTicks

---------------------------------------------------------------------------
(* A row is exchanged once, unless two refreshes had both read it before   *)
(* either committed (auth.py:160-183).                                     *)
ExchangedOnce ==
  \A p, q \in parent : p[2] = q[2] => p = q \/ {p[1], q[1]} \in overlap

(* What is still good after a sign-out has nothing to do with what was     *)
(* good before it, except through a refresh that the sign-out overtook:    *)
(* auth.py:204-208 revokes the rows it saw.                                *)
SignOutComplete ==
  \A out \in SignOuts : request[out].pc = "done" =>
    \A t \in tokens : \A row \in request[out].rows :
      \/ t.by # row /\ <<t.by, row>> \notin parent
      \/ t.revoked \/ {t.by, out} \in overlap

(* There are as many live tokens as sign-ins, at the most, unless two      *)
(* refreshes overlapped: each exchange takes one and gives one             *)
(* (auth.py:171-183).                                                      *)
LivePerSignIn ==
  \/ Cardinality({t \in tokens : Live(t)}) <= Cardinality({r \in SignIns : request[r].pc = "done"})
  \/ \E f, g \in Refreshes : f # g /\ {f, g} \in overlap

(* A token is exchanged within its life, up to the length of a request.    *)
ExchangedWithinLife ==
  \A r \in Refreshes : request[r].pc = "done" =>
    \A t \in tokens : t.by = r => t.text <= request[r].text + Life

(* The rotation as a whole: tokens are handed on one for one, within their *)
(* lives, and not past a sign-out (auth.py:145-218).                       *)
TokensSound ==
  TokenTypeOK /\ ExchangedOnce /\ SignOutComplete /\ LivePerSignIn /\ ExchangedWithinLife
=============================================================================
