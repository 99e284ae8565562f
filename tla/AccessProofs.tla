----------------------------- MODULE AccessProofs -----------------------------
(***************************************************************************)
(* Proofs about the ways in and out: refresh tokens, API keys, the limits  *)
(* on sign-ins, and the integrations, custom ones with their circuit       *)
(* breaker and built-in ones.  Each has an inductive invariant and a       *)
(* theorem of its own, which speaks of the component alone; the theorems   *)
(* at the end carry them over to the module in which the components stand  *)
(* together.                                                               *)
(***************************************************************************)
EXTENDS MCRecords, TLAPS, FiniteSetTheorems

\* One element more is at most one element more.
LEMMA OneMore ==
  ASSUME NEW S, NEW e, IsFiniteSet(S)
  PROVE  /\ IsFiniteSet(S \union {e}) /\ Cardinality(S) \in Nat
         /\ Cardinality(S \union {e}) \in Nat /\ Cardinality(S \union {e}) <= Cardinality(S) + 1
  <1>1. /\ IsFiniteSet(S \union {e})
        /\ Cardinality(S \union {e}) = IF e \in S THEN Cardinality(S) ELSE Cardinality(S) + 1
    BY FS_AddElement
  <1>2. Cardinality(S) \in Nat /\ Cardinality(S \union {e}) \in Nat
    BY <1>1, FS_CardinalityType
  <1>3. QED
    BY <1>1, <1>2

\* An image of a finite set is finite and no larger.
LEMMA ImageIsSmaller ==
  ASSUME NEW S, NEW f, DOMAIN f = S, IsFiniteSet(S)
  PROVE  /\ IsFiniteSet({f[e] : e \in S}) /\ Cardinality({f[e] : e \in S}) <= Cardinality(S)
  <1> DEFINE T == {f[e] : e \in S}
             g == [e \in S |-> f[e]]
  <1>1. g \in Surjection(S, T)
    BY DEF Surjection
  <1>2. QED
    BY <1>1, FS_Surjection

---------------------------------------------------------------------------
(***************************************************************************)
(* Refresh tokens                                                          *)
(***************************************************************************)
TokenMakers == SignIns \union Refreshes
TokenRows == [by : TokenMakers, text : Nat, revoked : BOOLEAN]
TokenRequestType ==
  [pc : {"new", "commit", "done", "refused"}, rows : SUBSET TokenMakers, text : Nat]

\* A row exists from the commit of the request that makes it, and each request makes one.
TokenTypeInv ==
  /\ clock \in 0 .. EndOfTime /\ tokens \subseteq TokenRows
  /\ request \in [TokenRequests -> TokenRequestType]
  /\ parent \subseteq Refreshes \X TokenMakers
  /\ \A t \in tokens : t.text <= clock /\ request[t.by].pc = "done"
  /\ \A t, u \in tokens : t.by = u.by => t = u
  /\ \A p \in parent : request[p[1]].pc = "done" /\ request[p[2]].pc = "done"
  /\ \A r \in TokenRequests : \A b \in request[r].rows : request[b].pc = "done"

\* Requests that have read and not committed at the same time are known to have been.
TogetherInv == \A r, q \in TokenRequests : Open(r) /\ Open(q) /\ r # q => {r, q} \in overlap

\* A refresh in flight holds one row, and not for longer than the row would live.
InFlightInv ==
  /\ \A r \in TokenRequests : Open(r) => clock <= request[r].text + Life
  /\ \A r \in Refreshes : Open(r) => \E b \in TokenMakers : request[r].rows = {b}

\* A row that was exchanged is revoked; and whoever else holds it in flight, or revoked it as a
\* sign-out, was between its read and its commit together with the request that exchanged it.
ExchangedInv ==
  \A p \in parent :
    /\ \A t \in tokens : t.by = p[2] => t.revoked
    /\ \A r \in Refreshes : Open(r) /\ p[2] \in request[r].rows => {r, p[1]} \in overlap
    /\ \A out \in SignOuts : request[out].pc \in {"commit", "done"} /\ p[2] \in request[out].rows
                               => {p[1], out} \in overlap

\* The rows of a finished sign-out are revoked, and refreshes that hold one still were
\* overtaken by it.
SignedOutInv ==
  \A out \in SignOuts : request[out].pc = "done" =>
    /\ \A t \in tokens : t.by \in request[out].rows => t.revoked
    /\ \A r \in Refreshes : Open(r) /\ request[r].rows \intersect request[out].rows # {}
                              => {r, out} \in overlap

RefreshesMet == \E f, g \in Refreshes : f # g /\ {f, g} \in overlap

\* Who made a row that is good, or that a refresh is about to exchange: no more than have
\* signed in, as long as refreshes come one at a time.
Holders ==
  {b \in TokenMakers : \/ \E t \in tokens : t.by = b /\ ~ t.revoked
                       \/ \E r \in Refreshes : Open(r) /\ b \in request[r].rows}
SignedIn == {r \in SignIns : request[r].pc = "done"}

HoldersInv ==
  /\ IsFiniteSet(SignedIn) /\ IsFiniteSet(tokens)
  /\ RefreshesMet \/ (IsFiniteSet(Holders) /\ Cardinality(Holders) <= Cardinality(SignedIn))

TokenInv ==
  /\ TokenTypeInv /\ TogetherInv /\ InFlightInv /\ ExchangedInv /\ SignedOutInv /\ HoldersInv
  /\ ExchangedOnce /\ ExchangedWithinLife

---------------------------------------------------------------------------
LEMMA TokenInitially == TokenInit => TokenInv
  <1> SUFFICES ASSUME TokenInit PROVE TokenInv
    OBVIOUS
  <1> USE DEF TokenInit
  <1>1. TokenTypeInv
    BY TokenAssumption DEF TokenTypeInv, TokenRequestType
  <1>2. /\ TogetherInv /\ InFlightInv /\ ExchangedInv /\ SignedOutInv
        /\ ExchangedOnce /\ ExchangedWithinLife
    BY DEF TogetherInv, InFlightInv, ExchangedInv, SignedOutInv, ExchangedOnce, ExchangedWithinLife,
           Open, TokenRequests
  <1>3. SignedIn = {} /\ Holders = {}
    BY DEF SignedIn, Holders, Open, TokenRequests
  <1>4. HoldersInv
    BY <1>3, FS_EmptySet DEF HoldersInv
  <1>5. QED
    BY <1>1, <1>2, <1>4 DEF TokenInv

\* What a request revokes, row by row.
LEMMA RevokedRows ==
  ASSUME TokenTypeInv, NEW seen
  PROVE  /\ After(seen) \subseteq TokenRows
         /\ \A u \in After(seen) : \E t \in tokens :
              /\ u.by = t.by /\ u.text = t.text /\ (t.revoked => u.revoked)
              /\ u.by \in seen => u.revoked
              /\ u = [t EXCEPT !.revoked = t.revoked \/ t.by \in seen]
         /\ IsFiniteSet(tokens) => IsFiniteSet(After(seen))
  <1> DEFINE f == [t \in tokens |-> [t EXCEPT !.revoked = @ \/ Revoked(t, seen)]]
  <1>1. After(seen) = {f[t] : t \in tokens}
    BY DEF After
  <1>2. \A t \in tokens : /\ f[t] \in TokenRows /\ f[t].by = t.by /\ f[t].text = t.text
                          /\ f[t].revoked = (t.revoked \/ t.by \in seen)
                          /\ f[t] = [t EXCEPT !.revoked = t.revoked \/ t.by \in seen]
    BY DEF TokenTypeInv, TokenRows, Revoked
  <1>3. DOMAIN f = tokens
    OBVIOUS
  <1> HIDE DEF f
  <1>4. IsFiniteSet(tokens) => IsFiniteSet({f[t] : t \in tokens})
    BY <1>3, ImageIsSmaller
  <1>5. After(seen) \subseteq TokenRows
    BY <1>1, <1>2
  <1>6. ASSUME NEW u \in After(seen)
        PROVE  \E t \in tokens : /\ u.by = t.by /\ u.text = t.text /\ (t.revoked => u.revoked)
                                 /\ u.by \in seen => u.revoked
                                 /\ u = [t EXCEPT !.revoked = t.revoked \/ t.by \in seen]
    <2>1. PICK t \in tokens : u = f[t]
      BY <1>1, <1>6
    <2>2. QED
      BY <1>2, <2>1
  <1>7. QED
    BY <1>1, <1>4, <1>5, <1>6

\* Between a request's first step and its last nothing but its own record changes.
LEMMA TokensOpened ==
  ASSUME TokenInv, NEW r \in TokenRequests, NEW seen \in SUBSET TokenMakers, NEW text \in Nat,
         request[r].pc = "new", r \notin SignIns, Opened(r, seen, text)
  PROVE  /\ request' \in [TokenRequests -> TokenRequestType]
         /\ request'[r] = [pc |-> "commit", rows |-> seen, text |-> text]
         /\ \A q \in TokenRequests \ {r} : request'[q] = request[q]
         /\ \A q \in TokenRequests : request[q].pc = "done" => request'[q] = request[q]
         /\ overlap \subseteq overlap'
         /\ \A q \in TokenRequests : Open(q) => {r, q} \in overlap'
         /\ SignedIn' = SignedIn
  <1>1. request' = [request EXCEPT ![r] = [pc |-> "commit", rows |-> seen, text |-> text]]
    BY DEF Opened
  <1>2. overlap' = overlap \union {{r, q} : q \in {q \in TokenRequests : Open(q)}}
    BY DEF Opened
  <1>3. request \in [TokenRequests -> TokenRequestType]
    BY DEF TokenInv, TokenTypeInv
  <1>4. [pc |-> "commit", rows |-> seen, text |-> text] \in TokenRequestType
    BY DEF TokenRequestType
  <1>5. /\ request' \in [TokenRequests -> TokenRequestType]
        /\ request'[r] = [pc |-> "commit", rows |-> seen, text |-> text]
        /\ \A q \in TokenRequests \ {r} : request'[q] = request[q]
        /\ \A q \in TokenRequests : request[q].pc = "done" => request'[q] = request[q]
    BY <1>1, <1>3, <1>4
  <1>6. SignedIn' = SignedIn
    BY <1>5 DEF SignedIn, TokenRequests
  <1>7. QED
    BY <1>2, <1>5, <1>6

\* A table that nobody writes stays well formed while requests read it or are done.
LEMMA TokenTypeKept ==
  ASSUME TokenTypeInv, UNCHANGED <<clock, tokens, parent>>,
         request' \in [TokenRequests -> TokenRequestType],
         \A q \in TokenRequests : request[q].pc = "done" => request'[q].pc = "done",
         \A q \in TokenRequests : \A b \in request'[q].rows :
           b \in request[q].rows \/ \E t \in tokens : t.by = b
  PROVE  TokenTypeInv'
  <1>1. \A b \in TokenMakers : b \in TokenRequests
    BY DEF TokenMakers, TokenRequests
  <1>2. \A t \in tokens : request'[t.by].pc = "done"
    BY <1>1 DEF TokenTypeInv, TokenRows
  <1>3. \A p \in parent : request'[p[1]].pc = "done" /\ request'[p[2]].pc = "done"
    BY <1>1 DEF TokenTypeInv, TokenMakers
  <1>4. ASSUME NEW q \in TokenRequests, NEW b \in request'[q].rows
        PROVE  request'[b].pc = "done"
    <2>1. b \in TokenMakers
      BY <1>4 DEF TokenRequestType
    <2>2. QED
      BY <1>1, <1>2, <1>4, <2>1 DEF TokenTypeInv
  <1>5. QED
    BY <1>2, <1>3, <1>4 DEF TokenTypeInv

LEMMA TokenPresent ==
  ASSUME TokenInv, NEW r \in TokenRequests, PresentToken(r)
  PROVE  TokenInv'
  <1>1. /\ r \in Refreshes /\ r \notin SignIns /\ r \notin SignOuts /\ request[r].pc = "new"
        /\ UNCHANGED <<clock, tokens, parent>>
    BY TokenAssumption DEF PresentToken
  <1>2. request \in [TokenRequests -> TokenRequestType]
    BY DEF TokenInv, TokenTypeInv
  <1>3. CASE \E text \in Issued : \E t \in tokens :
               Live(t) /\ t.text = text /\ Opened(r, {t.by}, text)
    <2>1. PICK t \in tokens : Live(t) /\ Opened(r, {t.by}, t.text)
      BY <1>3
    <2>2. /\ t \in TokenRows /\ t.by \in TokenMakers /\ t.text \in Nat /\ ~ t.revoked
          /\ clock < t.text + Life /\ clock \in Nat
      BY <2>1 DEF TokenInv, TokenTypeInv, TokenRows, Live
    <2>3. /\ request' \in [TokenRequests -> TokenRequestType]
          /\ request'[r] = [pc |-> "commit", rows |-> {t.by}, text |-> t.text]
          /\ \A q \in TokenRequests \ {r} : request'[q] = request[q]
          /\ \A q \in TokenRequests : request[q].pc = "done" => request'[q] = request[q]
          /\ overlap \subseteq overlap'
          /\ \A q \in TokenRequests : Open(q) => {r, q} \in overlap'
          /\ SignedIn' = SignedIn
      BY <1>1, <2>1, <2>2, TokensOpened
    <2>4. Open(r)' /\ request'[r].rows = {t.by} /\ request'[r].text = t.text
          /\ \A q \in TokenRequests \ {r} : Open(q)' = Open(q)
      BY <2>3 DEF Open
    <2>5. TokenTypeInv'
      BY <1>1, <2>3, TokenTypeKept DEF TokenInv
    <2>6. TogetherInv'
      BY <2>3, <2>4 DEF TokenInv, TogetherInv
    <2>7. InFlightInv'
      <3>1. clock' <= request'[r].text + Life
        BY <1>1, <2>2, <2>4, TokenAssumption
      <3>2. \A q \in TokenRequests : Open(q)' => clock' <= request'[q].text + Life
        BY <1>1, <2>3, <2>4, <3>1 DEF TokenInv, InFlightInv
      <3>3. QED
        BY <2>2, <2>3, <2>4, <3>2 DEF TokenInv, InFlightInv, TokenRequests
    <2>8. ExchangedInv'
      <3>1. \A p \in parent : p[2] # t.by
        BY <2>2 DEF TokenInv, ExchangedInv
      <3>2. r \notin SignOuts
        BY <1>1
      <3>3. QED
        BY <1>1, <2>3, <2>4, <3>1, <3>2 DEF TokenInv, ExchangedInv, TokenRequests
    <2>9. SignedOutInv'
      <3>1. \A out \in SignOuts : request[out].pc = "done" => t.by \notin request[out].rows
        BY <2>2 DEF TokenInv, SignedOutInv
      <3>2. QED
        BY <1>1, <2>3, <2>4, <3>1 DEF TokenInv, SignedOutInv, TokenRequests
    <2>10. HoldersInv'
      <3>1. Holders' = Holders
        <4>1. Holders' \subseteq Holders
          BY <1>1, <2>2, <2>3, <2>4 DEF Holders, TokenRequests
        <4>2. Holders \subseteq Holders'
          BY <1>1, <2>3, <2>4 DEF Holders, TokenRequests, Open
        <4>3. QED
          BY <4>1, <4>2
      <3>2. RefreshesMet => RefreshesMet'
        BY <2>3 DEF RefreshesMet
      <3>3. QED
        BY <1>1, <2>3, <3>1, <3>2 DEF TokenInv, HoldersInv
    <2>11. ExchangedOnce' /\ ExchangedWithinLife'
      BY <1>1, <2>3, <2>4 DEF TokenInv, ExchangedOnce, ExchangedWithinLife, TokenRequests, Open
    <2>12. QED
      BY <2>5, <2>6, <2>7, <2>8, <2>9, <2>10, <2>11 DEF TokenInv
  <1>4. CASE \E text \in Issued :
               /\ request' = [request EXCEPT ![r] = [pc |-> "refused", rows |-> {}, text |-> text]]
               /\ UNCHANGED overlap
    <2>1. PICK text \in Issued :
             request' = [request EXCEPT ![r] = [pc |-> "refused", rows |-> {}, text |-> text]]
      BY <1>4
    <2>2. text \in Nat
      BY <2>1 DEF Issued, TokenInv, TokenTypeInv, TokenRows
    <2>3. [pc |-> "refused", rows |-> {}, text |-> text] \in TokenRequestType
      BY <2>2 DEF TokenRequestType
    <2>4. /\ request' \in [TokenRequests -> TokenRequestType]
          /\ request'[r].pc = "refused"
          /\ \A q \in TokenRequests \ {r} : request'[q] = request[q]
          /\ UNCHANGED overlap
      BY <1>2, <1>4, <2>1, <2>3
    <2>5. ~ Open(r) /\ ~ Open(r)' /\ \A q \in TokenRequests \ {r} : Open(q)' = Open(q)
      BY <1>1, <2>4 DEF Open
    <2>6. TokenTypeInv'
      <3>1. request'[r].rows = {}
        BY <1>2, <2>1
      <3>2. QED
        BY <1>1, <2>4, <3>1, TokenTypeKept DEF TokenInv
    <2>7. TogetherInv' /\ InFlightInv' /\ ExchangedInv'
      BY <1>1, <2>4, <2>5 DEF TokenInv, TogetherInv, InFlightInv, ExchangedInv, TokenRequests
    <2>8. SignedOutInv' /\ ExchangedOnce' /\ ExchangedWithinLife'
      BY <1>1, <2>4, <2>5 DEF TokenInv, SignedOutInv, ExchangedOnce, ExchangedWithinLife, TokenRequests
    <2>9. Holders' = Holders /\ SignedIn' = SignedIn
      BY <1>1, <2>4, <2>5 DEF Holders, SignedIn, TokenRequests
    <2>10. HoldersInv'
      BY <1>1, <2>4, <2>9 DEF TokenInv, HoldersInv, RefreshesMet
    <2>11. QED
      BY <2>6, <2>7, <2>8, <2>10 DEF TokenInv
  <1>5. QED
    BY <1>3, <1>4 DEF PresentToken

LEMMA TokenSignIn ==
  ASSUME TokenInv, NEW r \in TokenRequests, SignIn(r)
  PROVE  TokenInv'
  <1> DEFINE new == Token(r, clock)
  <1>1. /\ r \in SignIns /\ r \notin Refreshes /\ r \notin SignOuts /\ request[r].pc = "new"
        /\ tokens' = tokens \union {new} /\ request' = [request EXCEPT ![r].pc = "done"]
        /\ UNCHANGED <<clock, parent, overlap>>
    BY TokenAssumption DEF SignIn, Finished
  <1>2. /\ request \in [TokenRequests -> TokenRequestType] /\ clock \in Nat
    BY TokenAssumption DEF TokenInv, TokenTypeInv
  <1>3. /\ request' \in [TokenRequests -> TokenRequestType]
        /\ request'[r].pc = "done" /\ request'[r].rows = request[r].rows
        /\ \A q \in TokenRequests \ {r} : request'[q] = request[q]
    BY <1>1, <1>2 DEF TokenRequestType
  <1>4. new \in TokenRows /\ new.by = r /\ new.text = clock /\ ~ new.revoked
    BY <1>1, <1>2 DEF Token, TokenRows, TokenMakers
  <1> HIDE DEF new
  <1>5. \A t \in tokens : t.by # r
    BY <1>1 DEF TokenInv, TokenTypeInv
  <1>6. ~ Open(r) /\ ~ Open(r)' /\ \A q \in TokenRequests \ {r} : Open(q)' = Open(q)
    BY <1>1, <1>3 DEF Open
  <1>7. r \in TokenMakers /\ \A t \in tokens : t.by \in TokenRequests
    BY <1>1 DEF TokenMakers, TokenInv, TokenTypeInv, TokenRows, TokenRequests
  <1>8. TokenTypeInv'
    <2>1. \A t, u \in tokens' : t.by = u.by => t = u
      BY <1>1, <1>4, <1>5 DEF TokenInv, TokenTypeInv
    <2>2. \A t \in tokens' : t.text <= clock /\ request'[t.by].pc = "done"
      BY <1>1, <1>2, <1>3, <1>4, <1>7 DEF TokenInv, TokenTypeInv
    <2>3. \A p \in parent : p[1] # r /\ p[1] \in TokenRequests
      BY <1>1 DEF TokenInv, TokenTypeInv, TokenRequests
    <2>4. QED
      BY <1>1, <1>3, <1>4, <2>1, <2>2, <2>3 DEF TokenInv, TokenTypeInv
  <1>9. TogetherInv' /\ InFlightInv'
    BY <1>1, <1>3, <1>6 DEF TokenInv, TogetherInv, InFlightInv, TokenRequests
  <1>10. /\ \A q \in TokenRequests : r \notin request[q].rows
         /\ \A p \in parent : p[1] # r /\ p[2] # r
    BY <1>1 DEF TokenInv, TokenTypeInv
  <1>11. ExchangedInv' /\ SignedOutInv' /\ ExchangedOnce' /\ ExchangedWithinLife'
    BY <1>1, <1>3, <1>4, <1>6, <1>10
       DEF TokenInv, ExchangedInv, SignedOutInv, ExchangedOnce, ExchangedWithinLife, TokenRequests
  <1>12. HoldersInv'
    <2>1. Holders' = Holders \union {r} /\ SignedIn' = SignedIn \union {r} /\ r \notin SignedIn
      <3>1. SignedIn' = SignedIn \union {r} /\ r \notin SignedIn
        BY <1>1, <1>3 DEF SignedIn, TokenRequests
      <3>2. ASSUME NEW b \in TokenMakers, b # r
            PROVE  b \in Holders' <=> b \in Holders
        BY <1>1, <1>3, <1>4, <1>6, <3>2 DEF Holders, TokenRequests
      <3>3. r \in Holders'
        BY <1>1, <1>4, <1>7 DEF Holders
      <3>4. Holders' \subseteq TokenMakers /\ Holders \subseteq TokenMakers
        BY DEF Holders
      <3>5. QED
        BY <3>1, <3>2, <3>3, <3>4
    <2>2. IsFiniteSet(SignedIn') /\ Cardinality(SignedIn') = Cardinality(SignedIn) + 1
      BY <2>1, FS_AddElement DEF TokenInv, HoldersInv
    <2>3. IsFiniteSet(tokens')
      BY <1>1, FS_AddElement DEF TokenInv, HoldersInv
    <2>4. CASE RefreshesMet
      BY <1>1, <2>2, <2>3, <2>4 DEF HoldersInv, RefreshesMet
    <2>5. CASE ~ RefreshesMet
      <3>1. IsFiniteSet(Holders) /\ Cardinality(Holders) <= Cardinality(SignedIn)
        BY <2>5 DEF TokenInv, HoldersInv
      <3>2. /\ IsFiniteSet(Holders') /\ Cardinality(Holders') <= Cardinality(Holders) + 1
            /\ Cardinality(Holders) \in Nat /\ Cardinality(SignedIn) \in Nat
        <4>1. /\ IsFiniteSet(Holders \union {r})
              /\ Cardinality(Holders \union {r}) = IF r \in Holders THEN Cardinality(Holders)
                                                   ELSE Cardinality(Holders) + 1
          BY <3>1, FS_AddElement
        <4>2. Cardinality(Holders) \in Nat /\ Cardinality(SignedIn) \in Nat
          BY <3>1, FS_CardinalityType DEF TokenInv, HoldersInv
        <4>3. QED
          BY <2>1, <4>1, <4>2
      <3>3. Cardinality(Holders') <= Cardinality(SignedIn')
        <4>1. Cardinality(Holders') \in Nat
          BY <3>2, FS_CardinalityType
        <4>2. QED
          BY <2>2, <3>1, <3>2, <4>1
      <3>4. QED
        BY <2>2, <2>3, <3>2, <3>3 DEF HoldersInv
    <2>6. QED
      BY <2>4, <2>5
  <1>13. QED
    BY <1>8, <1>9, <1>11, <1>12 DEF TokenInv

\* A commit revokes the rows that its request loaded, in a table that may have changed since.
LEMMA TokensRevoked ==
  ASSUME TokenInv, NEW r \in TokenRequests, Open(r), Finished(r)
  PROVE  /\ request' \in [TokenRequests -> TokenRequestType]
         /\ request'[r].pc = "done" /\ request'[r].rows = request[r].rows
         /\ request'[r].text = request[r].text
         /\ \A q \in TokenRequests \ {r} : request'[q] = request[q]
         /\ \A q \in TokenRequests : request[q].pc = "done" => request'[q].pc = "done"
         /\ Open(r) /\ ~ Open(r)' /\ \A q \in TokenRequests \ {r} : Open(q)' = Open(q)
  <1>1. /\ request \in [TokenRequests -> TokenRequestType]
        /\ request' = [request EXCEPT ![r].pc = "done"]
    BY DEF TokenInv, TokenTypeInv, Finished
  <1>2. /\ request' \in [TokenRequests -> TokenRequestType]
        /\ request'[r].pc = "done" /\ request'[r].rows = request[r].rows
        /\ request'[r].text = request[r].text
        /\ \A q \in TokenRequests \ {r} : request'[q] = request[q]
    BY <1>1 DEF TokenRequestType
  <1>3. QED
    BY <1>2 DEF Open

LEMMA TokenSignOut ==
  ASSUME TokenInv, NEW r \in TokenRequests, SignOut(r)
  PROVE  TokenInv'
  <1>1. /\ r \in SignOuts /\ r \notin Refreshes /\ r \notin SignIns /\ r \notin TokenMakers
        /\ Open(r) /\ tokens' = After(request[r].rows) /\ Finished(r)
        /\ UNCHANGED <<clock, parent, overlap>>
    BY TokenAssumption DEF SignOut, TokenMakers
  <1>2. /\ request' \in [TokenRequests -> TokenRequestType]
        /\ request'[r].pc = "done" /\ request'[r].rows = request[r].rows
        /\ request'[r].text = request[r].text
        /\ \A q \in TokenRequests \ {r} : request'[q] = request[q]
        /\ \A q \in TokenRequests : request[q].pc = "done" => request'[q].pc = "done"
        /\ ~ Open(r)' /\ \A q \in TokenRequests \ {r} : Open(q)' = Open(q)
    BY <1>1, TokensRevoked
  <1>3. /\ tokens' \subseteq TokenRows
        /\ \A u \in tokens' : \E t \in tokens :
              /\ u.by = t.by /\ u.text = t.text /\ (t.revoked => u.revoked)
              /\ u.by \in request[r].rows => u.revoked
              /\ u = [t EXCEPT !.revoked = t.revoked \/ t.by \in request[r].rows]
        /\ IsFiniteSet(tokens')
    BY <1>1, RevokedRows DEF TokenInv, HoldersInv
  <1>4. TokenTypeInv'
    <2>1. \A t, u \in tokens' : t.by = u.by => t = u
      BY <1>3 DEF TokenInv, TokenTypeInv
    <2>2. \A t \in tokens' : t.text <= clock /\ request'[t.by].pc = "done"
      BY <1>2, <1>3 DEF TokenInv, TokenTypeInv, TokenRows, TokenMakers, TokenRequests
    <2>3. \A p \in parent : request'[p[1]].pc = "done" /\ request'[p[2]].pc = "done"
      BY <1>2 DEF TokenInv, TokenTypeInv, TokenMakers, TokenRequests
    <2>4. \A q \in TokenRequests : \A b \in request'[q].rows : request'[b].pc = "done"
      <3> SUFFICES ASSUME NEW q \in TokenRequests, NEW b \in request'[q].rows
                   PROVE  request'[b].pc = "done"
        OBVIOUS
      <3>1. request'[q].rows = request[q].rows
        BY <1>2
      <3>2. b \in TokenRequests
        BY <3>1 DEF TokenInv, TokenTypeInv, TokenRequestType, TokenMakers, TokenRequests
      <3>3. QED
        BY <1>2, <3>1, <3>2 DEF TokenInv, TokenTypeInv
    <2>5. QED
      BY <1>1, <1>2, <1>3, <2>1, <2>2, <2>3, <2>4 DEF TokenInv, TokenTypeInv
  <1>5. TogetherInv' /\ InFlightInv'
    BY <1>1, <1>2 DEF TokenInv, TogetherInv, InFlightInv, TokenRequests
  <1>6. ExchangedInv'
    <2>1. \A p \in parent : \A t \in tokens' : t.by = p[2] => t.revoked
      BY <1>3 DEF TokenInv, ExchangedInv
    <2>2. QED
      BY <1>1, <1>2, <2>1 DEF TokenInv, ExchangedInv, TokenRequests, Open
  <1>7. SignedOutInv'
    <2>1. \A out \in SignOuts : request'[out].pc = "done" =>
            \A t \in tokens' : t.by \in request'[out].rows => t.revoked
      BY <1>2, <1>3 DEF TokenInv, SignedOutInv, TokenRequests
    <2>2. \A q \in Refreshes : Open(q) => {q, r} \in overlap
      BY <1>1 DEF TokenInv, TogetherInv, TokenRequests
    <2>3. QED
      BY <1>1, <1>2, <2>1, <2>2 DEF TokenInv, SignedOutInv, TokenRequests
  <1>8. HoldersInv'
    <2>1. SignedIn' = SignedIn
      BY <1>1, <1>2 DEF SignedIn, TokenRequests
    <2>2. Holders' \subseteq Holders
      BY <1>1, <1>2, <1>3 DEF Holders, TokenRequests
    <2>3. CASE RefreshesMet
      BY <1>1, <1>3, <2>1, <2>3 DEF TokenInv, HoldersInv, RefreshesMet
    <2>4. CASE ~ RefreshesMet
      <3>1. /\ IsFiniteSet(Holders') /\ Cardinality(Holders') <= Cardinality(Holders)
            /\ Cardinality(Holders) \in Nat /\ Cardinality(SignedIn) \in Nat
            /\ Cardinality(Holders') \in Nat /\ Cardinality(Holders) <= Cardinality(SignedIn)
        BY <2>2, <2>4, FS_Subset, FS_CardinalityType DEF TokenInv, HoldersInv
      <3>2. QED
        BY <1>3, <2>1, <3>1 DEF TokenInv, HoldersInv
    <2>5. QED
      BY <2>3, <2>4
  <1>9. ExchangedOnce' /\ ExchangedWithinLife'
    BY <1>1, <1>2, <1>3 DEF TokenInv, ExchangedOnce, ExchangedWithinLife, TokenRequests
  <1>10. QED
    BY <1>4, <1>5, <1>6, <1>7, <1>8, <1>9 DEF TokenInv

LEMMA TokenLoadForSignOut ==
  ASSUME TokenInv, NEW r \in TokenRequests, LoadForSignOut(r)
  PROVE  TokenInv'
  <1> DEFINE seen == {t.by : t \in {t \in tokens : ~ t.revoked}}
  <1>1. /\ r \in SignOuts /\ r \notin SignIns /\ r \notin Refreshes /\ request[r].pc = "new"
        /\ Opened(r, seen, clock)
        /\ UNCHANGED <<clock, tokens, parent>>
    BY TokenAssumption DEF LoadForSignOut
  <1>2. seen \in SUBSET TokenMakers /\ clock \in Nat
    BY TokenAssumption DEF TokenInv, TokenTypeInv, TokenRows
  <1>3. \A b \in seen : \E t \in tokens : t.by = b /\ ~ t.revoked
    OBVIOUS
  <1> HIDE DEF seen
  <1>4. /\ request' \in [TokenRequests -> TokenRequestType]
        /\ request'[r] = [pc |-> "commit", rows |-> seen, text |-> clock]
        /\ \A q \in TokenRequests \ {r} : request'[q] = request[q]
        /\ \A q \in TokenRequests : request[q].pc = "done" => request'[q] = request[q]
        /\ overlap \subseteq overlap'
        /\ \A q \in TokenRequests : Open(q) => {r, q} \in overlap'
        /\ SignedIn' = SignedIn
    BY <1>1, <1>2, TokensOpened
  <1>5. /\ Open(r)' /\ request'[r].rows = seen /\ request'[r].text = clock
        /\ request'[r].pc = "commit"
        /\ \A q \in TokenRequests \ {r} : Open(q)' = Open(q)
    BY <1>4 DEF Open
  <1>6. TokenTypeInv'
    BY <1>1, <1>3, <1>4, TokenTypeKept DEF TokenInv
  <1>7. TogetherInv'
    BY <1>4, <1>5 DEF TokenInv, TogetherInv
  <1>8. InFlightInv'
    <2>1. clock' <= request'[r].text + Life
      BY <1>1, <1>2, <1>5, TokenAssumption
    <2>2. QED
      BY <1>1, <1>4, <1>5, <2>1 DEF TokenInv, InFlightInv, TokenRequests
  <1>9. ExchangedInv'
    <2>1. \A p \in parent : p[2] \notin seen
      BY <1>3 DEF TokenInv, ExchangedInv
    <2>2. QED
      BY <1>1, <1>4, <1>5, <2>1 DEF TokenInv, ExchangedInv, TokenRequests
  <1>10. SignedOutInv' /\ ExchangedOnce' /\ ExchangedWithinLife'
    BY <1>1, <1>4, <1>5 DEF TokenInv, SignedOutInv, ExchangedOnce, ExchangedWithinLife, TokenRequests
  <1>11. HoldersInv'
    <2>1. Holders' = Holders
      BY <1>1, <1>4, <1>5 DEF Holders, TokenRequests
    <2>2. RefreshesMet => RefreshesMet'
      BY <1>4 DEF RefreshesMet
    <2>3. QED
      BY <1>1, <1>4, <2>1, <2>2 DEF TokenInv, HoldersInv
  <1>12. QED
    BY <1>6, <1>7, <1>8, <1>9, <1>10, <1>11 DEF TokenInv

LEMMA TokenExchange ==
  ASSUME TokenInv, NEW r \in TokenRequests, ExchangeToken(r)
  PROVE  TokenInv'
  <1> DEFINE new == Token(r, clock)
  <1>1. /\ r \in Refreshes /\ r \notin SignOuts /\ r \notin SignIns /\ r \in TokenMakers
        /\ Open(r) /\ tokens' = After(request[r].rows) \union {new} /\ Finished(r)
        /\ parent' = parent \union {<<r, row>> : row \in request[r].rows}
        /\ UNCHANGED <<clock, overlap>>
    BY TokenAssumption DEF ExchangeToken, Exchanged, TokenMakers
  <1>2. PICK b \in TokenMakers : request[r].rows = {b}
    BY <1>1 DEF TokenInv, InFlightInv
  <1>3. parent' = parent \union {<<r, b>>}
    BY <1>1, <1>2
  <1>4. /\ request' \in [TokenRequests -> TokenRequestType]
        /\ request'[r].pc = "done" /\ request'[r].rows = request[r].rows
        /\ request'[r].text = request[r].text
        /\ \A q \in TokenRequests \ {r} : request'[q] = request[q]
        /\ \A q \in TokenRequests : request[q].pc = "done" => request'[q].pc = "done"
        /\ ~ Open(r)' /\ \A q \in TokenRequests \ {r} : Open(q)' = Open(q)
    BY <1>1, TokensRevoked
  <1>5. clock \in Nat /\ request[b].pc = "done" /\ b # r /\ request[r].pc = "commit"
    BY <1>1, <1>2, TokenAssumption DEF TokenInv, TokenTypeInv, Open
  <1>6. new \in TokenRows /\ new.by = r /\ new.text = clock /\ ~ new.revoked
    BY <1>1, <1>5 DEF Token, TokenRows
  <1> HIDE DEF new
  <1>7. /\ tokens' \subseteq TokenRows
        /\ \A u \in tokens' : u = new \/ \E t \in tokens :
              /\ u.by = t.by /\ u.text = t.text /\ (t.revoked => u.revoked)
              /\ u.by \in request[r].rows => u.revoked
              /\ u = [t EXCEPT !.revoked = t.revoked \/ t.by \in request[r].rows]
        /\ IsFiniteSet(tokens')
    <2>1. /\ After(request[r].rows) \subseteq TokenRows
          /\ \A u \in After(request[r].rows) : \E t \in tokens :
               /\ u.by = t.by /\ u.text = t.text /\ (t.revoked => u.revoked)
               /\ u.by \in request[r].rows => u.revoked
               /\ u = [t EXCEPT !.revoked = t.revoked \/ t.by \in request[r].rows]
          /\ IsFiniteSet(After(request[r].rows))
      BY RevokedRows DEF TokenInv, HoldersInv
    <2>2. IsFiniteSet(tokens')
      BY <1>1, <2>1, FS_AddElement
    <2>3. QED
      BY <1>1, <1>6, <2>1, <2>2
  \* No row by this request was there before.
  <1>8. /\ \A t \in tokens : t.by # r
        /\ \A q \in TokenRequests : r \notin request[q].rows
        /\ \A p \in parent : p[1] # r /\ p[2] # r
    BY <1>5 DEF TokenInv, TokenTypeInv
  <1>9. TokenTypeInv'
    <2>1. \A t, u \in tokens' : t.by = u.by => t = u
      BY <1>6, <1>7, <1>8 DEF TokenInv, TokenTypeInv
    <2>2. \A t \in tokens' : t.text <= clock /\ request'[t.by].pc = "done"
      BY <1>4, <1>5, <1>6, <1>7 DEF TokenInv, TokenTypeInv, TokenRows, TokenMakers, TokenRequests
    <2>3. \A p \in parent' : request'[p[1]].pc = "done" /\ request'[p[2]].pc = "done"
      BY <1>3, <1>4, <1>5 DEF TokenInv, TokenTypeInv, TokenMakers, TokenRequests
    <2>4. \A q \in TokenRequests : \A c \in request'[q].rows : request'[c].pc = "done"
      <3> SUFFICES ASSUME NEW q \in TokenRequests, NEW c \in request'[q].rows
                   PROVE  request'[c].pc = "done"
        OBVIOUS
      <3>1. request'[q].rows = request[q].rows
        BY <1>4
      <3>2. c \in TokenRequests
        BY <3>1 DEF TokenInv, TokenTypeInv, TokenRequestType, TokenMakers, TokenRequests
      <3>3. QED
        BY <1>4, <3>1, <3>2 DEF TokenInv, TokenTypeInv
    <2>5. parent' \subseteq Refreshes \X TokenMakers
      BY <1>1, <1>2, <1>3 DEF TokenInv, TokenTypeInv
    <2>6. QED
      BY <1>1, <1>4, <1>7, <2>1, <2>2, <2>3, <2>4, <2>5 DEF TokenInv, TokenTypeInv
  <1>10. TogetherInv' /\ InFlightInv'
    BY <1>1, <1>4 DEF TokenInv, TogetherInv, InFlightInv, TokenRequests
  <1>11. ExchangedInv'
    <2> SUFFICES ASSUME NEW p \in parent' PROVE ExchangedInv!(p)'
      BY DEF ExchangedInv
    <2>1. \A t \in tokens' : t.by = p[2] => t.revoked
      BY <1>2, <1>3, <1>5, <1>6, <1>7, <1>8 DEF TokenInv, ExchangedInv
    <2>2. \A q \in Refreshes : Open(q)' /\ p[2] \in request'[q].rows => {q, p[1]} \in overlap'
      <3>1. CASE p \in parent
        BY <1>1, <1>4, <3>1 DEF TokenInv, ExchangedInv, TokenRequests
      <3>2. CASE p = <<r, b>>
        BY <1>1, <1>4, <3>2 DEF TokenInv, TogetherInv, TokenRequests
      <3>3. QED
        BY <1>3, <3>1, <3>2
    <2>3. \A out \in SignOuts : request'[out].pc \in {"commit", "done"} /\ p[2] \in request'[out].rows
                                  => {p[1], out} \in overlap'
      <3>1. CASE p \in parent
        BY <1>1, <1>4, <3>1 DEF TokenInv, ExchangedInv, TokenRequests
      <3>2. CASE p = <<r, b>>
        <4> SUFFICES ASSUME NEW out \in SignOuts, request[out].pc \in {"commit", "done"},
                            b \in request[out].rows
                     PROVE  {r, out} \in overlap
          BY <1>1, <1>4, <3>2 DEF TokenRequests
        <4>1. CASE request[out].pc = "commit"
          BY <1>1, <4>1 DEF TokenInv, TogetherInv, TokenRequests, Open
        <4>2. CASE request[out].pc = "done"
          BY <1>1, <1>2, <4>2 DEF TokenInv, SignedOutInv
        <4>3. QED
          BY <4>1, <4>2
      <3>3. QED
        BY <1>3, <3>1, <3>2
    <2>4. QED
      BY <2>1, <2>2, <2>3
  <1>12. SignedOutInv'
    <2>1. \A out \in SignOuts : request'[out] = request[out]
      BY <1>1, <1>4 DEF TokenRequests
    <2>2. \A out \in SignOuts : r \notin request[out].rows
      BY <1>8 DEF TokenRequests
    <2>3. \A out \in SignOuts : request[out].pc = "done" =>
            \A t \in tokens' : t.by \in request[out].rows => t.revoked
      BY <1>6, <1>7, <2>2 DEF TokenInv, SignedOutInv
    <2>4. QED
      BY <1>1, <1>4, <2>1, <2>3 DEF TokenInv, SignedOutInv, TokenRequests
  <1>13. HoldersInv'
    <2>1. SignedIn' = SignedIn
      BY <1>1, <1>4 DEF SignedIn, TokenRequests
    <2>2. CASE RefreshesMet
      BY <1>1, <1>7, <2>1, <2>2 DEF TokenInv, HoldersInv, RefreshesMet
    <2>3. CASE ~ RefreshesMet
      <3>1. \A q \in Refreshes : Open(q) => q = r
        BY <1>1, <2>3 DEF TokenInv, TogetherInv, RefreshesMet, TokenRequests
      <3>2. b \in Holders
        BY <1>1, <1>2 DEF Holders
      <3>3. Holders' \subseteq (Holders \ {b}) \union {r}
        <4> SUFFICES ASSUME NEW c \in Holders', c # r PROVE c \in Holders /\ c # b
          OBVIOUS
        <4>1. PICK u \in tokens' : u.by = c /\ ~ u.revoked
          BY <1>4, <3>1 DEF Holders, TokenRequests
        <4>2. c \in TokenMakers
          BY DEF Holders
        <4>3. QED
          BY <1>2, <1>6, <1>7, <4>1, <4>2 DEF Holders
      <3>4. /\ IsFiniteSet(Holders) /\ Cardinality(Holders) <= Cardinality(SignedIn)
            /\ Cardinality(Holders) \in Nat /\ Cardinality(SignedIn) \in Nat
        BY <2>3, FS_CardinalityType DEF TokenInv, HoldersInv
      <3>5. /\ IsFiniteSet(Holders \ {b}) /\ Cardinality(Holders \ {b}) = Cardinality(Holders) - 1
        BY <3>2, <3>4, FS_RemoveElement
      <3>6. /\ IsFiniteSet((Holders \ {b}) \union {r})
            /\ Cardinality((Holders \ {b}) \union {r}) <= Cardinality(Holders)
        <4> DEFINE H == Holders \ {b}
        <4>1. IsFiniteSet(H) /\ Cardinality(H) = Cardinality(Holders) - 1
          BY <3>5
        <4>2. /\ IsFiniteSet(H \union {r})
              /\ Cardinality(H \union {r}) = IF r \in H THEN Cardinality(H) ELSE Cardinality(H) + 1
          BY <4>1, FS_AddElement
        <4>3. QED
          BY <3>4, <4>1, <4>2
      <3>7. /\ IsFiniteSet(Holders') /\ Cardinality(Holders') \in Nat
            /\ Cardinality(Holders') <= Cardinality((Holders \ {b}) \union {r})
        BY <3>3, <3>6, FS_Subset, FS_CardinalityType
      <3>8. Cardinality((Holders \ {b}) \union {r}) \in Nat
        BY <3>6, FS_CardinalityType
      <3>9. Cardinality(Holders') <= Cardinality(SignedIn')
        BY <2>1, <3>4, <3>6, <3>7, <3>8
      <3>10. QED
        BY <1>7, <2>1, <3>7, <3>9 DEF TokenInv, HoldersInv
    <2>4. QED
      BY <2>2, <2>3
  <1>14. ExchangedWithinLife'
    <2>1. clock <= request[r].text + Life
      BY <1>1 DEF TokenInv, InFlightInv
    <2>2. QED
      BY <1>1, <1>4, <1>5, <1>6, <1>7, <1>8, <2>1 DEF TokenInv, ExchangedOnce, ExchangedWithinLife, TokenRequests
  <1>15. ExchangedOnce'
    <2>1. \A q \in parent : q[2] = b => {r, q[1]} \in overlap
      BY <1>1, <1>2 DEF TokenInv, ExchangedInv
    <2>2. ASSUME NEW p \in parent', NEW q \in parent', p[2] = q[2], p # q
          PROVE  {p[1], q[1]} \in overlap'
      <3>1. CASE p \in parent /\ q \in parent
        BY <1>1, <2>2, <3>1 DEF TokenInv, ExchangedOnce
      <3>2. CASE p \in parent /\ q = <<r, b>>
        <4>1. {r, p[1]} = {p[1], q[1]}
          BY <3>2
        <4>2. QED
          BY <1>1, <2>1, <2>2, <3>2, <4>1
      <3>3. CASE p = <<r, b>> /\ q \in parent
        BY <1>1, <2>1, <2>2, <3>3
      <3>4. QED
        BY <1>3, <2>2, <3>1, <3>2, <3>3
    <2>3. QED
      BY <2>2 DEF ExchangedOnce
  <1>16. QED
    BY <1>9, <1>10, <1>11, <1>12, <1>13, <1>14, <1>15 DEF TokenInv

LEMMA TokenRest ==
  ASSUME TokenInv, ClockTicks \/ UNCHANGED tokenVars
  PROVE  TokenInv'
  <1>1. /\ UNCHANGED <<tokens, request, parent, overlap>>
        /\ \/ clock' = clock
           \/ /\ clock < EndOfTime /\ clock' = clock + 1
              /\ \A r \in TokenRequests : Open(r) => clock < request[r].text + Life
    BY DEF ClockTicks, tokenVars
  <1>2. clock \in Nat /\ clock' \in 0 .. EndOfTime /\ clock <= clock'
    BY <1>1, TokenAssumption DEF TokenInv, TokenTypeInv
  <1>3. TokenTypeInv'
    <2>1. \A t \in tokens : t.text \in Nat /\ t.text <= clock
      BY DEF TokenInv, TokenTypeInv, TokenRows
    <2>2. \A t \in tokens : t.text <= clock'
      BY <1>2, <2>1
    <2>3. QED
      BY <1>1, <1>2, <2>2 DEF TokenInv, TokenTypeInv
  <1>4. InFlightInv'
    <2>1. \A r \in TokenRequests : request[r].text \in Nat
      BY DEF TokenInv, TokenTypeInv, TokenRequestType
    <2>2. \A r \in TokenRequests : Open(r) => clock' <= request[r].text + Life
      BY <1>1, <1>2, <2>1, TokenAssumption DEF TokenInv, InFlightInv
    <2>3. QED
      BY <1>1, <2>2 DEF TokenInv, InFlightInv, Open
  <1>5. TogetherInv' /\ ExchangedInv' /\ SignedOutInv' /\ ExchangedOnce' /\ ExchangedWithinLife'
    BY <1>1 DEF TokenInv, TogetherInv, ExchangedInv, SignedOutInv, ExchangedOnce, ExchangedWithinLife,
           Open
  <1>6. HoldersInv'
    BY <1>1 DEF TokenInv, HoldersInv, Holders, SignedIn, RefreshesMet, Open
  <1>7. QED
    BY <1>3, <1>4, <1>5, <1>6 DEF TokenInv

LEMMA TokenStep == TokenInv /\ [TokenNext]_tokenVars => TokenInv'
  BY TokenSignIn, TokenPresent, TokenExchange, TokenLoadForSignOut, TokenSignOut, TokenRest
     DEF TokenNext

LEMMA TokenMeans == TokenInv => TokensSound
  <1> SUFFICES ASSUME TokenInv PROVE TokensSound
    OBVIOUS
  <1>1. TokenTypeOK
    BY TokenAssumption
       DEF TokenInv, TokenTypeInv, TokenTypeOK, TokenRows, TokenMakers, TokenRequestType
  <1>3. SignOutComplete
    <2> SUFFICES ASSUME NEW out \in SignOuts, request[out].pc = "done", NEW t \in tokens,
                        NEW row \in request[out].rows, ~ t.revoked, {t.by, out} \notin overlap
                 PROVE  t.by # row /\ <<t.by, row>> \notin parent
      BY DEF SignOutComplete
    <2>1. t.by # row
      BY DEF TokenInv, SignedOutInv
    <2>2. ASSUME <<t.by, row>> \in parent PROVE FALSE
      BY <2>2 DEF TokenInv, ExchangedInv
    <2>3. QED
      BY <2>1, <2>2
  <1>4. LivePerSignIn
    <2>1. CASE RefreshesMet
      BY <2>1 DEF RefreshesMet, LivePerSignIn
    <2>2. CASE ~ RefreshesMet
      <3> DEFINE L == {t \in tokens : Live(t)}
                 f == [t \in L |-> t.by]
      <3>1. \A t, u \in L : t.by = u.by => t = u
        BY DEF TokenInv, TokenTypeInv
      <3>2. \A t \in L : t.by \in Holders
        BY DEF TokenInv, TokenTypeInv, TokenRows, Holders, Live
      <3>3. f \in Injection(L, Holders)
        <4>1. f \in [L -> Holders] /\ \A t \in L : f[t] = t.by
          BY <3>2
        <4> HIDE DEF f, L
        <4>2. QED
          BY <3>1, <4>1 DEF Injection, IsInjective
      <3>4. /\ IsFiniteSet(Holders) /\ Cardinality(Holders) <= Cardinality(SignedIn)
            /\ Cardinality(Holders) \in Nat /\ Cardinality(SignedIn) \in Nat
        BY <2>2, FS_CardinalityType DEF TokenInv, HoldersInv
      <3>5. IsFiniteSet(L) /\ Cardinality(L) <= Cardinality(Holders) /\ Cardinality(L) \in Nat
        BY <3>3, <3>4, FS_Injection, FS_CardinalityType
      <3>6. QED
        BY <3>4, <3>5 DEF LivePerSignIn, SignedIn
    <2>3. QED
      BY <2>1, <2>2
  <1>5. QED
    BY <1>1, <1>3, <1>4 DEF TokenInv, TokensSound

\* Rotation hands tokens on one for one, within their lives and not past a sign-out, however
\* sign-ins, refreshes and sign-outs overlap (auth.py:145-218).
THEOREM TokensAreSound == TokenInit /\ [][TokenNext]_tokenVars => []TokensSound
  BY TokenInitially, TokenStep, TokenMeans, PTL

---------------------------------------------------------------------------
(***************************************************************************)
(* API keys                                                                *)
(***************************************************************************)
New == [pc |-> "new"]
KeyHits == Uses \X (0 .. LastMoment)

KeyTypeInv ==
  /\ moment \in 0 .. LastMoment /\ keys \subseteq KeyRow
  /\ \A k, l \in keys : k.name = l.name => k = l
  /\ DOMAIN call = KeyCalls
  /\ \A c \in Issues : call[c] \in [pc : {"new", "done", "refused"}]
  /\ \A c \in Revokes : call[c] \in {New} \union [pc : {"revoke", "done"}, name : KeyNames]
  /\ \A c \in Uses : call[c] \in {New} \union [pc : {"stamp", "limit", "done", "refused"},
                                               name : KeyNames]
  /\ loaded \in [Uses -> SUBSET KeyRow] /\ holding \in [KeyNames -> SUBSET Uses]
  /\ window \in [Servers -> [KeyNames -> SUBSET KeyHits]]

\* A key that somebody is about to revoke, or has revoked, has a row; no row is ever deleted.
RevokedExist ==
  \A c \in Revokes : call[c].pc \in {"revoke", "done"} => \E k \in keys : k.name = call[c].name

\* A request about to stamp a key loaded its row, and no time has passed since.
StampInv ==
  \A c \in Uses : call[c].pc = "stamp" =>
    /\ \E k \in KeyRow : loaded[c] = {k} /\ k.name = call[c].name
    /\ \E k \in keys : k.name = call[c].name /\ moment <= k.expires

\* A process remembers each request it served as long as the window lasts, and each was
\* served once.
RememberedInv ==
  /\ \A s \in Servers, n \in KeyNames : IsFiniteSet(window[s][n])
  /\ \A r \in served : /\ r.use \in Uses /\ r.at \in 0 .. moment /\ call[r.use].pc = "done"
                       /\ r.by \in Servers /\ r.key \in KeyNames
                       /\ r.at > moment - KeyWindow => <<r.use, r.at>> \in window[r.by][r.key]
  /\ \A r, q \in served : r.use = q.use => r = q

KeyInv ==
  /\ KeyTypeInv /\ RevokedExist /\ StampInv /\ RememberedInv
  /\ RevokedStays /\ RevokedServesNobodyNew /\ UsedWithinLife /\ WindowBounded

---------------------------------------------------------------------------
LEMMA KeyInitially == ApiKeyInit => KeyInv
  <1> SUFFICES ASSUME ApiKeyInit PROVE KeyInv
    OBVIOUS
  <1> USE DEF ApiKeyInit
  <1>1. KeyTypeInv
    BY ApiKeyAssumption DEF KeyTypeInv, KeyCalls, New
  <1>2. RevokedExist /\ StampInv /\ RevokedStays /\ RevokedServesNobodyNew /\ UsedWithinLife
    BY DEF RevokedExist, StampInv, RevokedStays, RevokedServesNobodyNew, UsedWithinLife, LoadedBy,
           KeyCalls
  <1>3. RememberedInv
    BY FS_EmptySet DEF RememberedInv
  <1>4. WindowBounded
    <2>1. \A s, n, t :
            {r \in served : r.by = s /\ r.key = n /\ r.at \in t .. (t + KeyWindow - 1)} = {}
      OBVIOUS
    <2>2. QED
      BY <2>1, FS_EmptySet, ApiKeyAssumption DEF WindowBounded
  <1>5. QED
    BY <1>1, <1>2, <1>3, <1>4 DEF KeyInv

LEMMA KeyIssue ==
  ASSUME KeyInv, NEW c \in KeyCalls, IssueKey(c)
  PROVE  KeyInv'
  <1>1. /\ c \in Issues /\ c \notin Uses /\ c \notin Revokes /\ call[c].pc = "new"
        /\ UNCHANGED <<moment, window, served, loaded, holding>>
    BY ApiKeyAssumption DEF IssueKey
  <1>2. PICK n \in KeyNames, e \in {moment, Unending} :
           IF \E k \in keys : k.name = n
           THEN Step(c, "refused") /\ UNCHANGED keys
           ELSE /\ keys' = keys \union {[name |-> n, active |-> TRUE, expires |-> e, used |-> Unset]}
                /\ Step(c, "done")
    BY DEF IssueKey
  <1> DEFINE new == [name |-> n, active |-> TRUE, expires |-> e, used |-> Unset]
  <1>3. /\ new \in KeyRow /\ new.name = n /\ new.used <= new.expires /\ new.active
    BY ApiKeyAssumption DEF KeyInv, KeyTypeInv, KeyRow, Unset, Unending
  <1>4. /\ DOMAIN call' = KeyCalls /\ call'[c] \in [pc : {"new", "done", "refused"}]
        /\ \A q \in KeyCalls \ {c} : call'[q] = call[q]
    BY <1>1, <1>2 DEF KeyInv, KeyTypeInv, Step
  <1>5. /\ \A q \in Uses \union Revokes : call'[q] = call[q]
        /\ \A m : Withdrawn(m)' = Withdrawn(m)
        /\ \A m : LoadedBy(m)' = LoadedBy(m)
    BY <1>1, <1>4 DEF KeyCalls, Withdrawn, LoadedBy
  <1>6. \/ keys' = keys
        \/ keys' = keys \union {new} /\ \A k \in keys : k.name # n
    BY <1>2
  <1> HIDE DEF new
  <1>7. \A k \in keys' : k \in keys \/ (k = new /\ \A l \in keys : l.name # n)
    BY <1>6
  <1>8. keys \subseteq keys'
    BY <1>6
  <1>9. KeyTypeInv'
    BY <1>1, <1>3, <1>4, <1>5, <1>7 DEF KeyInv, KeyTypeInv, KeyCalls
  <1>10. RevokedExist' /\ StampInv'
    BY <1>1, <1>5, <1>8 DEF KeyInv, RevokedExist, StampInv
  <1>11. RevokedStays'
    <2>1. \A m : Withdrawn(m) => \E k \in keys : k.name = m
      BY DEF KeyInv, RevokedExist, Withdrawn
    <2>2. QED
      BY <1>3, <1>5, <1>7, <2>1 DEF KeyInv, RevokedStays
  <1>12. RevokedServesNobodyNew' /\ UsedWithinLife' /\ WindowBounded'
    BY <1>1, <1>3, <1>5, <1>7
       DEF KeyInv, RevokedServesNobodyNew, UsedWithinLife, WindowBounded
  <1>13. RememberedInv'
    BY <1>1, <1>5 DEF KeyInv, RememberedInv
  <1>14. QED
    BY <1>9, <1>10, <1>11, <1>12, <1>13 DEF KeyInv

LEMMA KeyLoadToRevoke ==
  ASSUME KeyInv, NEW c \in KeyCalls, LoadToRevoke(c)
  PROVE  KeyInv'
  <1>1. /\ c \in Revokes /\ c \notin Uses /\ c \notin Issues /\ call[c].pc = "new"
        /\ UNCHANGED <<moment, keys, window, served, loaded, holding>>
    BY ApiKeyAssumption DEF LoadToRevoke
  <1>2. PICK k \in keys : Loads(c, "revoke", k.name)
    BY DEF LoadToRevoke
  <1>3. /\ DOMAIN call' = KeyCalls /\ call'[c] = [pc |-> "revoke", name |-> k.name]
        /\ \A q \in KeyCalls \ {c} : call'[q] = call[q] /\ k.name \in KeyNames
    BY <1>2 DEF KeyInv, KeyTypeInv, Loads, KeyRow
  <1>4. /\ \A q \in Uses \union Issues : call'[q] = call[q]
        /\ \A m : Withdrawn(m)' = Withdrawn(m)
        /\ \A m : LoadedBy(m)' = LoadedBy(m)
    BY <1>1, <1>3 DEF KeyCalls, Withdrawn, LoadedBy
  <1>5. KeyTypeInv'
    <2>1. k.name \in KeyNames
      BY DEF KeyInv, KeyTypeInv, KeyRow
    <2>2. QED
      BY <1>1, <1>3, <1>4, <2>1 DEF KeyInv, KeyTypeInv, KeyCalls
  <1>6. RevokedExist' /\ StampInv'
    BY <1>1, <1>3, <1>4 DEF KeyInv, RevokedExist, StampInv, KeyCalls
  <1>7. RevokedStays' /\ RevokedServesNobodyNew' /\ UsedWithinLife' /\ WindowBounded'
    BY <1>1, <1>4
       DEF KeyInv, RevokedStays, RevokedServesNobodyNew, UsedWithinLife, WindowBounded
  <1>8. RememberedInv'
    BY <1>1, <1>4 DEF KeyInv, RememberedInv
  <1>9. QED
    BY <1>5, <1>6, <1>7, <1>8 DEF KeyInv

LEMMA KeyRevoke ==
  ASSUME KeyInv, NEW c \in KeyCalls, RevokeKey(c)
  PROVE  KeyInv'
  <1> DEFINE n == call[c].name
             f(k) == IF k.name = n THEN [k EXCEPT !.active = FALSE] ELSE k
  <1>1. /\ c \in Revokes /\ c \notin Uses /\ c \notin Issues /\ call[c].pc = "revoke"
        /\ keys' = {f(k) : k \in keys} /\ Step(c, "done")
        /\ holding' = [holding EXCEPT ![n] = IF Withdrawn(n) THEN holding[n] ELSE LoadedBy(n)]
        /\ UNCHANGED <<moment, window, served, loaded>>
    BY ApiKeyAssumption DEF RevokeKey
  <1>2. call[c] \in [pc : {"revoke", "done"}, name : KeyNames] /\ n \in KeyNames
    BY <1>1 DEF KeyInv, KeyTypeInv, New
  <1>3. /\ DOMAIN call' = KeyCalls /\ call'[c] \in [pc : {"revoke", "done"}, name : KeyNames]
        /\ call'[c].pc = "done" /\ call'[c].name = n
        /\ \A q \in KeyCalls \ {c} : call'[q] = call[q]
    BY <1>1, <1>2 DEF KeyInv, KeyTypeInv, Step
  <1>4. \A k \in keys : /\ f(k) \in KeyRow /\ f(k).name = k.name /\ f(k).expires = k.expires
                        /\ f(k).used = k.used /\ (f(k).active => k.active)
                        /\ k.name = n => ~ f(k).active
    BY DEF KeyInv, KeyTypeInv, KeyRow
  <1> HIDE DEF f, n
  <1>5. /\ \A q \in Uses \union Issues : call'[q] = call[q]
        /\ \A m : Withdrawn(m)' <=> (Withdrawn(m) \/ m = n)
        /\ \A m : LoadedBy(m)' = LoadedBy(m)
    BY <1>1, <1>3 DEF KeyCalls, Withdrawn, LoadedBy
  <1>6. \A k \in keys' : \E l \in keys : k = f(l)
    BY <1>1
  <1>7. \A l \in keys : f(l) \in keys'
    BY <1>1
  <1>8. KeyTypeInv'
    <2>1. LoadedBy(n) \subseteq Uses
      BY DEF LoadedBy
    <2>2. \A k, l \in keys' : k.name = l.name => k = l
      BY <1>4, <1>6 DEF KeyInv, KeyTypeInv
    <2>3. keys' \subseteq KeyRow
      BY <1>4, <1>6
    <2>4. holding' \in [KeyNames -> SUBSET Uses]
      BY <1>1, <1>2, <2>1 DEF KeyInv, KeyTypeInv
    <2>5. QED
      BY <1>1, <1>3, <1>5, <2>2, <2>3, <2>4 DEF KeyInv, KeyTypeInv, KeyCalls
  <1>9. RevokedExist'
    <2> SUFFICES ASSUME NEW q \in Revokes, call'[q].pc \in {"revoke", "done"}
                 PROVE  \E k \in keys' : k.name = call'[q].name
      BY DEF RevokedExist
    <2>1. call'[q].name = call[q].name /\ call[q].pc \in {"revoke", "done"}
      BY <1>1, <1>3 DEF KeyCalls, n
    <2>2. PICK k \in keys : k.name = call[q].name
      BY <2>1 DEF KeyInv, RevokedExist
    <2>3. QED
      BY <1>4, <1>7, <2>1, <2>2
  <1>10. StampInv'
    <2> SUFFICES ASSUME NEW q \in Uses, call[q].pc = "stamp" PROVE StampInv!(q)'
      BY <1>5 DEF StampInv
    <2>1. PICK k \in keys : k.name = call[q].name /\ moment <= k.expires
      BY DEF KeyInv, StampInv
    <2>2. f(k) \in keys' /\ f(k).name = call[q].name /\ moment <= f(k).expires
      BY <1>4, <1>7, <2>1
    <2>3. QED
      BY <1>1, <1>5, <2>2 DEF KeyInv, StampInv
  <1>11. RevokedStays' /\ UsedWithinLife'
    BY <1>4, <1>5, <1>6 DEF KeyInv, RevokedStays, UsedWithinLife
  <1>12. RevokedServesNobodyNew'
    BY <1>1, <1>2, <1>5 DEF KeyInv, KeyTypeInv, RevokedServesNobodyNew
  <1>13. RememberedInv' /\ WindowBounded'
    BY <1>1, <1>5 DEF KeyInv, RememberedInv, WindowBounded
  <1>14. QED
    BY <1>8, <1>9, <1>10, <1>11, <1>12, <1>13 DEF KeyInv

LEMMA KeyLoad ==
  ASSUME KeyInv, NEW c \in KeyCalls, LoadKey(c)
  PROVE  KeyInv'
  <1>1. /\ c \in Uses /\ c \notin Revokes /\ c \notin Issues /\ call[c].pc = "new"
        /\ UNCHANGED <<moment, keys, window, served, holding>>
    BY ApiKeyAssumption DEF LoadKey
  <1>2. PICK k \in keys :
           \/ Valid(k) /\ Loads(c, "stamp", k.name) /\ loaded' = [loaded EXCEPT ![c] = {k}]
           \/ ~ Valid(k) /\ Loads(c, "refused", k.name) /\ UNCHANGED loaded
    BY DEF LoadKey
  <1>3. k \in KeyRow /\ k.name \in KeyNames
    BY DEF KeyInv, KeyTypeInv, KeyRow
  <1>4. /\ DOMAIN call' = KeyCalls /\ call'[c].name = k.name
        /\ call'[c] \in [pc : {"stamp", "refused"}, name : KeyNames]
        /\ \A q \in KeyCalls \ {c} : call'[q] = call[q]
        /\ call'[c].pc = "stamp" => Valid(k) /\ loaded' = [loaded EXCEPT ![c] = {k}]
    BY <1>2, <1>3 DEF KeyInv, KeyTypeInv, Loads
  <1>5. /\ loaded' \in [Uses -> SUBSET KeyRow]
        /\ \A q \in Uses \ {c} : loaded'[q] = loaded[q]
        /\ loaded'[c] = loaded[c] \/ (Valid(k) /\ loaded'[c] = {k})
        /\ call'[c].pc = "stamp" => Valid(k) /\ loaded'[c] = {k}
    BY <1>1, <1>2, <1>3, <1>4 DEF KeyInv, KeyTypeInv
  <1>6. /\ \A q \in Revokes \union Issues : call'[q] = call[q]
        /\ \A m : Withdrawn(m)' = Withdrawn(m)
    BY <1>1, <1>4 DEF KeyCalls, Withdrawn
  <1>7. KeyTypeInv'
    <2>1. \A q \in Uses : call'[q] \in {New} \union [pc : {"stamp", "limit", "done", "refused"},
                                                     name : KeyNames]
      BY <1>4 DEF KeyInv, KeyTypeInv, KeyCalls
    <2>2. QED
      BY <1>1, <1>4, <1>5, <1>6, <2>1 DEF KeyInv, KeyTypeInv
  <1>8. RevokedExist' /\ RevokedStays' /\ UsedWithinLife' /\ WindowBounded'
    BY <1>1, <1>6 DEF KeyInv, RevokedExist, RevokedStays, UsedWithinLife, WindowBounded
  <1>9. StampInv'
    <2>1. Valid(k) => moment <= k.expires
      BY DEF Valid
    <2>2. QED
      BY <1>1, <1>3, <1>4, <1>5, <2>1 DEF KeyInv, StampInv, KeyCalls
  <1>10. RevokedServesNobodyNew'
    <2> SUFFICES ASSUME NEW m \in KeyNames, Withdrawn(m), NEW u \in Uses,
                        NEW l \in loaded'[u], l.name = m
                 PROVE  u \in holding[m]
      BY <1>1, <1>6 DEF RevokedServesNobodyNew, LoadedBy
    <2>1. CASE l \in loaded[u]
      BY <2>1 DEF KeyInv, RevokedServesNobodyNew, LoadedBy
    <2>2. CASE l = k /\ Valid(k)
      BY <2>2 DEF KeyInv, RevokedStays, Valid
    <2>3. QED
      BY <1>5, <2>1, <2>2
  <1>11. RememberedInv'
    <2>1. \A r \in served : r.use # c /\ call'[r.use] = call[r.use]
      BY <1>1, <1>4 DEF KeyInv, RememberedInv, KeyCalls
    <2>2. QED
      BY <1>1, <2>1 DEF KeyInv, RememberedInv
  <1>12. QED
    BY <1>7, <1>8, <1>9, <1>10, <1>11 DEF KeyInv

LEMMA KeyStamp ==
  ASSUME KeyInv, NEW c \in KeyCalls, StampUse(c)
  PROVE  KeyInv'
  <1>1. /\ c \in Uses /\ c \notin Revokes /\ c \notin Issues /\ call[c].pc = "stamp"
        /\ keys' = {IF k.name = call[c].name THEN Used(k, was) ELSE k : k \in keys, was \in loaded[c]}
        /\ Step(c, "limit")
        /\ UNCHANGED <<moment, window, served, loaded, holding>>
    BY ApiKeyAssumption DEF StampUse
  <1>2. PICK w \in KeyRow : loaded[c] = {w} /\ w.name = call[c].name
    BY <1>1 DEF KeyInv, StampInv
  <1> DEFINE n == call[c].name
             f(k) == IF k.name = n THEN [k EXCEPT !.used = moment] ELSE k
  <1>3. keys' = {f(k) : k \in keys}
    BY <1>1, <1>2 DEF Used
  <1>4. n \in KeyNames /\ call[c] \in [pc : {"stamp", "limit", "done", "refused"}, name : KeyNames]
    BY <1>1 DEF KeyInv, KeyTypeInv, New
  <1>5. /\ DOMAIN call' = KeyCalls /\ call'[c].pc = "limit"
        /\ call'[c] \in [pc : {"stamp", "limit", "done", "refused"}, name : KeyNames]
        /\ \A q \in KeyCalls \ {c} : call'[q] = call[q]
    BY <1>1, <1>4 DEF KeyInv, KeyTypeInv, Step
  <1>6. \A k \in keys : k.name = n => moment <= k.expires
    BY <1>1 DEF KeyInv, KeyTypeInv, StampInv
  <1>7. \A k \in keys : /\ f(k) \in KeyRow /\ f(k).name = k.name /\ f(k).expires = k.expires
                        /\ f(k).active = k.active /\ f(k).used <= f(k).expires
    BY <1>6 DEF KeyInv, KeyTypeInv, KeyRow, UsedWithinLife, Unset
  <1> HIDE DEF f, n
  <1>8. \A k \in keys' : \E l \in keys : k = f(l)
    BY <1>3
  <1>9. \A l \in keys : f(l) \in keys'
    BY <1>3
  <1>10. /\ \A q \in Revokes \union Issues : call'[q] = call[q]
         /\ \A m : Withdrawn(m)' = Withdrawn(m)
         /\ \A m : LoadedBy(m)' = LoadedBy(m)
    BY <1>1, <1>5 DEF KeyCalls, Withdrawn, LoadedBy
  <1>11. KeyTypeInv'
    <2>1. \A q \in Uses : call'[q] \in {New} \union [pc : {"stamp", "limit", "done", "refused"},
                                                     name : KeyNames]
      BY <1>5 DEF KeyInv, KeyTypeInv, KeyCalls
    <2>2. \A k, l \in keys' : k.name = l.name => k = l
      BY <1>7, <1>8 DEF KeyInv, KeyTypeInv
    <2>3. keys' \subseteq KeyRow
      BY <1>7, <1>8
    <2>4. QED
      BY <1>1, <1>5, <1>10, <2>1, <2>2, <2>3 DEF KeyInv, KeyTypeInv
  <1>12. RevokedExist'
    <2> SUFFICES ASSUME NEW q \in Revokes, call[q].pc \in {"revoke", "done"}
                 PROVE  \E k \in keys' : k.name = call[q].name
      BY <1>10 DEF RevokedExist
    <2>1. PICK k \in keys : k.name = call[q].name
      BY DEF KeyInv, RevokedExist
    <2>2. QED
      BY <1>7, <1>9, <2>1
  <1>13. StampInv'
    <2> SUFFICES ASSUME NEW q \in Uses, q # c, call[q].pc = "stamp" PROVE StampInv!(q)'
      BY <1>5 DEF StampInv, KeyCalls
    <2>1. call'[q] = call[q]
      BY <1>5 DEF KeyCalls
    <2>2. PICK k \in keys : k.name = call[q].name /\ moment <= k.expires
      BY DEF KeyInv, StampInv
    <2>3. f(k) \in keys' /\ f(k).name = call[q].name /\ moment <= f(k).expires
      BY <1>7, <1>9, <2>2
    <2>4. QED
      BY <1>1, <2>1, <2>3 DEF KeyInv, StampInv
  <1>14. RevokedStays' /\ UsedWithinLife' /\ RevokedServesNobodyNew' /\ WindowBounded'
    BY <1>1, <1>7, <1>8, <1>10
       DEF KeyInv, RevokedStays, UsedWithinLife, RevokedServesNobodyNew, WindowBounded
  <1>15. RememberedInv'
    <2>1. \A r \in served : r.use # c /\ call'[r.use] = call[r.use]
      BY <1>1, <1>5 DEF KeyInv, RememberedInv, KeyCalls
    <2>2. QED
      BY <1>1, <2>1 DEF KeyInv, RememberedInv
  <1>16. QED
    BY <1>11, <1>12, <1>13, <1>14, <1>15 DEF KeyInv

\* What a process served of a key in a window of time.
ServedIn(s, n, t) == {r \in served : r.by = s /\ r.key = n /\ r.at \in t .. (t + KeyWindow - 1)}

\* Of a window that reaches the present, a process remembers all it served.
LEMMA AllRemembered ==
  ASSUME KeyInv, NEW s \in Servers, NEW n \in KeyNames, NEW t \in 0 .. LastMoment,
         t > moment - KeyWindow
  PROVE  LET kept == {h \in window[s][n] : h[2] > moment - KeyWindow}
         IN /\ IsFiniteSet(kept) /\ Cardinality(kept) \in Nat
            /\ IsFiniteSet(ServedIn(s, n, t))
            /\ Cardinality(ServedIn(s, n, t)) <= Cardinality(kept)
            /\ Cardinality(ServedIn(s, n, t)) \in Nat
  <1> DEFINE kept == {h \in window[s][n] : h[2] > moment - KeyWindow}
             S == ServedIn(s, n, t)
             f == [r \in S |-> <<r.use, r.at>>]
  <1>1. IsFiniteSet(kept) /\ Cardinality(kept) \in Nat
    BY FS_Subset, FS_CardinalityType DEF KeyInv, RememberedInv
  <1>2. \A r \in S : <<r.use, r.at>> \in kept
    <2> SUFFICES ASSUME NEW r \in S PROVE <<r.use, r.at>> \in kept
      OBVIOUS
    <2>1. /\ r \in served /\ r.by = s /\ r.key = n /\ r.at \in t .. (t + KeyWindow - 1)
          /\ r.at \in Nat
      BY DEF ServedIn, KeyInv, RememberedInv
    <2>2. r.at > moment - KeyWindow
      BY <2>1, ApiKeyAssumption DEF KeyInv, KeyTypeInv
    <2>3. QED
      BY <2>1, <2>2 DEF KeyInv, RememberedInv
  <1>3. \A r, q \in S : <<r.use, r.at>> = <<q.use, q.at>> => r = q
    BY DEF ServedIn, KeyInv, RememberedInv
  <1>4. f \in [S -> kept] /\ \A r \in S : f[r] = <<r.use, r.at>>
    BY <1>2
  <1> HIDE DEF f, S, kept
  <1>5. f \in Injection(S, kept)
    BY <1>3, <1>4 DEF Injection, IsInjective
  <1>6. IsFiniteSet(S) /\ Cardinality(S) <= Cardinality(kept) /\ Cardinality(S) \in Nat
    BY <1>1, <1>5, FS_Injection, FS_CardinalityType
  <1>7. QED
    BY <1>1, <1>6 DEF S, kept

LEMMA KeyCheckRate ==
  ASSUME KeyInv, NEW c \in KeyCalls, CheckKeyRate(c)
  PROVE  KeyInv'
  <1> DEFINE n == call[c].name
             recent(s) == {h \in window[s][n] : h[2] > moment - KeyWindow}
             new(s) == [use |-> c, by |-> s, key |-> n, at |-> moment]
  <1>1. /\ c \in Uses /\ c \notin Revokes /\ c \notin Issues /\ call[c].pc = "limit"
        /\ UNCHANGED <<moment, keys, loaded, holding>>
    BY ApiKeyAssumption DEF CheckKeyRate
  <1>2. PICK s \in Servers :
           IF Full(recent(s))
           THEN /\ window' = [window EXCEPT ![s][n] = recent(s)]
                /\ Step(c, "refused") /\ UNCHANGED served
           ELSE /\ window' = [window EXCEPT ![s][n] = recent(s) \union {<<c, moment>>}]
                /\ served' = served \union {new(s)}
                /\ Step(c, "done")
    BY DEF CheckKeyRate
  <1>3. n \in KeyNames /\ call[c] \in [pc : {"stamp", "limit", "done", "refused"}, name : KeyNames]
    BY <1>1 DEF KeyInv, KeyTypeInv, New
  <1>4. /\ DOMAIN call' = KeyCalls
        /\ call'[c] \in [pc : {"done", "refused"}, name : KeyNames]
        /\ \A q \in KeyCalls \ {c} : call'[q] = call[q]
        /\ ~ Full(recent(s)) => call'[c].pc = "done"
    BY <1>2, <1>3 DEF KeyInv, KeyTypeInv, Step
  <1>5. moment \in 0 .. LastMoment
    BY DEF KeyInv, KeyTypeInv
  <1> DEFINE H == recent(s)  W == window'[s][n]
  <1>6. /\ H \subseteq window[s][n] /\ H \subseteq KeyHits
        /\ \A h \in window[s][n] : h[2] > moment - KeyWindow => h \in H
    BY <1>3 DEF KeyInv, KeyTypeInv
  <1>7. /\ window' \in [Servers -> [KeyNames -> SUBSET KeyHits]]
        /\ \A z \in Servers, m \in KeyNames : z # s \/ m # n => window'[z][m] = window[z][m]
        /\ W = H \/ W = H \union {<<c, moment>>}
        /\ ~ Full(H) => W = H \union {<<c, moment>>}
    <2>1. <<c, moment>> \in KeyHits
      BY <1>1, <1>5 DEF KeyHits
    <2>2. window \in [Servers -> [KeyNames -> SUBSET KeyHits]]
      BY DEF KeyInv, KeyTypeInv
    <2> HIDE DEF n
    <2>3. \E V \in SUBSET KeyHits : /\ window' = [window EXCEPT ![s][n] = V]
                                    /\ V = H \/ V = H \union {<<c, moment>>}
                                    /\ ~ Full(H) => V = H \union {<<c, moment>>}
      BY <1>2, <1>6, <2>1
    <2>4. PICK V \in SUBSET KeyHits : /\ window' = [window EXCEPT ![s][n] = V]
                                      /\ V = H \/ V = H \union {<<c, moment>>}
                                      /\ ~ Full(H) => V = H \union {<<c, moment>>}
      BY <2>3
    <2> HIDE DEF H
    <2>5. QED
      BY <1>3, <2>2, <2>4
  <1>8. H \subseteq W
    BY <1>7
  <1>9. /\ \A q \in Revokes \union Issues : call'[q] = call[q]
        /\ \A m : Withdrawn(m)' = Withdrawn(m)
        /\ \A m : LoadedBy(m)' = LoadedBy(m)
    BY <1>1, <1>4 DEF KeyCalls, Withdrawn, LoadedBy
  <1>10. \/ served' = served
         \/ /\ ~ Full(H) /\ served' = served \union {new(s)} /\ call'[c].pc = "done"
    BY <1>2, <1>4
  <1>11. new(s).use = c /\ new(s).by = s /\ new(s).key = n /\ new(s).at = moment
    OBVIOUS
  <1>12. \A r \in served : r.use # c
    BY <1>1 DEF KeyInv, RememberedInv
  <1> HIDE DEF n, recent, new, H, W
  <1>13. KeyTypeInv'
    <2>1. \A q \in Uses : call'[q] \in {New} \union [pc : {"stamp", "limit", "done", "refused"},
                                                     name : KeyNames]
      BY <1>4 DEF KeyInv, KeyTypeInv, KeyCalls
    <2>2. QED
      BY <1>1, <1>4, <1>7, <1>9, <2>1 DEF KeyInv, KeyTypeInv
  <1>14. /\ RevokedExist' /\ StampInv' /\ RevokedStays' /\ RevokedServesNobodyNew'
         /\ UsedWithinLife'
    <2>1. RevokedExist' /\ RevokedStays' /\ RevokedServesNobodyNew' /\ UsedWithinLife'
      BY <1>1, <1>9 DEF KeyInv, RevokedExist, RevokedStays, RevokedServesNobodyNew, UsedWithinLife
    <2>2. \A q \in Uses : call'[q].pc = "stamp" => call'[q] = call[q]
      BY <1>4 DEF KeyCalls
    <2>3. StampInv'
      BY <1>1, <2>2 DEF KeyInv, StampInv
    <2>4. QED
      BY <2>1, <2>3
  <1>15. RememberedInv'
    <2>1. \A z \in Servers, m \in KeyNames : IsFiniteSet(window'[z][m])
      <3>1. IsFiniteSet(H)
        BY <1>3, <1>6, FS_Subset DEF KeyInv, RememberedInv
      <3>2. IsFiniteSet(W)
        <4>1. IsFiniteSet(H \union {<<c, moment>>})
          BY <3>1, OneMore
        <4>2. QED
          BY <1>7, <3>1, <4>1
      <3>3. QED
        BY <1>7, <3>2 DEF KeyInv, RememberedInv, W
    <2>2. ASSUME NEW r \in served
          PROVE  /\ r.use \in Uses /\ r.at \in 0 .. moment' /\ call'[r.use].pc = "done"
                 /\ r.by \in Servers /\ r.key \in KeyNames
                 /\ r.at > moment' - KeyWindow => <<r.use, r.at>> \in window'[r.by][r.key]
      <3>1. /\ r.use \in Uses /\ r.at \in 0 .. moment /\ call[r.use].pc = "done"
            /\ r.by \in Servers /\ r.key \in KeyNames
            /\ r.at > moment - KeyWindow => <<r.use, r.at>> \in window[r.by][r.key]
        BY DEF KeyInv, RememberedInv
      <3>2. call'[r.use] = call[r.use]
        BY <1>4, <1>12, <3>1 DEF KeyCalls
      <3>3. CASE r.by = s /\ r.key = n
        BY <1>1, <1>6, <1>8, <3>1, <3>2, <3>3 DEF W
      <3>4. CASE r.by # s \/ r.key # n
        BY <1>1, <1>7, <3>1, <3>2, <3>4
      <3>5. QED
        BY <3>3, <3>4
    <2>3. ASSUME NEW r \in served', r \notin served
          PROVE  /\ r.use \in Uses /\ r.at \in 0 .. moment' /\ call'[r.use].pc = "done"
                 /\ r.by \in Servers /\ r.key \in KeyNames
                 /\ r.at > moment' - KeyWindow => <<r.use, r.at>> \in window'[r.by][r.key]
      BY <1>1, <1>3, <1>5, <1>7, <1>10, <1>11, <2>3 DEF W
    <2>4. \A r, q \in served' : r.use = q.use => r = q
      BY <1>10, <1>11, <1>12 DEF KeyInv, RememberedInv
    <2>5. QED
      BY <2>1, <2>2, <2>3, <2>4 DEF RememberedInv
  <1>16. WindowBounded'
    <2> SUFFICES ASSUME NEW z \in Servers, NEW m \in KeyNames, NEW t \in 0 .. LastMoment
                 PROVE  Cardinality(ServedIn(z, m, t)') <= KeyLimit
      BY DEF WindowBounded, ServedIn
    <2>1. Cardinality(ServedIn(z, m, t)) <= KeyLimit
      BY DEF KeyInv, WindowBounded, ServedIn
    <2>2. CASE ServedIn(z, m, t)' = ServedIn(z, m, t)
      BY <2>1, <2>2
    <2>3. CASE ServedIn(z, m, t)' # ServedIn(z, m, t)
      <3>1. /\ ~ Full(H) /\ served' = served \union {new(s)} /\ z = s /\ m = n
            /\ moment \in t .. (t + KeyWindow - 1)
        BY <1>10, <1>11, <2>3 DEF ServedIn
      <3>2. ServedIn(z, m, t)' = ServedIn(s, n, t) \union {new(s)}
        BY <1>11, <3>1 DEF ServedIn
      <3>3. t > moment - KeyWindow
        BY <1>5, <3>1, ApiKeyAssumption
      <3>4. /\ IsFiniteSet(H) /\ Cardinality(H) \in Nat
            /\ IsFiniteSet(ServedIn(s, n, t)) /\ Cardinality(ServedIn(s, n, t)) <= Cardinality(H)
            /\ Cardinality(ServedIn(s, n, t)) \in Nat
        BY <1>3, <3>3, AllRemembered DEF H, recent
      <3>5. Cardinality(H) < KeyLimit
        BY <3>1, <3>4, ApiKeyAssumption DEF Full
      <3>6. Cardinality(ServedIn(s, n, t) \union {new(s)}) <= Cardinality(ServedIn(s, n, t)) + 1
        BY <3>4, OneMore
      <3>7. Cardinality(ServedIn(s, n, t) \union {new(s)}) \in Nat
        BY <3>4, OneMore
      <3>8. QED
        BY <3>2, <3>4, <3>5, <3>6, <3>7, ApiKeyAssumption
    <2>4. QED
      BY <2>2, <2>3
  <1>17. QED
    BY <1>13, <1>14, <1>15, <1>16 DEF KeyInv

LEMMA KeyRest ==
  ASSUME KeyInv, MomentPasses \/ UNCHANGED keyVars
  PROVE  KeyInv'
  <1>1. /\ UNCHANGED <<keys, call, window, served, loaded, holding>>
        /\ \/ moment' = moment
           \/ /\ moment < LastMoment /\ moment' = moment + 1
              /\ \A c \in KeyCalls : call[c].pc # "stamp"
    BY DEF MomentPasses, keyVars
  <1>2. moment \in Nat /\ moment' \in 0 .. LastMoment /\ moment <= moment'
    BY <1>1, ApiKeyAssumption DEF KeyInv, KeyTypeInv
  <1>3. KeyTypeInv' /\ RevokedExist'
    BY <1>1, <1>2 DEF KeyInv, KeyTypeInv, RevokedExist
  <1>4. StampInv'
    BY <1>1 DEF KeyInv, StampInv, KeyCalls
  <1>5. RevokedStays' /\ RevokedServesNobodyNew' /\ UsedWithinLife' /\ WindowBounded'
    BY <1>1 DEF KeyInv, RevokedStays, RevokedServesNobodyNew, UsedWithinLife, WindowBounded,
                Withdrawn, LoadedBy
  <1>6. RememberedInv'
    BY <1>1, <1>2, ApiKeyAssumption DEF KeyInv, RememberedInv
  <1>7. QED
    BY <1>3, <1>4, <1>5, <1>6 DEF KeyInv

LEMMA KeyStep == KeyInv /\ [KeyNext]_keyVars => KeyInv'
  BY KeyIssue, KeyLoadToRevoke, KeyRevoke, KeyLoad, KeyStamp, KeyCheckRate, KeyRest DEF KeyNext

LEMMA KeyMeans == KeyInv => KeysSound
  <1> SUFFICES ASSUME KeyInv PROVE KeysSound
    OBVIOUS
  <1>1. ApiKeyTypeOK
    <2>1. \A c \in KeyCalls : call[c].pc \in {"new", "stamp", "limit", "revoke", "done", "refused"}
      <3> SUFFICES ASSUME NEW c \in KeyCalls
                   PROVE  call[c].pc \in {"new", "stamp", "limit", "revoke", "done", "refused"}
        OBVIOUS
      <3>1. CASE c \in Issues
        BY <3>1 DEF KeyInv, KeyTypeInv
      <3>2. CASE c \in Revokes
        BY <3>2 DEF KeyInv, KeyTypeInv, New
      <3>3. CASE c \in Uses
        BY <3>3 DEF KeyInv, KeyTypeInv, New
      <3>4. QED
        BY <3>1, <3>2, <3>3 DEF KeyCalls
    <2>2. QED
      BY <2>1 DEF KeyInv, KeyTypeInv, ApiKeyTypeOK, KeyHits
  <1>2. QED
    BY <1>1 DEF KeyInv, KeysSound

\* Neither revocation, nor expiry, nor the window is passed by, however requests that issue, use
\* and revoke a key overlap (api_keys.py:116-175, public_api.py:26-59).
THEOREM KeysAreSound == ApiKeyInit /\ [][KeyNext]_keyVars => []KeysSound
  BY KeyInitially, KeyStep, KeyMeans, PTL

---------------------------------------------------------------------------
(***************************************************************************)
(* Login limits                                                            *)
(***************************************************************************)
AttemptStates ==
  [pc : {"new", "expire_hits", "locked", "verify", "count", "expire_failures", "reset", "end"}]
Counters == [n : Nat, until : 0 .. Forever]

LimitTypeInv ==
  /\ now \in 0 .. LastTick /\ hits \in Counters /\ failures \in Counters
  /\ attempt \in [Attempts -> AttemptStates] /\ admitted \in [Attempts -> Nat]
  /\ \A r \in Attempts : admitted[r] <= now \/ admitted[r] = Forever
  /\ \A r \in Attempts : attempt[r].pc = "new" => admitted[r] = Forever

\* Sign-ins that are under way together are excused, and whoever looks at a password without
\* an excuse has seen the account open, with nobody there to lock it since.
AloneInv ==
  /\ \A r, q \in Attempts : r # q /\ UnderWay(r) /\ UnderWay(q) => r \in excused
  /\ \A r \in Attempts : attempt[r].pc = "verify" => r \in excused \/ failures.n < FailureLimit

\* Sign-ins admitted at all, in a window that starts at t, since g, and from t until before g.
Admissions(when) == {r \in Attempts : when[r] # Forever}
AdmittedIn(when, t) == {r \in Attempts : when[r] \in t .. (t + HitWindow - 1)}
Since(when, g) == {r \in Attempts : when[r] >= g /\ when[r] # Forever}
Earlier(when, t, g) == {r \in Attempts : when[r] \in t .. (g - 1)}

\* The counter of requests that there is, or that there was last, was created at g by a request
\* that was admitted, has admitted no more than it counted, and lasts a window at the least. A
\* window that reaches g from before g misses the request that created the counter before it.
Generation(g) ==
  /\ g <= now
  /\ Cardinality(Since(admitted, g)) <= HitLimit
  /\ hits.n > 0 => /\ Cardinality(Since(admitted, g)) <= hits.n /\ hits.until >= g + HitWindow
                   /\ Admissions(admitted) # {}
  /\ hits.n = 0 /\ Admissions(admitted) # {} => now >= g + HitWindow
  /\ Admissions(admitted) # {} => \E r \in Attempts : admitted[r] = g
  /\ \A t \in Nat : t + HitWindow > g => Cardinality(Earlier(admitted, t, g)) < HitLimit

GenerationInv ==
  /\ IsFiniteSet(Admissions(admitted))
  /\ hits.n = 0 => /\ hits.until = Forever
                   /\ \A r \in Admissions(admitted) : admitted[r] < now
  /\ \E g \in Nat : Generation(g)

LimitInv ==
  /\ LimitTypeInv /\ AloneInv /\ GenerationInv
  /\ CountersEnd /\ BurstBounded /\ LockedUnlessTogether

---------------------------------------------------------------------------
LEMMA ForeverIsLate ==
  /\ Forever \in Nat /\ Forever > LastTick + HitWindow /\ Forever > LastTick + FailureWindow
  /\ HitWindow \in Nat /\ HitWindow > 0 /\ HitLimit \in Nat /\ HitLimit > 0
  /\ FailureWindow \in Nat /\ FailureWindow > 0 /\ FailureLimit \in Nat /\ FailureLimit > 0
  /\ LastTick \in Nat
  BY LimitAssumption DEF Forever

\* Two generations of the counter admit less than twice the limit, if one lacks its first.
LEMMA TwoGenerations ==
  ASSUME NEW when \in [Attempts -> Nat], \A r \in Attempts : when[r] <= LastTick \/ when[r] = Forever,
         IsFiniteSet(Admissions(when)), NEW t \in 0 .. LastTick, NEW g \in 0 .. LastTick,
         Cardinality(Since(when, g)) <= HitLimit, Cardinality(Earlier(when, t, g)) < HitLimit
  PROVE  Cardinality(AdmittedIn(when, t)) < 2 * HitLimit
  <1> DEFINE S == Since(when, g)  E == Earlier(when, t, g)  W == AdmittedIn(when, t)
  <1>1. S \subseteq Admissions(when) /\ E \subseteq Admissions(when)
    BY ForeverIsLate DEF Since, Earlier, Admissions
  <1>2. W \subseteq S \union E
    BY ForeverIsLate DEF Since, Earlier, AdmittedIn
  <1>3. Cardinality(S) <= HitLimit /\ Cardinality(E) < HitLimit
    OBVIOUS
  <1> HIDE DEF S, E, W
  <1>4. /\ IsFiniteSet(S) /\ IsFiniteSet(E)
        /\ Cardinality(S) \in Nat /\ Cardinality(E) \in Nat
    BY <1>1, FS_Subset, FS_CardinalityType
  <1>5. /\ IsFiniteSet(S \union E)
        /\ Cardinality(S \union E) = Cardinality(S) + Cardinality(E) - Cardinality(S \intersect E)
        /\ Cardinality(S \intersect E) \in Nat
    BY <1>4, FS_Union, FS_Intersection, FS_CardinalityType
  <1>6. Cardinality(W) <= Cardinality(S \union E) /\ Cardinality(W) \in Nat
    BY <1>2, <1>5, FS_Subset, FS_CardinalityType
  <1>7. Cardinality(W) < 2 * HitLimit
    BY <1>3, <1>4, <1>5, <1>6, ForeverIsLate
  <1>8. QED
    BY <1>7 DEF W

\* What the types mean for the fields.
LEMMA CounterFields ==
  /\ LimitTypeInv => /\ now \in Nat /\ now <= LastTick
                     /\ hits.n \in Nat /\ hits.until \in Nat
                     /\ failures.n \in Nat /\ failures.until \in Nat
  /\ \A k \in Counters : \A n \in Nat : /\ [k EXCEPT !.n = n] \in Counters
                                        /\ [k EXCEPT !.n = n].n = n
                                        /\ [k EXCEPT !.n = n].until = k.until
  /\ \A k \in Counters : \A u \in 0 .. Forever : /\ [k EXCEPT !.until = u] \in Counters
                                                 /\ [k EXCEPT !.until = u].until = u
                                                 /\ [k EXCEPT !.until = u].n = k.n
  BY ForeverIsLate DEF LimitTypeInv, Counters

LEMMA LimitInitially == LimitInit => LimitInv
  <1> SUFFICES ASSUME LimitInit PROVE LimitInv
    OBVIOUS
  <1>1. /\ now = 0 /\ hits = Absent /\ failures = Absent /\ lost = {} /\ late = {} /\ excused = {}
        /\ attempt = [r \in Attempts |-> [pc |-> "new"]]
        /\ admitted = [r \in Attempts |-> Forever]
    BY DEF LimitInit
  <1>2. Absent \in Counters /\ Absent.n = 0
    BY ForeverIsLate DEF Absent, Counters
  <1>3. LimitTypeInv
    BY <1>1, <1>2, ForeverIsLate DEF LimitTypeInv, AttemptStates
  <1>4. AloneInv /\ CountersEnd /\ LockedUnlessTogether
    BY <1>1, <1>2 DEF AloneInv, CountersEnd, LockedUnlessTogether, UnderWay
  <1>5. Admissions(admitted) = {} /\ \A g : Since(admitted, g) = {}
    BY <1>1 DEF Admissions, Since
  <1>6. \A t \in Nat : Earlier(admitted, t, 0) = {}
    BY <1>1, ForeverIsLate DEF Earlier
  <1>7. Generation(0)
    BY <1>1, <1>2, <1>5, <1>6, FS_EmptySet, ForeverIsLate DEF Generation
  <1>8. GenerationInv
    BY <1>1, <1>5, <1>7, FS_EmptySet DEF GenerationInv, Absent
  <1>9. BurstBounded
    <2>1. \A t \in 0 .. LastTick : {r \in Attempts : admitted[r] \in t .. (t + HitWindow - 1)} = {}
      BY <1>1, ForeverIsLate
    <2>2. QED
      BY <2>1, FS_EmptySet, ForeverIsLate DEF BurstBounded
  <1>10. QED
    BY <1>3, <1>4, <1>8, <1>9 DEF LimitInv

\* A step of a sign-in moves it, and nobody else.
LEMMA AttemptMoves ==
  ASSUME LimitTypeInv, NEW r \in Attempts, NEW pc, [pc |-> pc] \in AttemptStates, Goto(r, pc)
  PROVE  /\ attempt' \in [Attempts -> AttemptStates] /\ attempt'[r].pc = pc
         /\ \A q \in Attempts \ {r} : attempt'[q] = attempt[q]
  <1>1. attempt \in [Attempts -> AttemptStates] /\ attempt' = [attempt EXCEPT ![r].pc = pc]
    BY DEF LimitTypeInv, Goto
  <1>2. [attempt[r] EXCEPT !.pc = pc] = [pc |-> pc]
    BY <1>1 DEF AttemptStates
  <1>3. QED
    BY <1>1, <1>2 DEF AttemptStates

\* What steps that leave the counter of requests and the admissions alone need not look at.
LEMMA GenerationKept ==
  ASSUME LimitInv, UNCHANGED <<now, hits, admitted>>
  PROVE  GenerationInv' /\ BurstBounded'
  BY DEF LimitInv, GenerationInv, Generation, BurstBounded

LEMMA LimitCountHit ==
  ASSUME LimitInv, NEW r \in Attempts, CountHit(r)
  PROVE  LimitInv'
  <1> DEFINE n == hits.n + 1
  <1>1. /\ attempt[r].pc = "new" /\ hits' = [hits EXCEPT !.n = n]
        /\ admitted' = IF TooMany(n) THEN admitted ELSE [admitted EXCEPT ![r] = now]
        /\ excused' = excused \union Overlapping(r)
        /\ UNCHANGED <<now, failures, lost, late>>
    BY DEF CountHit
  <1>0. Goto(r, IF First(n) THEN "expire_hits" ELSE IF TooMany(n) THEN "end" ELSE "locked")
    BY DEF CountHit
  <1>2. /\ now \in 0 .. LastTick /\ now \in Nat /\ now <= LastTick
        /\ hits \in Counters /\ hits.n \in Nat /\ hits.until \in Nat
        /\ admitted \in [Attempts -> Nat] /\ admitted[r] = Forever
        /\ \A q \in Attempts : admitted[q] <= now \/ admitted[q] = Forever
    BY <1>1, CounterFields DEF LimitInv, LimitTypeInv
  <1>8. n \in Nat /\ n = hits.n + 1
    BY <1>2
  <1> HIDE DEF n
  <1>3. /\ attempt' \in [Attempts -> AttemptStates]
        /\ attempt'[r].pc \in {"expire_hits", "locked", "end"}
        /\ n = 1 => attempt'[r].pc = "expire_hits"
        /\ \A q \in Attempts \ {r} : attempt'[q] = attempt[q]
    BY <1>0, <1>1, AttemptMoves DEF LimitInv, AttemptStates, First
  <1>4. hits' \in Counters /\ hits'.n = n /\ hits'.until = hits.until
    BY <1>1, <1>2, <1>8, CounterFields
  <1>5. LimitTypeInv'
    <2>1. admitted' \in [Attempts -> Nat] /\ \A q \in Attempts : admitted'[q] = admitted[q] \/ admitted'[q] = now
      BY <1>1, <1>2
    <2>2. \A q \in Attempts \ {r} : admitted'[q] = admitted[q]
      BY <1>1, <1>2
    <2>3. QED
      BY <1>1, <1>2, <1>3, <1>4, <2>1, <2>2 DEF LimitInv, LimitTypeInv
  <1>6. AloneInv'
    <2>1. \A q \in Attempts \ {r} : UnderWay(q)' = UnderWay(q)
      BY <1>3 DEF UnderWay
    <2>2. ASSUME NEW q \in Attempts \ {r}, UnderWay(q)
          PROVE  q \in excused' /\ r \in excused'
      BY <1>1, <2>2 DEF Overlapping
    <2>3. \A p, q \in Attempts : p # q /\ UnderWay(p)' /\ UnderWay(q)' => p \in excused'
      BY <1>1, <2>1, <2>2 DEF LimitInv, AloneInv
    <2>4. QED
      BY <1>1, <1>3, <2>3 DEF LimitInv, AloneInv
  <1>7. CountersEnd' /\ LockedUnlessTogether'
    <2>1. /\ \/ hits'.n = 0 \/ hits'.until <= now' + HitWindow \/ "hits" \in lost'
             \/ \E q \in Attempts : attempt'[q].pc = "expire_hits"
      BY <1>1, <1>2, <1>3, <1>4, <1>8 DEF LimitInv, CountersEnd
    <2>2. \/ failures'.n = 0 \/ failures'.until <= now' + FailureWindow \/ "failures" \in lost'
          \/ \E q \in Attempts : attempt'[q].pc = "expire_failures"
      BY <1>1, <1>3 DEF LimitInv, CountersEnd
    <2>3. QED
      BY <1>1, <2>1, <2>2 DEF LimitInv, CountersEnd, LockedUnlessTogether
  <1>13. now' = now
    BY <1>1
  <1>9. TooMany(n) <=> n > HitLimit
    BY DEF TooMany
  <1>10. GenerationInv'
    <2>1. PICK g \in Nat : Generation(g)
      BY DEF LimitInv, GenerationInv
    <2>2. /\ g <= now /\ IsFiniteSet(Admissions(admitted))
          /\ hits.n = 0 => \A q \in Admissions(admitted) : admitted[q] < now
      BY <2>1 DEF Generation, LimitInv, GenerationInv
    <2>3. CASE TooMany(n)
      <3>1. admitted' = admitted /\ hits.n > 0
        BY <1>1, <1>2, <1>8, <1>9, <2>3, ForeverIsLate
      <3>2. Generation(g)'
        <4>1. /\ Cardinality(Since(admitted, g)) <= hits.n /\ hits.until >= g + HitWindow
              /\ Cardinality(Since(admitted, g)) <= HitLimit /\ Admissions(admitted) # {}
              /\ Cardinality(Since(admitted, g)) \in Nat
          <5>1. Since(admitted, g) \subseteq Admissions(admitted)
            BY DEF Since, Admissions
          <5>2. Cardinality(Since(admitted, g)) \in Nat
            BY <2>2, <5>1, FS_Subset, FS_CardinalityType
          <5>3. QED
            BY <2>1, <3>1, <5>2 DEF Generation
        <4>2. Cardinality(Since(admitted, g)) <= n
          BY <1>2, <1>8, <4>1
        <4>3. QED
          BY <1>2, <1>4, <1>8, <1>13, <2>1, <3>1, <4>1, <4>2, ForeverIsLate DEF Generation
      <3>3. QED
        BY <1>2, <1>4, <1>8, <2>2, <3>1, <3>2 DEF GenerationInv
    <2>4. CASE ~ TooMany(n)
      <3>1. /\ admitted' = [admitted EXCEPT ![r] = now] /\ n <= HitLimit /\ now # Forever
        BY <1>1, <1>2, <1>8, <1>9, <2>4, ForeverIsLate
      <3>2. admitted'[r] = now /\ \A q \in Attempts \ {r} : admitted'[q] = admitted[q]
        BY <1>2, <3>1
      <3>3. Admissions(admitted') = Admissions(admitted) \union {r}
        BY <3>1, <3>2 DEF Admissions
      <3>4. IsFiniteSet(Admissions(admitted'))
        BY <2>2, <3>3, OneMore
      <3>5. CASE hits.n = 0
        <4>1. Since(admitted', now) = {r}
          <5>1. \A q \in Attempts \ {r} : admitted'[q] < now \/ admitted'[q] = Forever
            BY <1>2, <2>2, <3>2, <3>5 DEF Admissions
          <5>2. QED
            BY <1>2, <3>1, <3>2, <5>1 DEF Since
        <4>2. Cardinality(Since(admitted', now)) = 1
          BY <4>1, FS_Singleton
        <4>3. ASSUME NEW t \in Nat, t + HitWindow > now
              PROVE  Cardinality(Earlier(admitted', t, now)) < HitLimit
          <5>1. Earlier(admitted', t, now) = Earlier(admitted, t, now)
            BY <1>2, <3>2, ForeverIsLate DEF Earlier
          <5>2. CASE Admissions(admitted) = {}
            <6>1. Earlier(admitted, t, now) = {}
              BY <1>2, <5>2, ForeverIsLate DEF Earlier, Admissions
            <6>2. QED
              BY <5>1, <6>1, FS_EmptySet, ForeverIsLate
          <5>3. CASE Admissions(admitted) # {}
            <6>1. PICK o \in Attempts : admitted[o] = g
              BY <2>1, <5>3 DEF Generation
            <6>2. now >= g + HitWindow /\ Cardinality(Since(admitted, g)) <= HitLimit
              BY <2>1, <3>5, <5>3 DEF Generation
            <6> DEFINE S == Since(admitted, g)
            <6>3. Earlier(admitted, t, now) \subseteq S \ {o} /\ o \in S /\ S \subseteq Admissions(admitted)
              BY <1>2, <2>2, <4>3, <6>1, <6>2, ForeverIsLate DEF Earlier, Since, Admissions
            <6> HIDE DEF S
            <6>4. IsFiniteSet(S) /\ Cardinality(S) \in Nat /\ Cardinality(S) <= HitLimit
              BY <2>2, <6>2, <6>3, FS_Subset, FS_CardinalityType DEF S
            <6>5. IsFiniteSet(S \ {o}) /\ Cardinality(S \ {o}) = Cardinality(S) - 1
              BY <6>3, <6>4, FS_RemoveElement
            <6>6. /\ Cardinality(Earlier(admitted, t, now)) <= Cardinality(S \ {o})
                  /\ Cardinality(Earlier(admitted, t, now)) \in Nat
              BY <6>3, <6>5, FS_Subset, FS_CardinalityType
            <6>7. QED
              BY <5>1, <6>4, <6>5, <6>6, ForeverIsLate
          <5>4. QED
            BY <5>2, <5>3
        <4>4. hits'.until >= now + HitWindow
          BY <1>2, <1>4, <3>5, ForeverIsLate DEF LimitInv, GenerationInv
        <4>5. Generation(now)'
          BY <1>2, <1>4, <1>8, <1>13, <3>2, <3>3, <3>5, <4>2, <4>3, <4>4, ForeverIsLate
             DEF Generation
        <4>6. QED
          BY <1>2, <1>4, <1>8, <1>13, <3>4, <4>5 DEF GenerationInv
      <3>6. CASE hits.n > 0
        <4>1. Since(admitted', g) = Since(admitted, g) \union {r}
          BY <1>2, <2>2, <3>1, <3>2 DEF Since
        <4>2. Since(admitted, g) \subseteq Admissions(admitted)
          BY DEF Since, Admissions
        <4>3. /\ IsFiniteSet(Since(admitted, g)) /\ Cardinality(Since(admitted, g)) \in Nat
              /\ Cardinality(Since(admitted, g)) <= hits.n
          BY <2>1, <2>2, <3>6, <4>2, FS_Subset, FS_CardinalityType DEF Generation
        <4>4. /\ Cardinality(Since(admitted', g)) \in Nat
              /\ Cardinality(Since(admitted', g)) <= Cardinality(Since(admitted, g)) + 1
          BY <4>1, <4>3, OneMore
        <4>5. Cardinality(Since(admitted', g)) <= n /\ Cardinality(Since(admitted', g)) <= HitLimit
          BY <1>2, <1>8, <3>1, <4>3, <4>4, ForeverIsLate
        <4>6. \A t \in Nat : Earlier(admitted', t, g) = Earlier(admitted, t, g)
          BY <1>2, <2>2, <3>2, ForeverIsLate DEF Earlier
        <4>7. \E o \in Attempts : admitted'[o] = g
          <5>1. PICK o \in Attempts : admitted[o] = g
            BY <2>1, <3>6 DEF Generation
          <5>2. o # r
            BY <1>2, <2>2, <5>1, ForeverIsLate
          <5>3. QED
            BY <3>2, <5>1, <5>2
        <4>8. Generation(g)'
          BY <1>2, <1>4, <1>8, <1>13, <2>1, <2>2, <3>3, <3>6, <4>5, <4>6, <4>7 DEF Generation
        <4>9. QED
          BY <1>2, <1>4, <1>8, <3>4, <4>8 DEF GenerationInv
      <3>7. QED
        BY <1>2, <3>5, <3>6
    <2>5. QED
      BY <2>3, <2>4
  <1>11. BurstBounded'
    <2> SUFFICES ASSUME NEW t \in 0 .. LastTick
                 PROVE  Cardinality(AdmittedIn(admitted', t)) < 2 * HitLimit
      BY DEF BurstBounded, AdmittedIn
    <2>1. Cardinality(AdmittedIn(admitted, t)) < 2 * HitLimit
      BY DEF LimitInv, BurstBounded, AdmittedIn
    <2>2. CASE now \in t .. (t + HitWindow - 1)
      <3>1. PICK g \in Nat : Generation(g)'
        BY <1>10 DEF GenerationInv
      <3>2. /\ g <= now /\ Cardinality(Since(admitted', g)) <= HitLimit
            /\ Cardinality(Earlier(admitted', t, g)) < HitLimit
        BY <1>2, <1>13, <2>2, <3>1, ForeverIsLate DEF Generation
      <3>3. \A q \in Attempts : admitted'[q] <= LastTick \/ admitted'[q] = Forever
        BY <1>2, <1>5, <1>13, ForeverIsLate DEF LimitTypeInv
      <3>4. g \in 0 .. LastTick
        BY <1>2, <3>1, <3>2, ForeverIsLate
      <3>5. QED
        BY <1>5, <1>10, <3>2, <3>3, <3>4, TwoGenerations DEF LimitTypeInv, GenerationInv
    <2>3. CASE now \notin t .. (t + HitWindow - 1)
      <3>1. AdmittedIn(admitted', t) = AdmittedIn(admitted, t)
        BY <1>1, <1>2, <2>3, ForeverIsLate DEF AdmittedIn
      <3>2. QED
        BY <2>1, <3>1
    <2>4. QED
      BY <2>2, <2>3
  <1>12. QED
    BY <1>5, <1>6, <1>7, <1>10, <1>11 DEF LimitInv

LEMMA LimitExpireHits ==
  ASSUME LimitInv, NEW r \in Attempts, ExpireHits(r)
  PROVE  LimitInv'
  <1>1. /\ attempt[r].pc = "expire_hits" /\ Goto(r, "locked")
        /\ hits' = IF hits.n = 0 THEN hits ELSE [hits EXCEPT !.until = now + HitWindow]
        /\ UNCHANGED <<now, failures, admitted, lost, late, excused>>
    BY DEF ExpireHits
  <1>2. /\ now \in 0 .. LastTick /\ hits \in Counters /\ hits.n \in Nat /\ hits.until \in Nat
    BY ForeverIsLate DEF LimitInv, LimitTypeInv, Counters
  <1>3. /\ attempt' \in [Attempts -> AttemptStates] /\ attempt'[r].pc = "locked"
        /\ \A q \in Attempts \ {r} : attempt'[q] = attempt[q]
    BY <1>1, AttemptMoves DEF LimitInv, AttemptStates
  <1>4. /\ hits' \in Counters /\ hits'.n = hits.n
        /\ hits.n = 0 => hits' = hits
        /\ hits.n # 0 => hits'.until = now + HitWindow
    BY <1>1, <1>2, ForeverIsLate DEF Counters
  <1>5. LimitTypeInv'
    BY <1>1, <1>3, <1>4 DEF LimitInv, LimitTypeInv
  <1>6. AloneInv'
    BY <1>1, <1>3 DEF LimitInv, AloneInv, UnderWay
  <1>7. CountersEnd' /\ LockedUnlessTogether'
    <2>1. hits'.n = 0 \/ hits'.until <= now' + HitWindow
      BY <1>1, <1>2, <1>4, ForeverIsLate
    <2>2. \/ failures'.n = 0 \/ failures'.until <= now' + FailureWindow \/ "failures" \in lost'
          \/ \E q \in Attempts : attempt'[q].pc = "expire_failures"
      BY <1>1, <1>3 DEF LimitInv, CountersEnd
    <2>3. QED
      BY <1>1, <2>1, <2>2 DEF LimitInv, CountersEnd, LockedUnlessTogether
  <1>8. GenerationInv'
    <2>1. PICK g \in Nat : Generation(g)
      BY DEF LimitInv, GenerationInv
    <2>2. hits'.n > 0 => hits'.until >= g + HitWindow
      BY <1>2, <1>4, <2>1, ForeverIsLate DEF Generation
    <2>3. Generation(g)'
      BY <1>1, <1>4, <2>1, <2>2 DEF Generation
    <2>4. QED
      BY <1>1, <1>4, <2>3 DEF LimitInv, GenerationInv
  <1>9. BurstBounded'
    BY <1>1 DEF LimitInv, BurstBounded
  <1>10. QED
    BY <1>5, <1>6, <1>7, <1>8, <1>9 DEF LimitInv

LEMMA LimitCheckLockout ==
  ASSUME LimitInv, NEW r \in Attempts, CheckLockout(r)
  PROVE  LimitInv'
  <1>1. /\ attempt[r].pc = "locked" /\ Goto(r, IF Locked(failures.n) THEN "end" ELSE "verify")
        /\ UNCHANGED <<now, hits, failures, admitted, lost, late, excused>>
    BY DEF CheckLockout
  <1>2. /\ attempt' \in [Attempts -> AttemptStates] /\ attempt'[r].pc \in {"end", "verify"}
        /\ attempt'[r].pc = "verify" => ~ Locked(failures.n)
        /\ \A q \in Attempts \ {r} : attempt'[q] = attempt[q]
    BY <1>1, AttemptMoves DEF LimitInv, AttemptStates
  <1>3. failures.n \in Nat /\ (~ Locked(failures.n) => failures.n < FailureLimit)
    BY ForeverIsLate DEF LimitInv, LimitTypeInv, Counters, Locked
  <1>4. LimitTypeInv'
    BY <1>1, <1>2 DEF LimitInv, LimitTypeInv
  <1>5. AloneInv'
    BY <1>1, <1>2, <1>3 DEF LimitInv, AloneInv, UnderWay
  <1>6. CountersEnd' /\ LockedUnlessTogether'
    BY <1>1, <1>2 DEF LimitInv, CountersEnd, LockedUnlessTogether
  <1>7. QED
    BY <1>1, <1>4, <1>5, <1>6, GenerationKept DEF LimitInv

LEMMA LimitVerify ==
  ASSUME LimitInv, NEW r \in Attempts, VerifyPassword(r)
  PROVE  LimitInv'
  <1>1. /\ attempt[r].pc = "verify" /\ (Goto(r, "reset") \/ Goto(r, "count"))
        /\ late' = late \union {q \in {r} : failures.n >= FailureLimit}
        /\ UNCHANGED <<now, hits, failures, admitted, lost, excused>>
    BY DEF VerifyPassword
  <1>2. /\ attempt' \in [Attempts -> AttemptStates] /\ attempt'[r].pc \in {"reset", "count"}
        /\ \A q \in Attempts \ {r} : attempt'[q] = attempt[q]
    <2>1. CASE Goto(r, "reset")
      BY <2>1, AttemptMoves DEF LimitInv, AttemptStates
    <2>2. CASE Goto(r, "count")
      BY <2>2, AttemptMoves DEF LimitInv, AttemptStates
    <2>3. QED
      BY <1>1, <2>1, <2>2
  <1>3. failures.n \in Nat
    BY DEF LimitInv, LimitTypeInv, Counters
  <1>4. LimitTypeInv'
    BY <1>1, <1>2 DEF LimitInv, LimitTypeInv
  <1>5. AloneInv'
    BY <1>1, <1>2 DEF LimitInv, AloneInv, UnderWay
  <1>6. CountersEnd'
    BY <1>1, <1>2 DEF LimitInv, CountersEnd
  <1>7. LockedUnlessTogether'
    <2>1. failures.n >= FailureLimit => r \in excused
      BY <1>1, <1>3, ForeverIsLate DEF LimitInv, AloneInv
    <2>2. QED
      BY <1>1, <2>1 DEF LimitInv, LockedUnlessTogether
  <1>8. QED
    BY <1>1, <1>4, <1>5, <1>6, <1>7, GenerationKept DEF LimitInv

LEMMA LimitCountFailure ==
  ASSUME LimitInv, NEW r \in Attempts, CountFailure(r)
  PROVE  LimitInv'
  <1>1. /\ attempt[r].pc = "count" /\ failures' = [failures EXCEPT !.n = failures.n + 1]
        /\ Goto(r, IF First(failures.n + 1) THEN "expire_failures" ELSE "end")
        /\ UNCHANGED <<now, hits, admitted, lost, late, excused>>
    BY DEF CountFailure
  <1>2. failures \in Counters /\ failures.n \in Nat
    BY DEF LimitInv, LimitTypeInv, Counters
  <1>3. /\ attempt' \in [Attempts -> AttemptStates] /\ attempt'[r].pc \in {"expire_failures", "end"}
        /\ failures.n = 0 => attempt'[r].pc = "expire_failures"
        /\ \A q \in Attempts \ {r} : attempt'[q] = attempt[q]
    BY <1>1, <1>2, AttemptMoves DEF LimitInv, AttemptStates, First
  <1>4. failures' \in Counters /\ failures'.until = failures.until
    BY <1>1, <1>2 DEF Counters
  <1>5. LimitTypeInv'
    BY <1>1, <1>3, <1>4 DEF LimitInv, LimitTypeInv
  <1>6. AloneInv'
    <2>1. \A q \in Attempts : attempt'[q].pc = "verify" => q \in excused
      BY <1>1, <1>3 DEF LimitInv, AloneInv, UnderWay
    <2>2. QED
      BY <1>1, <1>3, <2>1 DEF LimitInv, AloneInv, UnderWay
  <1>7. CountersEnd' /\ LockedUnlessTogether'
    <2>1. /\ \/ hits'.n = 0 \/ hits'.until <= now' + HitWindow \/ "hits" \in lost'
             \/ \E q \in Attempts : attempt'[q].pc = "expire_hits"
      BY <1>1, <1>3 DEF LimitInv, CountersEnd
    <2>2. \/ failures'.n = 0 \/ failures'.until <= now' + FailureWindow \/ "failures" \in lost'
          \/ \E q \in Attempts : attempt'[q].pc = "expire_failures"
      BY <1>1, <1>2, <1>3, <1>4 DEF LimitInv, CountersEnd
    <2>3. QED
      BY <1>1, <2>1, <2>2 DEF LimitInv, CountersEnd, LockedUnlessTogether
  <1>8. QED
    BY <1>1, <1>5, <1>6, <1>7, GenerationKept DEF LimitInv

LEMMA LimitExpireFailures ==
  ASSUME LimitInv, NEW r \in Attempts, ExpireFailures(r)
  PROVE  LimitInv'
  <1>1. /\ attempt[r].pc = "expire_failures" /\ Goto(r, "end")
        /\ failures' = IF failures.n = 0 THEN failures
                       ELSE [failures EXCEPT !.until = now + FailureWindow]
        /\ UNCHANGED <<now, hits, admitted, lost, late, excused>>
    BY DEF ExpireFailures
  <1>2. now \in 0 .. LastTick /\ failures \in Counters
    BY DEF LimitInv, LimitTypeInv
  <1>3. /\ attempt' \in [Attempts -> AttemptStates] /\ attempt'[r].pc = "end"
        /\ \A q \in Attempts \ {r} : attempt'[q] = attempt[q]
    BY <1>1, AttemptMoves DEF LimitInv, AttemptStates
  <1>4. /\ failures' \in Counters /\ failures'.n = failures.n
        /\ failures.n # 0 => failures'.until = now + FailureWindow
    BY <1>1, <1>2, ForeverIsLate DEF Counters
  <1>5. LimitTypeInv'
    BY <1>1, <1>3, <1>4 DEF LimitInv, LimitTypeInv
  <1>6. AloneInv'
    BY <1>1, <1>3, <1>4 DEF LimitInv, AloneInv, UnderWay
  <1>7. CountersEnd' /\ LockedUnlessTogether'
    <2>1. failures'.n = 0 \/ failures'.until <= now' + FailureWindow
      BY <1>1, <1>2, <1>4, ForeverIsLate
    <2>2. /\ \/ hits'.n = 0 \/ hits'.until <= now' + HitWindow \/ "hits" \in lost'
             \/ \E q \in Attempts : attempt'[q].pc = "expire_hits"
      BY <1>1, <1>3 DEF LimitInv, CountersEnd
    <2>3. QED
      BY <1>1, <2>1, <2>2 DEF LimitInv, CountersEnd, LockedUnlessTogether
  <1>8. QED
    BY <1>1, <1>5, <1>6, <1>7, GenerationKept DEF LimitInv

LEMMA LimitResetFailures ==
  ASSUME LimitInv, NEW r \in Attempts, ResetFailures(r)
  PROVE  LimitInv'
  <1>1. /\ attempt[r].pc = "reset" /\ Goto(r, "end")
        /\ failures' = Absent /\ lost' = lost \ {"failures"}
        /\ UNCHANGED <<now, hits, admitted, late, excused>>
    BY DEF ResetFailures
  <1>2. Absent \in Counters /\ Absent.n = 0
    BY ForeverIsLate DEF Absent, Counters
  <1>3. /\ attempt' \in [Attempts -> AttemptStates] /\ attempt'[r].pc = "end"
        /\ \A q \in Attempts \ {r} : attempt'[q] = attempt[q]
    BY <1>1, AttemptMoves DEF LimitInv, AttemptStates
  <1>4. LimitTypeInv'
    BY <1>1, <1>2, <1>3 DEF LimitInv, LimitTypeInv
  <1>5. AloneInv'
    BY <1>1, <1>2, <1>3, ForeverIsLate DEF LimitInv, AloneInv, UnderWay
  <1>6. CountersEnd' /\ LockedUnlessTogether'
    BY <1>1, <1>2, <1>3 DEF LimitInv, CountersEnd, LockedUnlessTogether
  <1>7. QED
    BY <1>1, <1>4, <1>5, <1>6, GenerationKept DEF LimitInv

\* A command that fails, or a death.
LEMMA LimitFails ==
  ASSUME LimitInv, NEW r \in Attempts, CommandFails(r) \/ KillAttempt(r)
  PROVE  LimitInv'
  <1>1. /\ UNCHANGED <<now, hits, failures, admitted, late>>
        /\ lost' = lost \union ExpiryLost(r)
        /\ excused \subseteq excused'
    BY DEF CommandFails, KillAttempt
  <1>2. /\ attempt' \in [Attempts -> AttemptStates]
        /\ \A q \in Attempts \ {r} : attempt'[q] = attempt[q]
        /\ attempt'[r].pc \in {"locked", "verify", "end"}
        /\ attempt'[r].pc = "verify" => attempt[r].pc = "locked" /\ r \in excused'
        /\ attempt[r].pc = "new" => excused' = excused \union Overlapping(r)
    <2>1. \A pc \in {"locked", "verify", "end"} : Goto(r, pc) =>
            /\ attempt' \in [Attempts -> AttemptStates] /\ attempt'[r].pc = pc
            /\ \A q \in Attempts \ {r} : attempt'[q] = attempt[q]
      BY AttemptMoves DEF LimitInv, AttemptStates
    <2>2. CASE KillAttempt(r)
      BY <2>1, <2>2 DEF KillAttempt, UnderWay
    <2>3. CASE CommandFails(r)
      BY <2>1, <2>3 DEF CommandFails
    <2>4. QED
      BY <2>2, <2>3
  <1>3. LimitTypeInv'
    BY <1>1, <1>2 DEF LimitInv, LimitTypeInv
  <1>4. AloneInv'
    <2>1. \A q \in Attempts \ {r} : UnderWay(q)' = UnderWay(q)
      BY <1>2 DEF UnderWay
    <2>2. ASSUME NEW q \in Attempts \ {r}, UnderWay(q), UnderWay(r)'
          PROVE  q \in excused' /\ r \in excused'
      <3>1. CASE attempt[r].pc = "new"
        BY <1>2, <2>2, <3>1 DEF Overlapping
      <3>2. CASE attempt[r].pc # "new"
        <4>1. attempt[r].pc # "end"
          BY <1>2, <2>2, <3>2 DEF CommandFails, KillAttempt, UnderWay
        <4>2. QED
          BY <1>1, <2>2, <3>2, <4>1 DEF LimitInv, AloneInv, UnderWay
      <3>3. QED
        BY <3>1, <3>2
    <2>3. \A p, q \in Attempts : p # q /\ UnderWay(p)' /\ UnderWay(q)' => p \in excused'
      BY <1>1, <2>1, <2>2 DEF LimitInv, AloneInv
    <2>4. QED
      BY <1>1, <1>2, <2>3 DEF LimitInv, AloneInv
  <1>5. CountersEnd'
    <2>1. attempt[r].pc = "expire_hits" => "hits" \in lost'
      BY <1>1 DEF ExpiryLost
    <2>2. attempt[r].pc = "expire_failures" => "failures" \in lost'
      BY <1>1 DEF ExpiryLost
    <2>3. QED
      BY <1>1, <1>2, <2>1, <2>2 DEF LimitInv, CountersEnd
  <1>6. LockedUnlessTogether'
    BY <1>1 DEF LimitInv, LockedUnlessTogether
  <1>7. QED
    BY <1>1, <1>3, <1>4, <1>5, <1>6, GenerationKept DEF LimitInv

LEMMA LimitTime ==
  ASSUME LimitInv, LimitTick
  PROVE  LimitInv'
  <1>1. /\ now < LastTick /\ now' = now + 1 /\ hits' = Lives(hits) /\ failures' = Lives(failures)
        /\ UNCHANGED <<attempt, admitted, lost, late, excused>>
    BY DEF LimitTick
  <1>2. /\ now \in Nat /\ now' \in 0 .. LastTick /\ Absent \in Counters /\ Absent.n = 0
        /\ Absent.until = Forever
        /\ hits \in Counters /\ hits.n \in Nat /\ hits.until \in Nat
        /\ failures \in Counters /\ failures.n \in Nat /\ failures.until \in Nat
    BY <1>1, ForeverIsLate DEF LimitInv, LimitTypeInv, Counters, Absent
  <1>3. /\ hits' = Absent \/ hits' = hits
        /\ hits' # hits => hits.until <= now + 1
        /\ failures' = Absent \/ failures' = failures
    BY <1>1 DEF Lives
  <1>4. LimitTypeInv'
    <2>1. \A r \in Attempts : admitted[r] <= now' \/ admitted[r] = Forever
      BY <1>1, <1>2 DEF LimitInv, LimitTypeInv
    <2>2. QED
      BY <1>1, <1>2, <1>3, <2>1 DEF LimitInv, LimitTypeInv
  <1>5. AloneInv'
    BY <1>1, <1>2, <1>3, ForeverIsLate DEF LimitInv, AloneInv, UnderWay
  <1>6. CountersEnd' /\ LockedUnlessTogether'
    <2>1. /\ \/ hits'.n = 0 \/ hits'.until <= now' + HitWindow \/ "hits" \in lost'
             \/ \E q \in Attempts : attempt'[q].pc = "expire_hits"
      BY <1>1, <1>2, <1>3, ForeverIsLate DEF LimitInv, CountersEnd
    <2>2. \/ failures'.n = 0 \/ failures'.until <= now' + FailureWindow \/ "failures" \in lost'
          \/ \E q \in Attempts : attempt'[q].pc = "expire_failures"
      BY <1>1, <1>2, <1>3, ForeverIsLate DEF LimitInv, CountersEnd
    <2>3. QED
      BY <1>1, <2>1, <2>2 DEF LimitInv, CountersEnd, LockedUnlessTogether
  <1>7. GenerationInv'
    <2>1. PICK g \in Nat : Generation(g)
      BY DEF LimitInv, GenerationInv
    <2>2. hits'.n = 0 => hits'.until = Forever /\ \A r \in Admissions(admitted) : admitted[r] < now'
      <3>1. \A r \in Admissions(admitted) : admitted[r] < now'
        BY <1>1, <1>2 DEF LimitInv, LimitTypeInv, Admissions
      <3>2. QED
        BY <1>2, <1>3, <3>1 DEF LimitInv, GenerationInv
    <2>3. hits'.n = 0 /\ Admissions(admitted) # {} => now' >= g + HitWindow
      <3>1. CASE hits.n = 0
        BY <1>1, <1>2, <2>1, <3>1, ForeverIsLate DEF Generation
      <3>2. CASE hits.n # 0
        <4>1. hits.until >= g + HitWindow
          BY <1>2, <2>1, <3>2 DEF Generation
        <4>2. QED
          BY <1>1, <1>2, <1>3, <3>2, <4>1, ForeverIsLate
      <3>3. QED
        BY <3>1, <3>2
    <2>4. hits'.n > 0 => hits' = hits
      BY <1>2, <1>3
    <2>5. g <= now'
      BY <1>1, <1>2, <2>1 DEF Generation
    <2>6. Generation(g)'
      BY <1>1, <2>1, <2>3, <2>4, <2>5 DEF Generation
    <2>7. QED
      BY <1>1, <2>2, <2>6 DEF LimitInv, GenerationInv
  <1>8. BurstBounded'
    BY <1>1 DEF LimitInv, BurstBounded
  <1>9. QED
    BY <1>4, <1>5, <1>6, <1>7, <1>8 DEF LimitInv

LEMMA LimitStutter ==
  ASSUME LimitInv, UNCHANGED limitVars
  PROVE  LimitInv'
  <1>1. UNCHANGED <<now, hits, failures, attempt, admitted, lost, late, excused>>
    BY DEF limitVars
  <1>2. LimitTypeInv' /\ AloneInv' /\ CountersEnd' /\ LockedUnlessTogether'
    BY <1>1 DEF LimitInv, LimitTypeInv, AloneInv, CountersEnd, LockedUnlessTogether, UnderWay
  <1>3. QED
    BY <1>1, <1>2, GenerationKept DEF LimitInv

LEMMA LimitStep == LimitInv /\ [LimitNext]_limitVars => LimitInv'
  BY LimitCountHit, LimitExpireHits, LimitCheckLockout, LimitVerify, LimitCountFailure,
     LimitExpireFailures, LimitResetFailures, LimitFails, LimitTime, LimitStutter DEF LimitNext

LEMMA LimitMeans == LimitInv => LimitsHold
  BY DEF LimitInv, LimitTypeInv, LimitsHold, LimitTypeOK, Counters, AttemptStates

\* Counters end, bursts are bounded, and a locked account looks at no password, but for commands
\* that are lost and sign-ins that come together (rate_limit.py, auth.py:87-114).
THEOREM LimitsAreHeld == LimitInit /\ [][LimitNext]_limitVars => []LimitsHold
  BY LimitInitially, LimitStep, LimitMeans, PTL

---------------------------------------------------------------------------
(***************************************************************************)
(* Custom integrations                                                     *)
(***************************************************************************)
IntegrationRows ==
  [by : Creates, name : IntegrationNames, outbound : BOOLEAN, credential : BOOLEAN,
   status : {"active", "paused"}, failures : Nat, result : {"none", "success", "error"}]
IntegrationCreates == [pc : {"new", "insert", "done", "dead"}, credential : BOOLEAN]
IntegrationTallies == [streak : Nat, most : Nat, all : Nat]

CustomTypeInv ==
  /\ integrations \subseteq IntegrationRows
  /\ secrets \subseteq Creates /\ retired \subseteq Creates
  /\ create \in [Creates -> IntegrationCreates]
  /\ send \in [Sends -> [pc : {"new", "done", "dead"}] \union [pc : {"request"}, row : IntegrationRows]]
  /\ trial \in [Trials -> [pc : {"new", "done"}] \union [pc : {"commit"}, row : IntegrationRows]]
  /\ tally \in [Creates -> IntegrationTallies]

\* A request inserts one row, with the reference to the secret that it stored.
CreatedInv ==
  /\ \A i, j \in integrations : i.by = j.by => i = j
  /\ \A i \in integrations : create[i.by].pc = "done" /\ i.credential = create[i.by].credential
  /\ \A r \in Creates : /\ create[r].pc = "done" => \E i \in integrations : i.by = r
                        /\ r \in secrets <=> create[r].credential
                        /\ create[r].pc = "new" => ~ create[r].credential

Sending(s, by) == send[s].pc = "request" /\ send[s].row.by = by
Trying(t, by) == trial[t].pc = "commit" /\ trial[t].row.by = by

\* Two that hold copies of one row have met.
MeetInv ==
  \A by \in Creates : by \notin crowded =>
    /\ \A s, v \in Sends : Sending(s, by) /\ Sending(v, by) => s = v
    /\ \A t, v \in Trials : Trying(t, by) /\ Trying(v, by) => t = v
    /\ \A s \in Sends, t \in Trials : ~ (Sending(s, by) /\ Trying(t, by))

\* A copy that is held is of a stored row, and of how that is now if nobody else has it; one that
\* is held to send was active.
HeldInv ==
  /\ \A s \in Sends : send[s].pc = "request" =>
       LET row == send[s].row
       IN /\ row.status = "active" /\ row.failures <= tally[row.by].all
          /\ create[row.by].pc = "done"
          /\ row.by \in crowded \/ row \in integrations
  /\ \A t \in Trials : trial[t].pc = "commit" =>
       LET row == trial[t].row
       IN /\ create[row.by].pc = "done"
          /\ row.by \in crowded \/ row \in integrations

\* What was counted for a row, and what the row says of it.
TalliesInv ==
  \A r \in Creates :
    /\ tally[r].streak <= tally[r].most
    /\ create[r].pc # "done" => tally[r] = [streak |-> 0, most |-> 0, all |-> 0] /\ r \notin retired
CountedAs(i) ==
  /\ i.failures <= tally[i.by].all
  /\ i.status = "paused" => tally[i.by].all >= FailureCap
  /\ i.by \in retired => i.status = "paused"
  /\ i.by \notin crowded => /\ i.failures = tally[i.by].streak
                            /\ tally[i.by].most <= FailureCap
                            /\ i.status = "paused" <=> tally[i.by].most = FailureCap
CountsInv == \A i \in integrations : CountedAs(i)

CustomInv == CustomTypeInv /\ CreatedInv /\ MeetInv /\ HeldInv /\ TalliesInv /\ CountsInv

LEMMA CustomInitially == IntegrationInit => CustomInv
  <1> SUFFICES ASSUME IntegrationInit PROVE CustomInv
    OBVIOUS
  <1>1. CustomTypeInv
    <2>1. Draft \in IntegrationCreates
      BY DEF Draft, IntegrationCreates
    <2>2. [streak |-> 0, most |-> 0, all |-> 0] \in IntegrationTallies
      BY DEF IntegrationTallies
    <2>3. QED
      BY <2>1, <2>2 DEF IntegrationInit, CustomTypeInv
  <1>2. CreatedInv
    BY DEF IntegrationInit, CreatedInv, Draft
  <1>3. MeetInv /\ HeldInv
    BY DEF IntegrationInit, MeetInv, HeldInv, Sending, Trying
  <1>4. TalliesInv /\ CountsInv
    BY DEF IntegrationInit, TalliesInv, CountsInv
  <1>5. QED
    BY <1>1, <1>2, <1>3, <1>4 DEF CustomInv

---------------------------------------------------------------------------
\* What a flush makes of a row: its columns are the ones loaded with what was changed, or stay.
LEMMA WrittenRow ==
  ASSUME NEW i \in IntegrationRows, NEW was \in IntegrationRows, NEW is \in IntegrationRows,
         is.status \in {was.status, "paused"}, is.failures = 0 \/ was.status = "active"
  PROVE  /\ Written(i, was, is) \in IntegrationRows
         /\ Written(i, was, is).by = i.by /\ Written(i, was, is).credential = i.credential
         /\ Written(i, was, is).failures \in {i.failures, is.failures}
         /\ i.status = "paused" => Written(i, was, is).status = "paused"
         /\ Written(i, was, is).status = "paused" =>
              i.status = "paused" \/ (is.status = "paused" /\ was.status = "active")
         /\ i = was => /\ Written(i, was, is).failures = is.failures
                       /\ Written(i, was, is).status = is.status
  BY DEF IntegrationRows, Written

Wrote(i, was, is) == IF i.by = was.by THEN Written(i, was, is) ELSE i

\* Rows are rewritten one by one, and remain told apart by who inserted them.
LEMMA WroteBack ==
  ASSUME CustomTypeInv, CreatedInv, NEW was \in IntegrationRows, NEW is \in IntegrationRows,
         is.status \in {was.status, "paused"}, is.failures = 0 \/ was.status = "active",
         WriteBack(was, is), UNCHANGED <<secrets, create>>
  PROVE  /\ integrations' \subseteq IntegrationRows /\ retired' \subseteq Creates
         /\ CreatedInv'
         /\ \A k \in integrations' : \E i \in integrations : k = Wrote(i, was, is) /\ k.by = i.by
         /\ \A i \in integrations : i.by # was.by => i \in integrations'
         /\ \A k \in integrations' : k.by \in retired' <=> k.by \in retired \/ k.status = "paused"
         /\ \A r \in Creates \ retired : r \in retired' => create[r].pc = "done"
  <1> USE DEF Wrote
  <1>1. integrations' = {Wrote(i, was, is) : i \in integrations}
    BY DEF WriteBack
  <1>2. ASSUME NEW i \in integrations
        PROVE  /\ Wrote(i, was, is) \in IntegrationRows /\ Wrote(i, was, is).by = i.by
               /\ Wrote(i, was, is).credential = i.credential
    BY WrittenRow DEF CustomTypeInv
  <1>3. integrations' \subseteq IntegrationRows
    BY <1>1, <1>2
  <1>4. \A k \in integrations' : \E i \in integrations :
          k = Wrote(i, was, is) /\ k.by = i.by /\ k.credential = i.credential
    BY <1>1, <1>2
  <1>5. \A i \in integrations : \E k \in integrations' : k.by = i.by
    BY <1>1, <1>2
  <1>6. \A k, m \in integrations' : k.by = m.by => k = m
    BY <1>4 DEF CreatedInv
  <1>7. CreatedInv'
    BY <1>4, <1>5, <1>6 DEF CreatedInv
  <1>8. \A i \in integrations : i.by # was.by => i \in integrations'
    BY <1>1
  <1>9. retired' = retired \union {k.by : k \in {k \in integrations' : k.status = "paused"}}
    BY DEF WriteBack
  <1>10. retired' \subseteq Creates
    BY <1>9, <1>3 DEF CustomTypeInv, IntegrationRows
  <1>11. \A k \in integrations' : k.by \in retired' <=> k.by \in retired \/ k.status = "paused"
    BY <1>9, <1>6
  <1>12. \A r \in Creates \ retired : r \in retired' => create[r].pc = "done"
    BY <1>9, <1>4 DEF CreatedInv
  <1>13. QED
    BY <1>3, <1>4, <1>7, <1>8, <1>10, <1>11, <1>12

\* Writing back a copy, with what is counted of it: the one that held it lets go of it.
LEMMA CopyWritten ==
  ASSUME IntegrationAssumption, CustomInv,
         NEW was \in IntegrationRows, NEW is \in IntegrationRows, NEW t \in IntegrationTallies,
         is.status \in {was.status, "paused"}, is.failures = 0 \/ was.status = "active",
         WriteBack(was, is), UNCHANGED <<secrets, create, crowded>>,
         tally' = [tally EXCEPT ![was.by] = t],
         create[was.by].pc = "done", was.by \in crowded \/ was \in integrations,
         t.streak <= t.most, tally[was.by].all <= t.all, is.failures <= t.all,
         is.status = "paused" /\ was.status = "active" => t.all >= FailureCap,
         was.by \notin crowded => /\ is.failures = t.streak /\ t.most <= FailureCap
                                  /\ is.status = "paused" <=> t.most = FailureCap
  PROVE  /\ integrations' \subseteq IntegrationRows /\ retired' \subseteq Creates
         /\ tally' \in [Creates -> IntegrationTallies] /\ \A r \in Creates : tally[r].all <= tally'[r].all
         /\ CreatedInv' /\ TalliesInv' /\ CountsInv'
         /\ \A i \in integrations : i.by # was.by => i \in integrations'
  <1> DEFINE by == was.by
  <1>1. by \in Creates
    BY DEF IntegrationRows
  <1>2. /\ integrations' \subseteq IntegrationRows /\ retired' \subseteq Creates
        /\ CreatedInv'
        /\ \A k \in integrations' : \E i \in integrations : k = Wrote(i, was, is) /\ k.by = i.by
        /\ \A i \in integrations : i.by # was.by => i \in integrations'
        /\ \A k \in integrations' : k.by \in retired' <=> k.by \in retired \/ k.status = "paused"
        /\ \A r \in Creates \ retired : r \in retired' => create[r].pc = "done"
    BY WroteBack DEF CustomInv
  <1>3. /\ tally' \in [Creates -> IntegrationTallies]
        /\ tally'[by] = t /\ \A r \in Creates \ {by} : tally'[r] = tally[r]
    BY <1>1 DEF CustomInv, CustomTypeInv
  <1> HIDE DEF by
  <1>4. \A r \in Creates : tally[r].all <= tally'[r].all
    BY <1>1, <1>3 DEF CustomInv, CustomTypeInv, IntegrationTallies, by
  <1>5. TalliesInv'
    <2> SUFFICES ASSUME NEW r \in Creates
                 PROVE  /\ tally'[r].streak <= tally'[r].most
                        /\ create[r].pc # "done" =>
                             tally'[r] = [streak |-> 0, most |-> 0, all |-> 0] /\ r \notin retired'
      BY DEF TalliesInv
    <2>1. tally'[r].streak <= tally'[r].most
      BY <1>3 DEF CustomInv, TalliesInv
    <2>2. QED
      BY <2>1, <1>2, <1>3 DEF CustomInv, TalliesInv, by
  <1>6. CountsInv'
    <2> SUFFICES ASSUME NEW k \in integrations' PROVE CountedAs(k)'
      BY DEF CountsInv
    <2>1. PICK i \in integrations : k = Wrote(i, was, is) /\ k.by = i.by
      BY <1>2
    <2>2. i \in IntegrationRows /\ k \in IntegrationRows /\ CountedAs(i)
      BY <1>2 DEF CustomInv, CustomTypeInv, CountsInv
    <2>3. k.by \in retired' => k.by \in retired \/ k.status = "paused"
      BY <1>2
    <2>4. CASE i.by # by
      <3>1. k = i /\ tally'[k.by] = tally[i.by]
        BY <2>1, <2>2, <2>4, <1>3 DEF Wrote, by, IntegrationRows
      <3>2. QED
        BY <3>1, <2>2, <2>3 DEF CountedAs
    <2>5. CASE i.by = by
      <3>1. k = Written(i, was, is) /\ tally'[k.by] = t
        BY <2>1, <2>5, <1>3 DEF Wrote, by
      <3>2. /\ k.failures \in {i.failures, is.failures}
            /\ i.status = "paused" => k.status = "paused"
            /\ k.status = "paused" => i.status = "paused" \/ (is.status = "paused" /\ was.status = "active")
            /\ i = was => k.failures = is.failures /\ k.status = is.status
        BY <3>1, <2>2, WrittenRow
      <3>3. by \notin crowded => i = was
        BY <2>5 DEF CustomInv, CreatedInv, by
      <3>4. /\ i.failures \in Nat /\ is.failures \in Nat /\ tally[by].all \in Nat /\ t.all \in Nat
            /\ FailureCap \in Nat
        BY <2>2, <1>1 DEF CustomInv, CustomTypeInv, IntegrationRows, IntegrationTallies, IntegrationAssumption
      <3>5. k.failures <= t.all
        BY <3>2, <3>4, <2>2, <2>5 DEF CountedAs, by
      <3>6. k.status = "paused" => t.all >= FailureCap
        BY <3>2, <3>4, <2>2, <2>5 DEF CountedAs, by
      <3>7. k.by \in retired' => k.status = "paused"
        BY <3>2, <2>1, <2>2, <2>3 DEF CountedAs
      <3>8. k.by \notin crowded => /\ k.failures = t.streak /\ t.most <= FailureCap
                                   /\ k.status = "paused" <=> t.most = FailureCap
        BY <3>2, <3>3, <2>1, <2>5 DEF by
      <3>9. QED
        BY <3>1, <3>5, <3>6, <3>7, <3>8 DEF CountedAs
    <2>6. QED
      BY <2>4, <2>5
  <1>7. QED
    BY <1>2, <1>3, <1>4, <1>5, <1>6
\* The copies that others hold remain what they were.
LEMMA CopiesKept ==
  ASSUME CustomInv, NEW by \in Creates,
         \A i \in integrations : i.by # by => i \in integrations',
         tally' \in [Creates -> IntegrationTallies],
         \A r \in Creates : tally[r].all <= tally'[r].all, UNCHANGED <<create, crowded>>,
         \A s \in Sends : send'[s] = send[s] \/ send'[s].pc = "done",
         \A t \in Trials : trial'[t] = trial[t] \/ trial'[t].pc = "done",
         by \notin crowded =>
           /\ \A s \in Sends : send'[s].pc = "request" => send'[s].row.by # by
           /\ \A t \in Trials : trial'[t].pc = "commit" => trial'[t].row.by # by
  PROVE  MeetInv' /\ HeldInv'
  <1>1. /\ \A s \in Sends, r \in Creates : Sending(s, r)' => Sending(s, r)
        /\ \A t \in Trials, r \in Creates : Trying(t, r)' => Trying(t, r)
    BY DEF Sending, Trying
  <1>2. MeetInv'
    BY <1>1 DEF CustomInv, MeetInv
  <1>3. ASSUME NEW s \in Sends, send'[s].pc = "request"
        PROVE  LET row == send'[s].row
               IN /\ row.status = "active" /\ row.failures <= tally'[row.by].all
                  /\ create[row.by].pc = "done"
                  /\ row.by \in crowded \/ row \in integrations'
    <2> DEFINE row == send[s].row
    <2>1. send'[s] = send[s]
      BY <1>3
    <2>2. row \in IntegrationRows
      BY <1>3, <2>1 DEF CustomInv, CustomTypeInv
    <2>3. /\ row.status = "active" /\ row.failures <= tally[row.by].all
          /\ create[row.by].pc = "done"
          /\ row.by \in crowded \/ row \in integrations
      BY <1>3, <2>1 DEF CustomInv, HeldInv
    <2>4. row.by \notin crowded => row.by # by
      BY <1>3, <2>1 DEF Sending
    <2>5. row.by \in Creates /\ row.failures \in Nat
      BY <2>2 DEF IntegrationRows
    <2>6. tally[row.by].all \in Nat /\ tally'[row.by].all \in Nat /\ tally[row.by].all <= tally'[row.by].all
      BY <2>5 DEF CustomInv, CustomTypeInv, IntegrationTallies
    <2> HIDE DEF row
    <2>7. row.failures <= tally'[row.by].all
      BY <2>3, <2>5, <2>6
    <2>8. row.by \in crowded \/ row \in integrations'
      BY <2>3, <2>4
    <2>9. QED
      BY <2>1, <2>3, <2>7, <2>8 DEF row
  <1>4. ASSUME NEW t \in Trials, trial'[t].pc = "commit"
        PROVE  LET row == trial'[t].row
               IN /\ create[row.by].pc = "done"
                  /\ row.by \in crowded \/ row \in integrations'
    <2> DEFINE row == trial[t].row
    <2>1. trial'[t] = trial[t]
      BY <1>4
    <2>2. /\ create[row.by].pc = "done"
          /\ row.by \in crowded \/ row \in integrations
      BY <1>4, <2>1 DEF CustomInv, HeldInv
    <2>3. row.by \notin crowded => row.by # by
      BY <1>4, <2>1 DEF Trying
    <2>4. QED
      BY <2>1, <2>2, <2>3
  <1>5. HeldInv'
    BY <1>3, <1>4 DEF HeldInv
  <1>6. QED
    BY <1>2, <1>5

LEMMA CustomSucceeds ==
  ASSUME IntegrationAssumption, CustomInv, NEW s \in Sends, RequestSucceeds(s)
  PROVE  CustomInv'
  <1> DEFINE was == send[s].row
             is == Succeeded(was)
             by == was.by
             t == [tally[by] EXCEPT !.streak = 0]
  <1>1. was \in IntegrationRows /\ by \in Creates /\ tally[by] \in IntegrationTallies
    BY DEF RequestSucceeds, CustomInv, CustomTypeInv, IntegrationRows
  <1>2. /\ is \in IntegrationRows /\ is.status = was.status /\ is.failures = 0
        /\ t \in IntegrationTallies /\ t.streak = 0 /\ t.most = tally[by].most /\ t.all = tally[by].all
    BY <1>1 DEF Succeeded, IntegrationRows, IntegrationTallies
  <1>3. WriteBack(was, is) /\ UNCHANGED <<secrets, create, crowded, trial>>
    BY DEF RequestSucceeds
  <1>4. tally' = [tally EXCEPT ![by] = t]
    BY DEF RequestSucceeds
  <1>5. send' = [send EXCEPT ![s] = [pc |-> "done"]] /\ send[s].pc = "request"
    BY DEF RequestSucceeds
  <1>6. /\ was.status = "active" /\ was.failures <= tally[by].all /\ create[by].pc = "done"
        /\ by \in crowded \/ was \in integrations
    BY <1>5 DEF CustomInv, HeldInv
  <1>7. t.streak <= t.most /\ tally[by].all <= t.all /\ is.failures <= t.all
    BY <1>1, <1>2 DEF IntegrationTallies
  <1>8. by \notin crowded => t.most <= FailureCap /\ (is.status = "paused" <=> t.most = FailureCap)
    BY <1>2, <1>6 DEF CustomInv, CountsInv, CountedAs
  <1> HIDE DEF was, is, t, by
  <1>9. /\ integrations' \subseteq IntegrationRows /\ retired' \subseteq Creates
        /\ tally' \in [Creates -> IntegrationTallies] /\ \A r \in Creates : tally[r].all <= tally'[r].all
        /\ CreatedInv' /\ TalliesInv' /\ CountsInv'
        /\ \A i \in integrations : i.by # by => i \in integrations'
    BY <1>1, <1>2, <1>3, <1>4, <1>6, <1>7, <1>8, CopyWritten DEF by
  <1>10. CustomTypeInv'
    BY <1>3, <1>5, <1>9 DEF CustomInv, CustomTypeInv
  <1>11. /\ \A v \in Sends : send'[v] = send[v] \/ send'[v].pc = "done"
         /\ Sending(s, by) /\ send'[s].pc = "done"
    BY <1>5 DEF CustomInv, CustomTypeInv, Sending, by, was
  <1>12. by \notin crowded =>
          /\ \A v \in Sends : send'[v].pc = "request" => send'[v].row.by # by
          /\ \A v \in Trials : trial'[v].pc = "commit" => trial'[v].row.by # by
    BY <1>1, <1>3, <1>5, <1>11 DEF CustomInv, CustomTypeInv, MeetInv, Sending, Trying
  <1>13. MeetInv' /\ HeldInv'
    BY <1>1, <1>3, <1>9, <1>11, <1>12, CopiesKept
  <1>14. QED
    BY <1>9, <1>10, <1>13 DEF CustomInv

LEMMA CustomTried ==
  ASSUME IntegrationAssumption, CustomInv, NEW s \in Trials, CommitTrial(s)
  PROVE  CustomInv'
  <1> DEFINE was == trial[s].row
             is == Succeeded(was)
             by == was.by
             t == [tally[by] EXCEPT !.streak = 0]
  <1>1. was \in IntegrationRows /\ by \in Creates /\ tally[by] \in IntegrationTallies
    BY DEF CommitTrial, CustomInv, CustomTypeInv, IntegrationRows
  <1>2. /\ is \in IntegrationRows /\ is.status = was.status /\ is.failures = 0
        /\ t \in IntegrationTallies /\ t.streak = 0 /\ t.most = tally[by].most /\ t.all = tally[by].all
    BY <1>1 DEF Succeeded, IntegrationRows, IntegrationTallies
  <1>3. WriteBack(was, is) /\ UNCHANGED <<secrets, create, crowded, send>>
    BY DEF CommitTrial
  <1>4. tally' = [tally EXCEPT ![by] = t]
    BY DEF CommitTrial
  <1>5. trial' = [trial EXCEPT ![s] = [pc |-> "done"]] /\ trial[s].pc = "commit"
    BY DEF CommitTrial
  <1>6. create[by].pc = "done" /\ (by \in crowded \/ was \in integrations)
    BY <1>5 DEF CustomInv, HeldInv
  <1>7. t.streak <= t.most /\ tally[by].all <= t.all /\ is.failures <= t.all
    BY <1>1, <1>2 DEF IntegrationTallies
  <1>8. by \notin crowded => t.most <= FailureCap /\ (is.status = "paused" <=> t.most = FailureCap)
    BY <1>2, <1>6 DEF CustomInv, CountsInv, CountedAs
  <1> HIDE DEF was, is, t, by
  <1>9. /\ integrations' \subseteq IntegrationRows /\ retired' \subseteq Creates
        /\ tally' \in [Creates -> IntegrationTallies] /\ \A r \in Creates : tally[r].all <= tally'[r].all
        /\ CreatedInv' /\ TalliesInv' /\ CountsInv'
        /\ \A i \in integrations : i.by # by => i \in integrations'
    BY <1>1, <1>2, <1>3, <1>4, <1>6, <1>7, <1>8, CopyWritten DEF by
  <1>10. CustomTypeInv'
    BY <1>3, <1>5, <1>9 DEF CustomInv, CustomTypeInv
  <1>11. /\ \A v \in Trials : trial'[v] = trial[v] \/ trial'[v].pc = "done"
         /\ Trying(s, by) /\ trial'[s].pc = "done"
    BY <1>5 DEF CustomInv, CustomTypeInv, Trying, by, was
  <1>12. by \notin crowded =>
          /\ \A v \in Sends : send'[v].pc = "request" => send'[v].row.by # by
          /\ \A v \in Trials : trial'[v].pc = "commit" => trial'[v].row.by # by
    BY <1>1, <1>3, <1>5, <1>11 DEF CustomInv, CustomTypeInv, MeetInv, Sending, Trying
  <1>13. MeetInv' /\ HeldInv'
    BY <1>1, <1>3, <1>9, <1>11, <1>12, CopiesKept
  <1>14. QED
    BY <1>9, <1>10, <1>13 DEF CustomInv

LEMMA CustomFails ==
  ASSUME IntegrationAssumption, CustomInv, NEW s \in Sends, RequestFails(s)
  PROVE  CustomInv'
  <1> DEFINE was == send[s].row
             is == Failed(was)
             by == was.by
             streak == tally[by].streak + 1
             t == [streak |-> streak, most |-> IF streak > tally[by].most THEN streak ELSE tally[by].most,
                   all |-> tally[by].all + 1]
  <1>1. was \in IntegrationRows /\ by \in Creates /\ tally[by] \in IntegrationTallies
    BY DEF RequestFails, CustomInv, CustomTypeInv, IntegrationRows
  <1>2. /\ is \in IntegrationRows /\ is.failures = was.failures + 1 /\ is.status \in {was.status, "paused"}
        /\ was.failures + 1 >= FailureCap => is.status = "paused"
        /\ was.failures + 1 < FailureCap => is.status = was.status
        /\ was.failures \in Nat
    <2>1. /\ is = [was EXCEPT !.failures = was.failures + 1, !.result = "error",
                               !.status = IF was.failures + 1 >= FailureCap THEN "paused" ELSE was.status]
          /\ was.failures \in Nat /\ was.failures + 1 \in Nat /\ was.status \in {"active", "paused"}
          /\ FailureCap \in Nat
      BY <1>1 DEF Failed, IntegrationRows, IntegrationAssumption
    <2> HIDE DEF was, is
    <2>2. is \in IntegrationRows
      BY <1>1, <2>1 DEF IntegrationRows
    <2>3. is.failures = was.failures + 1
          /\ is.status = IF was.failures + 1 >= FailureCap THEN "paused" ELSE was.status
      BY <1>1, <2>1 DEF IntegrationRows
    <2>4. QED
      BY <2>1, <2>2, <2>3
  <1>3. /\ tally[by].streak \in Nat /\ tally[by].most \in Nat /\ tally[by].all \in Nat
        /\ streak \in Nat /\ FailureCap \in Nat \ {0}
    BY <1>1 DEF IntegrationTallies, IntegrationAssumption
  <1>4. t \in IntegrationTallies
    BY <1>3 DEF IntegrationTallies
  <1>5. WriteBack(was, is) /\ UNCHANGED <<secrets, create, crowded, trial>>
    BY DEF RequestFails
  <1>6. tally' = [tally EXCEPT ![by] = t]
    BY <1>1 DEF RequestFails, CustomInv, CustomTypeInv
  <1>7. send' = [send EXCEPT ![s] = [pc |-> "done"]] /\ send[s].pc = "request"
    BY DEF RequestFails
  <1>8. /\ was.status = "active" /\ was.failures <= tally[by].all /\ create[by].pc = "done"
        /\ by \in crowded \/ was \in integrations
    BY <1>7 DEF CustomInv, HeldInv
  <1>9. t.streak = streak /\ t.all = tally[by].all + 1 /\ t.most \in Nat
        /\ t.most = IF streak > tally[by].most THEN streak ELSE tally[by].most
    BY <1>3
  <1>10. /\ t.streak <= t.most /\ tally[by].all <= t.all /\ is.failures <= t.all
         /\ is.status = "paused" /\ was.status = "active" => t.all >= FailureCap
    <2> HIDE DEF was, is, t, by, streak
    <2>1. was.status = "active" => was.status # "paused"
      OBVIOUS
    <2>2. QED
      BY <1>2, <1>3, <1>8, <1>9, <2>1
  <1>11. by \notin crowded => /\ is.failures = t.streak /\ t.most <= FailureCap
                              /\ is.status = "paused" <=> t.most = FailureCap
    <2> SUFFICES ASSUME by \notin crowded
                 PROVE  /\ is.failures = t.streak /\ t.most <= FailureCap
                        /\ is.status = "paused" <=> t.most = FailureCap
      OBVIOUS
    <2>1. /\ was.failures = tally[by].streak /\ tally[by].most <= FailureCap
          /\ was.status = "paused" <=> tally[by].most = FailureCap
      BY <1>8 DEF CustomInv, CountsInv, CountedAs
    <2>2. tally[by].streak <= tally[by].most /\ was.status # "paused"
      BY <1>1, <1>8 DEF CustomInv, TalliesInv
    <2>3. streak = tally[by].streak + 1
      OBVIOUS
    <2> HIDE DEF was, is, t, by, streak
    <2>4. QED
      BY <1>2, <1>3, <1>9, <2>1, <2>2, <2>3
  <1> HIDE DEF was, is, t, by, streak
  <1>12. /\ integrations' \subseteq IntegrationRows /\ retired' \subseteq Creates
         /\ tally' \in [Creates -> IntegrationTallies] /\ \A r \in Creates : tally[r].all <= tally'[r].all
         /\ CreatedInv' /\ TalliesInv' /\ CountsInv'
         /\ \A i \in integrations : i.by # by => i \in integrations'
    BY <1>1, <1>2, <1>4, <1>5, <1>6, <1>8, <1>10, <1>11, CopyWritten DEF by
  <1>13. CustomTypeInv'
    BY <1>5, <1>7, <1>12 DEF CustomInv, CustomTypeInv
  <1>14. /\ \A v \in Sends : send'[v] = send[v] \/ send'[v].pc = "done"
         /\ Sending(s, by) /\ send'[s].pc = "done"
    BY <1>7 DEF CustomInv, CustomTypeInv, Sending, by, was
  <1>15. by \notin crowded =>
          /\ \A v \in Sends : send'[v].pc = "request" => send'[v].row.by # by
          /\ \A v \in Trials : trial'[v].pc = "commit" => trial'[v].row.by # by
    BY <1>1, <1>5, <1>7, <1>14 DEF CustomInv, CustomTypeInv, MeetInv, Sending, Trying
  <1>16. MeetInv' /\ HeldInv'
    BY <1>1, <1>5, <1>12, <1>14, <1>15, CopiesKept
  <1>17. QED
    BY <1>12, <1>13, <1>16 DEF CustomInv

---------------------------------------------------------------------------
LEMMA CustomStarts ==
  ASSUME CustomInv, NEW r \in Creates, StartCreate(r)
  PROVE  CustomInv'
  <1>1. /\ create[r].pc = "new" /\ r \notin secrets
        /\ UNCHANGED <<integrations, send, trial, tally, retired, crowded>>
    BY DEF StartCreate, CustomInv, CreatedInv
  <1>2. PICK credential \in BOOLEAN :
          /\ secrets' = secrets \union (IF credential THEN {r} ELSE {})
          /\ create' = [create EXCEPT ![r] = [pc |-> "insert", credential |-> credential]]
    BY DEF StartCreate
  <1>3. /\ create' \in [Creates -> IntegrationCreates]
        /\ create'[r].pc = "insert" /\ create'[r].credential = credential
        /\ \A q \in Creates \ {r} : create'[q] = create[q]
    BY <1>2 DEF CustomInv, CustomTypeInv, IntegrationCreates
  <1>4. CustomTypeInv'
    BY <1>1, <1>2, <1>3 DEF CustomInv, CustomTypeInv
  <1>5. \A i \in integrations : i.by \in Creates \ {r}
    BY <1>1 DEF CustomInv, CustomTypeInv, CreatedInv, IntegrationRows
  <1>6. CreatedInv'
    BY <1>1, <1>2, <1>3, <1>5 DEF CustomInv, CreatedInv
  <1>7. \A q \in Creates : create'[q].pc = "done" <=> create[q].pc = "done"
    BY <1>1, <1>3
  <1>8. MeetInv'
    BY <1>1 DEF CustomInv, MeetInv, Sending, Trying
  <1>9. HeldInv'
    BY <1>1, <1>7 DEF CustomInv, CustomTypeInv, HeldInv, IntegrationRows
  <1>10. TalliesInv' /\ CountsInv'
    BY <1>1, <1>7 DEF CustomInv, TalliesInv, CountsInv, CountedAs
  <1>11. QED
    BY <1>4, <1>6, <1>8, <1>9, <1>10 DEF CustomInv

LEMMA CustomCreateEnds ==
  ASSUME CustomInv, NEW r \in Creates, KillCreate(r)
  PROVE  CustomInv'
  <1>1. /\ create[r].pc = "insert"
        /\ UNCHANGED <<integrations, secrets, send, trial, tally, retired, crowded>>
        /\ create' = [create EXCEPT ![r].pc = "dead"]
    BY DEF KillCreate
  <1>2. /\ create' \in [Creates -> IntegrationCreates]
        /\ create'[r].pc = "dead" /\ create'[r].credential = create[r].credential
        /\ \A q \in Creates \ {r} : create'[q] = create[q]
    BY <1>1 DEF CustomInv, CustomTypeInv, IntegrationCreates
  <1>3. CustomTypeInv'
    BY <1>1, <1>2 DEF CustomInv, CustomTypeInv
  <1>4. \A i \in integrations : i.by \in Creates \ {r}
    BY <1>1 DEF CustomInv, CustomTypeInv, CreatedInv, IntegrationRows
  <1>5. CreatedInv'
    BY <1>1, <1>2, <1>4 DEF CustomInv, CreatedInv
  <1>6. \A q \in Creates : create'[q].pc = "done" <=> create[q].pc = "done"
    BY <1>1, <1>2
  <1>7. MeetInv'
    BY <1>1 DEF CustomInv, MeetInv, Sending, Trying
  <1>8. HeldInv'
    BY <1>1, <1>6 DEF CustomInv, CustomTypeInv, HeldInv, IntegrationRows
  <1>9. TalliesInv' /\ CountsInv'
    BY <1>1, <1>6 DEF CustomInv, TalliesInv, CountsInv, CountedAs
  <1>10. QED
    BY <1>3, <1>5, <1>7, <1>8, <1>9 DEF CustomInv

LEMMA CustomInserts ==
  ASSUME IntegrationAssumption, CustomInv, NEW r \in Creates, InsertIntegration(r)
  PROVE  CustomInv'
  <1>1. /\ create[r].pc = "insert"
        /\ UNCHANGED <<secrets, send, trial, tally, retired, crowded>>
        /\ create' = [create EXCEPT ![r].pc = "done"]
    BY DEF InsertIntegration
  <1>2. PICK n \in IntegrationNames, outbound \in BOOLEAN :
          integrations' = integrations \union {Integration(r, n, outbound, create[r].credential)}
    BY DEF InsertIntegration, Inserted
  <1> DEFINE row == Integration(r, n, outbound, create[r].credential)
  <1>3. /\ create' \in [Creates -> IntegrationCreates]
        /\ create'[r].pc = "done" /\ create'[r].credential = create[r].credential
        /\ \A q \in Creates \ {r} : create'[q] = create[q]
    BY <1>1 DEF CustomInv, CustomTypeInv, IntegrationCreates
  <1>4. /\ row \in IntegrationRows /\ row.by = r /\ row.credential = create[r].credential
        /\ row.failures = 0 /\ row.status = "active"
    BY DEF Integration, IntegrationRows, CustomInv, CustomTypeInv, IntegrationCreates
  <1>5. integrations' = integrations \union {row}
    BY <1>2
  <1> HIDE DEF row
  <1>6. CustomTypeInv'
    BY <1>1, <1>3, <1>4, <1>5 DEF CustomInv, CustomTypeInv
  <1>7. \A i \in integrations : i.by \in Creates \ {r}
    BY <1>1 DEF CustomInv, CustomTypeInv, CreatedInv, IntegrationRows
  <1>8. CreatedInv'
    BY <1>1, <1>3, <1>4, <1>5, <1>7 DEF CustomInv, CreatedInv
  <1>9. \A q \in Creates : create[q].pc = "done" => create'[q].pc = "done"
    BY <1>1, <1>3
  <1>10. MeetInv'
    BY <1>1 DEF CustomInv, MeetInv, Sending, Trying
  <1>11. HeldInv'
    BY <1>1, <1>5, <1>9 DEF CustomInv, CustomTypeInv, HeldInv, IntegrationRows
  <1>12. TalliesInv'
    BY <1>1, <1>9 DEF CustomInv, TalliesInv
  <1>13. tally[r] = [streak |-> 0, most |-> 0, all |-> 0] /\ r \notin retired
    BY <1>1 DEF CustomInv, TalliesInv
  <1>14. CountsInv'
    <2> SUFFICES ASSUME NEW k \in integrations' PROVE CountedAs(k)'
      BY DEF CountsInv
    <2>1. CASE k \in integrations
      BY <1>1, <2>1 DEF CustomInv, CountsInv, CountedAs
    <2>2. CASE k = row
      <3>1. k.by = r /\ k.failures = 0 /\ k.status = "active"
        BY <1>4, <2>2
      <3>2. /\ tally'[r].streak = 0 /\ tally'[r].most = 0 /\ tally'[r].all = 0 /\ r \notin retired'
        BY <1>1, <1>13
      <3>3. QED
        BY <3>1, <3>2 DEF CountedAs, IntegrationAssumption
    <2>3. QED
      BY <1>5, <2>1, <2>2
  <1>15. QED
    BY <1>6, <1>8, <1>10, <1>11, <1>12, <1>14 DEF CustomInv

\* A copy taken of a row that another holds makes the row crowded.
LEMMA Crowded ==
  ASSUME CustomInv, NEW row \in integrations, Crowding(row.by)
  PROVE  /\ crowded \subseteq crowded'
         /\ row.by \notin crowded' => /\ \A s \in Sends : ~ Sending(s, row.by)
                                      /\ \A t \in Trials : ~ Trying(t, row.by)
  BY DEF Crowding, UsersOf, Sending, Trying

LEMMA CustomLoads ==
  ASSUME CustomInv, NEW s \in Sends, LoadForSend(s)
  PROVE  CustomInv'
  <1>1. UNCHANGED <<integrations, secrets, create, trial, tally, retired>> /\ send[s].pc = "new"
    BY DEF LoadForSend
  <1>2. CASE send' = [send EXCEPT ![s] = [pc |-> "done"]] /\ UNCHANGED crowded
    <2>1. send'[s].pc = "done" /\ \A v \in Sends \ {s} : send'[v] = send[v]
      BY <1>2 DEF CustomInv, CustomTypeInv
    <2>2. CustomTypeInv'
      BY <1>1, <1>2 DEF CustomInv, CustomTypeInv
    <2>3. MeetInv'
      BY <1>1, <1>2, <2>1 DEF CustomInv, MeetInv, Sending, Trying
    <2>4. HeldInv'
      BY <1>1, <1>2, <2>1 DEF CustomInv, HeldInv
    <2>5. CreatedInv' /\ TalliesInv' /\ CountsInv'
      BY <1>1, <1>2 DEF CustomInv, CreatedInv, TalliesInv, CountsInv, CountedAs
    <2>6. QED
      BY <2>2, <2>3, <2>4, <2>5 DEF CustomInv
  <1>3. CASE \E row \in integrations :
               /\ ~ Shut(row) /\ Crowding(row.by)
               /\ send' = [send EXCEPT ![s] = [pc |-> "request", row |-> row]]
    <2>1. PICK row \in integrations :
               /\ ~ Shut(row) /\ Crowding(row.by)
               /\ send' = [send EXCEPT ![s] = [pc |-> "request", row |-> row]]
      BY <1>3
    <2>2. /\ send'[s].pc = "request" /\ send'[s].row = row
          /\ \A v \in Sends \ {s} : send'[v] = send[v]
      BY <2>1 DEF CustomInv, CustomTypeInv
    <2>3. /\ row \in IntegrationRows /\ row.status = "active" /\ row.by \in Creates
          /\ create[row.by].pc = "done" /\ row.failures <= tally[row.by].all
      BY <2>1 DEF CustomInv, CustomTypeInv, CreatedInv, CountsInv, CountedAs, IntegrationRows, Shut
    <2>4. /\ crowded \subseteq crowded'
          /\ row.by \notin crowded' => /\ \A v \in Sends : ~ Sending(v, row.by)
                                       /\ \A t \in Trials : ~ Trying(t, row.by)
      BY <2>1, Crowded
    <2>5. CustomTypeInv'
      BY <1>1, <2>1, <2>3 DEF CustomInv, CustomTypeInv
    <2>6. MeetInv'
      <3> SUFFICES ASSUME NEW by \in Creates, by \notin crowded'
                   PROVE  /\ \A v, w \in Sends : Sending(v, by)' /\ Sending(w, by)' => v = w
                          /\ \A t, v \in Trials : Trying(t, by)' /\ Trying(v, by)' => t = v
                          /\ \A v \in Sends, t \in Trials : ~ (Sending(v, by)' /\ Trying(t, by)')
        BY DEF MeetInv
      <3>1. /\ \A v, w \in Sends : Sending(v, by) /\ Sending(w, by) => v = w
            /\ \A t, v \in Trials : Trying(t, by) /\ Trying(v, by) => t = v
            /\ \A v \in Sends, t \in Trials : ~ (Sending(v, by) /\ Trying(t, by))
        BY <2>4 DEF CustomInv, MeetInv
      <3>2. \A t \in Trials : Trying(t, by)' <=> Trying(t, by)
        BY <1>1 DEF Trying
      <3>3. \A v \in Sends \ {s} : Sending(v, by)' <=> Sending(v, by)
        BY <2>2 DEF Sending
      <3>4. Sending(s, by)' => by = row.by
        BY <2>2 DEF Sending
      <3>5. QED
        BY <2>4, <3>1, <3>2, <3>3, <3>4
    <2>7. HeldInv'
      BY <1>1, <2>1, <2>2, <2>3, <2>4 DEF CustomInv, HeldInv
    <2>8. CreatedInv' /\ TalliesInv' /\ CountsInv'
      BY <1>1, <2>4 DEF CustomInv, CreatedInv, TalliesInv, CountsInv, CountedAs
    <2>9. QED
      BY <2>5, <2>6, <2>7, <2>8 DEF CustomInv
  <1>4. QED
    BY <1>2, <1>3 DEF LoadForSend, Found

LEMMA CustomLoadsToTry ==
  ASSUME CustomInv, NEW s \in Trials, LoadForTrial(s)
  PROVE  CustomInv'
  <1>1. UNCHANGED <<integrations, secrets, create, send, tally, retired>> /\ trial[s].pc = "new"
    BY DEF LoadForTrial
  <1>2. PICK row \in integrations :
          /\ Crowding(row.by)
          /\ trial' = [trial EXCEPT ![s] = [pc |-> "commit", row |-> row]]
    BY DEF LoadForTrial
  <1>3. /\ trial'[s].pc = "commit" /\ trial'[s].row = row
        /\ \A v \in Trials \ {s} : trial'[v] = trial[v]
    BY <1>2 DEF CustomInv, CustomTypeInv
  <1>4. row \in IntegrationRows /\ row.by \in Creates /\ create[row.by].pc = "done"
    BY <1>2 DEF CustomInv, CustomTypeInv, CreatedInv, IntegrationRows
  <1>5. /\ crowded \subseteq crowded'
        /\ row.by \notin crowded' => /\ \A v \in Sends : ~ Sending(v, row.by)
                                     /\ \A t \in Trials : ~ Trying(t, row.by)
    BY <1>2, Crowded
  <1>6. CustomTypeInv'
    BY <1>1, <1>2, <1>4 DEF CustomInv, CustomTypeInv
  <1>7. MeetInv'
    <2> SUFFICES ASSUME NEW by \in Creates, by \notin crowded'
                 PROVE  /\ \A v, w \in Sends : Sending(v, by)' /\ Sending(w, by)' => v = w
                        /\ \A t, v \in Trials : Trying(t, by)' /\ Trying(v, by)' => t = v
                        /\ \A v \in Sends, t \in Trials : ~ (Sending(v, by)' /\ Trying(t, by)')
      BY DEF MeetInv
    <2>1. /\ \A v, w \in Sends : Sending(v, by) /\ Sending(w, by) => v = w
          /\ \A t, v \in Trials : Trying(t, by) /\ Trying(v, by) => t = v
          /\ \A v \in Sends, t \in Trials : ~ (Sending(v, by) /\ Trying(t, by))
      BY <1>5 DEF CustomInv, MeetInv
    <2>2. \A v \in Sends : Sending(v, by)' <=> Sending(v, by)
      BY <1>1 DEF Sending
    <2>3. \A v \in Trials \ {s} : Trying(v, by)' <=> Trying(v, by)
      BY <1>3 DEF Trying
    <2>4. Trying(s, by)' => by = row.by
      BY <1>3 DEF Trying
    <2>5. QED
      BY <1>5, <2>1, <2>2, <2>3, <2>4
  <1>8. HeldInv'
    BY <1>1, <1>2, <1>3, <1>4, <1>5 DEF CustomInv, HeldInv
  <1>9. CreatedInv' /\ TalliesInv' /\ CountsInv'
    BY <1>1, <1>5 DEF CustomInv, CreatedInv, TalliesInv, CountsInv, CountedAs
  <1>10. QED
    BY <1>6, <1>7, <1>8, <1>9 DEF CustomInv

LEMMA CustomCommitFails ==
  ASSUME CustomInv, NEW s \in Sends, CommitFails(s)
  PROVE  CustomInv'
  <1>1. /\ UNCHANGED <<integrations, secrets, create, trial, tally, retired, crowded>>
        /\ send' = [send EXCEPT ![s] = [pc |-> "dead"]]
    BY DEF CommitFails
  <1>2. send'[s].pc = "dead" /\ \A v \in Sends \ {s} : send'[v] = send[v]
    BY <1>1 DEF CustomInv, CustomTypeInv
  <1>3. CustomTypeInv'
    BY <1>1 DEF CustomInv, CustomTypeInv
  <1>4. MeetInv'
    BY <1>1, <1>2 DEF CustomInv, MeetInv, Sending, Trying
  <1>5. HeldInv'
    BY <1>1, <1>2 DEF CustomInv, HeldInv
  <1>6. CreatedInv' /\ TalliesInv' /\ CountsInv'
    BY <1>1 DEF CustomInv, CreatedInv, TalliesInv, CountsInv, CountedAs
  <1>7. QED
    BY <1>3, <1>4, <1>5, <1>6 DEF CustomInv

LEMMA CustomRests == CustomInv /\ UNCHANGED integrationVars => CustomInv'
  BY DEF integrationVars, CustomInv, CustomTypeInv, CreatedInv, MeetInv, HeldInv, TalliesInv,
         CountsInv, CountedAs, Sending, Trying

LEMMA CustomStep == CustomInv /\ [IntegrationNext]_integrationVars => CustomInv'
  BY IntegrationAssumption, CustomStarts, CustomInserts, CustomCreateEnds, CustomLoads, CustomSucceeds,
     CustomFails, CustomCommitFails, CustomLoadsToTry, CustomTried, CustomRests DEF IntegrationNext

LEMMA CustomMeans == CustomInv => CustomSound
  <1> SUFFICES ASSUME CustomInv PROVE CustomSound
    OBVIOUS
  <1>1. IntegrationTypeOK
    BY DEF CustomInv, CustomTypeInv, IntegrationTypeOK, IntegrationRows, IntegrationCreates
  <1>2. PausedByStreak /\ CountIsStreak /\ PausedForGood
    BY DEF CustomInv, CountsInv, CountedAs, PausedByStreak, CountIsStreak, PausedForGood
  <1>3. SecretsReferred
    <2>1. \A i \in integrations : i.by \in Creates
      BY DEF CustomInv, CustomTypeInv, IntegrationRows
    <2>2. \A r \in Creates : create[r].pc \in {"new", "insert", "done", "dead"}
      BY DEF CustomInv, CustomTypeInv, IntegrationCreates
    <2>3. QED
      BY <2>1, <2>2 DEF CustomInv, CustomTypeInv, CreatedInv, SecretsReferred
  <1>4. QED
    BY <1>1, <1>2, <1>3 DEF CustomSound

\* The circuit breaker opens on a streak, stays open, and keeps its credentials, unless two
\* requests were using an integration at once (adapters.py:49-104, integrations.py:175-262).
THEOREM CustomIntegrationsAreSound ==
  IntegrationInit /\ [][IntegrationNext]_integrationVars => []CustomSound
  BY CustomInitially, CustomStep, CustomMeans, PTL

---------------------------------------------------------------------------
(***************************************************************************)
(* Built-in sources                                                        *)
(***************************************************************************)
SourceEntries ==
  [connected : BOOLEAN, key : {{}} \union {{q} : q \in Configures}, syncs : 0 .. MaxSyncs]
ConfigureStates ==
  [pc : {"new"}] \union [pc : {"audit", "done", "failed"}, at : Processes]

SourceTypeInv ==
  /\ shipped \in BOOLEAN
  /\ entry \in [Processes -> SourceEntries]
  /\ configure \in [Configures -> ConfigureStates]
  /\ audits \subseteq Configures

\* Whose key is shown has configured, and a request that is done has its audit row.
ShownInv ==
  /\ \A w \in Processes : \A q \in entry[w].key : configure[q].pc # "new"
  /\ \A q \in Configures : configure[q].pc = "done" => q \in audits

SourceInv == SourceTypeInv /\ ShownInv /\ DisconnectedKeepsNoKey

LEMMA ShippedType == SourceAssumption /\ shipped \in BOOLEAN => Shipped \in SourceEntries /\ Shipped.key = {}
  BY DEF Shipped, SourceEntries, SourceAssumption

LEMMA SourceInitially == SourceAssumption /\ SourceInit => SourceInv
  BY ShippedType DEF SourceInit, SourceInv, SourceTypeInv, ShownInv, DisconnectedKeepsNoKey, ConfigureStates

LEMMA SourceConfigures ==
  ASSUME SourceInv, NEW q \in Configures, NEW w \in Processes, ConfigureSource(q, w)
  PROVE  SourceInv'
  <1>1. PICK key \in {{}, {q}} : entry' = [entry EXCEPT ![w] = Configured(w, key)]
    BY DEF ConfigureSource
  <1>2. /\ configure' = [configure EXCEPT ![q] = [pc |-> "audit", at |-> w]]
        /\ configure[q].pc = "new" /\ UNCHANGED <<shipped, audits>>
    BY DEF ConfigureSource
  <1>3. /\ entry'[w] \in SourceEntries /\ entry'[w].connected
        /\ entry'[w].key \in {entry[w].key, {q}}
        /\ \A v \in Processes \ {w} : entry'[v] = entry[v]
        /\ entry' \in [Processes -> SourceEntries]
    <2>1. entry[w] \in SourceEntries /\ entry \in [Processes -> SourceEntries]
      BY DEF SourceInv, SourceTypeInv
    <2>2. {q} \in {{p} : p \in Configures}
      OBVIOUS
    <2>3. /\ Configured(w, key) \in SourceEntries /\ Configured(w, key).connected
          /\ Configured(w, key).key \in {entry[w].key, {q}}
      BY <2>1, <2>2 DEF SourceEntries, Configured
    <2>4. QED
      BY <1>1, <2>1, <2>3
  <1>4. /\ configure' \in [Configures -> ConfigureStates] /\ configure'[q].pc = "audit"
        /\ \A p \in Configures \ {q} : configure'[p] = configure[p]
    BY <1>2 DEF SourceInv, SourceTypeInv, ConfigureStates
  <1>5. SourceTypeInv'
    BY <1>2, <1>3, <1>4 DEF SourceInv, SourceTypeInv
  <1>6. \A v \in Processes : entry[v].key \subseteq Configures
    BY DEF SourceInv, SourceTypeInv, SourceEntries
  <1>7. ShownInv'
    BY <1>2, <1>3, <1>4, <1>6 DEF SourceInv, ShownInv
  <1>8. DisconnectedKeepsNoKey'
    BY <1>3 DEF SourceInv, DisconnectedKeepsNoKey
  <1>9. QED
    BY <1>5, <1>7, <1>8 DEF SourceInv

LEMMA SourceAudits ==
  ASSUME SourceInv, NEW q \in Configures, AuditSource(q) \/ AuditFails(q)
  PROVE  SourceInv'
  <1>1. /\ UNCHANGED <<shipped, entry>> /\ configure[q].pc = "audit"
        /\ audits' \in {audits, audits \union {q}}
        /\ \E pc \in {"done", "failed"} :
             configure' = [configure EXCEPT ![q].pc = pc] /\ (pc = "done" => audits' = audits \union {q})
    BY DEF AuditSource, AuditFails, Audited
  <1>2. /\ configure' \in [Configures -> ConfigureStates]
        /\ \A p \in Configures : configure'[p].pc = "new" => configure[p].pc = "new"
        /\ \A p \in Configures : configure'[p].pc = "done" => configure[p].pc = "done" \/ p \in audits'
    BY <1>1 DEF SourceInv, SourceTypeInv, ConfigureStates
  <1>3. SourceTypeInv'
    BY <1>1, <1>2 DEF SourceInv, SourceTypeInv
  <1>4. \A v \in Processes : entry[v].key \subseteq Configures
    BY DEF SourceInv, SourceTypeInv, SourceEntries
  <1>5. ShownInv' /\ DisconnectedKeepsNoKey'
    BY <1>1, <1>2, <1>4 DEF SourceInv, ShownInv, DisconnectedKeepsNoKey
  <1>6. QED
    BY <1>3, <1>5 DEF SourceInv

\* What a process does to its own entry: no key is new, and none stays on a disconnected source.
LEMMA SourceEntryMoves ==
  ASSUME SourceInv, NEW w \in Processes, NEW e \in SourceEntries,
         entry' = [entry EXCEPT ![w] = e], e.key \subseteq entry[w].key,
         ~ e.connected => e.key = {}, UNCHANGED <<shipped, audits>>,
         configure' \in [Configures -> ConfigureStates],
         \A q \in Configures : /\ configure'[q].pc = "new" => configure[q].pc = "new"
                               /\ configure'[q].pc = "done" => configure[q].pc = "done"
  PROVE  SourceInv'
  <1>1. /\ entry' \in [Processes -> SourceEntries] /\ entry'[w] = e
        /\ \A v \in Processes \ {w} : entry'[v] = entry[v]
    BY DEF SourceInv, SourceTypeInv
  <1>2. SourceTypeInv'
    BY <1>1 DEF SourceInv, SourceTypeInv
  <1>3. \A v \in Processes : entry[v].key \subseteq Configures
    BY DEF SourceInv, SourceTypeInv, SourceEntries
  <1>4. ShownInv'
    BY <1>1, <1>3 DEF SourceInv, ShownInv
  <1>5. DisconnectedKeepsNoKey'
    BY <1>1 DEF SourceInv, DisconnectedKeepsNoKey
  <1>6. QED
    BY <1>2, <1>4, <1>5 DEF SourceInv

LEMMA SourceDisconnects ==
  ASSUME SourceInv, NEW w \in Processes, DisconnectSource(w)
  PROVE  SourceInv'
  <1>1. /\ Disconnected(w) \in SourceEntries
        /\ Disconnected(w).key = {}
    BY DEF Disconnected, SourceInv, SourceTypeInv, SourceEntries
  <1>2. QED
    BY <1>1, SourceEntryMoves DEF DisconnectSource, SourceInv, SourceTypeInv

LEMMA SourceSyncs ==
  ASSUME SourceAssumption, SourceInv, NEW w \in Processes, ManualSync(w)
  PROVE  SourceInv'
  <1> DEFINE e == [entry[w] EXCEPT !.syncs = @ + 1]
  <1>1. entry[w].syncs \in 0 .. MaxSyncs /\ entry[w].syncs < MaxSyncs /\ MaxSyncs \in Nat
        /\ entry[w] \in SourceEntries
    BY DEF ManualSync, SourceInv, SourceTypeInv, SourceEntries, SourceAssumption
  <1>2. entry[w].syncs + 1 \in 0 .. MaxSyncs
    BY <1>1
  <1>3. /\ e \in SourceEntries /\ e.key = entry[w].key /\ e.connected = entry[w].connected
    BY <1>1, <1>2 DEF SourceEntries
  <1>4. entry' = [entry EXCEPT ![w] = e] /\ UNCHANGED <<shipped, configure, audits>>
    BY DEF ManualSync
  <1>5. ~ e.connected => e.key = {}
    BY <1>3 DEF SourceInv, DisconnectedKeepsNoKey
  <1> HIDE DEF e
  <1>6. QED
    BY <1>3, <1>4, <1>5, SourceEntryMoves DEF SourceInv, SourceTypeInv

LEMMA SourceRestarts ==
  ASSUME SourceAssumption, SourceInv, NEW w \in Processes, Restart(w)
  PROVE  SourceInv'
  <1>1. Shipped \in SourceEntries /\ Shipped.key = {}
    BY ShippedType DEF SourceInv, SourceTypeInv
  <1>2. /\ configure' \in [Configures -> ConfigureStates]
        /\ \A q \in Configures : /\ configure'[q].pc = "new" => configure[q].pc = "new"
                                 /\ configure'[q].pc = "done" => configure[q].pc = "done"
    BY DEF Restart, SourceInv, SourceTypeInv, ConfigureStates
  <1>3. QED
    BY <1>1, <1>2, SourceEntryMoves DEF Restart

LEMMA SourceStep == SourceInv /\ [SourceNext]_sourceVars => SourceInv'
  <1>1. SourceInv /\ UNCHANGED sourceVars => SourceInv'
    BY DEF sourceVars, SourceInv, SourceTypeInv, ShownInv, DisconnectedKeepsNoKey
  <1>2. QED
    BY <1>1, SourceAssumption, SourceConfigures, SourceAudits, SourceDisconnects, SourceSyncs,
       SourceRestarts DEF SourceNext

LEMMA SourceMeans == SourceInv => SourcesSound
  <1> SUFFICES ASSUME SourceInv PROVE SourcesSound
    OBVIOUS
  <1>1. ASSUME NEW w \in Processes
        PROVE  /\ entry[w].key \subseteq Configures /\ Cardinality(entry[w].key) <= 1
               /\ entry[w].syncs \in 0 .. MaxSyncs
    <2>1. entry[w] \in SourceEntries
      BY DEF SourceInv, SourceTypeInv
    <2>2. CASE entry[w].key = {}
      BY <2>1, <2>2, FS_EmptySet DEF SourceEntries
    <2>3. CASE entry[w].key # {}
      <3>1. PICK q \in Configures : entry[w].key = {q}
        BY <2>1, <2>3 DEF SourceEntries
      <3>2. Cardinality({q}) = 1
        BY FS_Singleton
      <3>3. QED
        BY <2>1, <3>1, <3>2 DEF SourceEntries
    <2>4. QED
      BY <2>2, <2>3
  <1>2. SourceTypeOK
    BY <1>1 DEF SourceInv, SourceTypeInv, SourceTypeOK, ConfigureStates
  <1>3. KeysAudited
    BY <1>1 DEF SourceInv, SourceTypeInv, ShownInv, KeysAudited, ConfigureStates
  <1>4. QED
    BY <1>2, <1>3 DEF SourcesSound, SourceInv

\* Whose key a built-in source shows was audited, is being audited or failed to be, and one that
\* was disconnected shows none (integrations.py:79-167).
THEOREM BuiltInSourcesAreSound == SourceInit /\ [][SourceNext]_sourceVars => []SourcesSound
  BY SourceAssumption, SourceInitially, SourceStep, SourceMeans, PTL

---------------------------------------------------------------------------
(* The components side by side: in a step of one the others rest.          *)

LEMMA OnlyItsPart ==
  ASSUME [Next]_recordVars
  PROVE  /\ part' = part
         /\ part = "limit" => [LimitNext]_limitVars
         /\ part = "token" => [TokenNext]_tokenVars
         /\ part = "key" => [KeyNext]_keyVars
         /\ part = "integration" => [IntegrationNext]_integrationVars
         /\ part = "source" => [SourceNext]_sourceVars
  <1>1. CASE UNCHANGED recordVars
    BY <1>1 DEF recordVars
  <1>2. CASE Next
    BY <1>2 DEF Next, Others
  <1>3. QED
    BY <1>1, <1>2

\* The limits on sign-ins hold and end, the families of refresh tokens stay apart and a token
\* is exchanged once unless two exchanges meet, and a revoked key serves nobody who comes
\* after (rate_limit.py:17-87, auth.py:81-264, api_keys.py:35-118).
THEOREM AccessStaysSound == Spec => []AccessSound
  <1> DEFINE Inv == /\ part = "limit" => LimitInv
                    /\ part = "token" => TokenInv
                    /\ part = "key" => KeyInv
  <1>1. Init => Inv
    BY LimitInitially, TokenInitially, KeyInitially DEF Init
  <1>2. Inv /\ [Next]_recordVars => Inv'
    BY OnlyItsPart, LimitStep, TokenStep, KeyStep
  <1>3. Inv => AccessSound
    BY LimitMeans, TokenMeans, KeyMeans DEF AccessSound
  <1>4. QED
    BY <1>1, <1>2, <1>3, PTL DEF Spec

\* The same of custom integrations and of built-in sources, side by side with the rest
\* (integrations.py, adapters.py:49-104).
THEOREM IntegrationsStaySound == Spec => []IntegrationsSound
  <1> DEFINE Inv == /\ part = "integration" => CustomInv
                    /\ part = "source" => SourceInv
  <1>1. Init => Inv
    BY SourceAssumption, CustomInitially, SourceInitially DEF Init
  <1>2. Inv /\ [Next]_recordVars => Inv'
    BY OnlyItsPart, CustomStep, SourceStep
  <1>3. Inv => IntegrationsSound
    BY CustomMeans, SourceMeans DEF IntegrationsSound
  <1>4. QED
    BY <1>1, <1>2, <1>3, PTL DEF Spec
=============================================================================
