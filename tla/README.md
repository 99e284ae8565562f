# A verification development for the churn prediction and intervention platform

TLA+ models of the parts of the platform whose correctness depends on the order in which
things happen: several processes share a PostgreSQL database and a Redis server, nothing in
the code takes a lock or checks a version, and any process may die between two steps. Each
module is translated from the source under `src/`; `PROJECT.json` maps every definition to
the lines it stands for. TLC checks the modules on small instances, TLAPS proves the central
properties for every instance.

## The system

| Part | State it keeps | Operations | What is hard about it |
|---|---|---|---|
| API (FastAPI, `apps/api/routers`) | none of its own, bar a few module globals | about seventy endpoints, each with one database session | requests interleave with each other and with the worker's jobs |
| Worker (arq, `apps/api/worker.py`) | the queue, in Redis | `process_webhook` from the queue; jobs at 1:00, 2:00, 3:00, 4:00, Mondays 5:00 and every 15 minutes | a dead worker's job is run again, one that raised is not |
| PostgreSQL | all tables of `models.py` | READ COMMITTED, no `FOR UPDATE`, no version columns | check-then-write; an ORM flush writes only the columns that changed in memory |
| Redis | the queue, counters, a cache, channels | commands one at a time; pub/sub without memory | lost messages, counters that never expire |
| Node relay (`apps/realtime`), web front end (`apps/web`) | what screens show | subscribe, broadcast | screens and tables disagree |

Inside the API and the worker the components are these. Those without a module are listed in
`PROJECT.json` as not modelled, each with the reason.

| Component | Source | Correct means | Module |
|---|---|---|---|
| Playbook engine and CSM routing | `core/playbooks/engine.py`, `routers/playbooks.py` | a run follows its graph, waits out its delays, ends, and stays ended; a CSM gets no more tasks than the limit | `PlaybookEngine`, `RunContract` |
| Campaign outreach, anomaly debounce | `core/outreach`, `core/analytics/anomaly.py`, `routers/campaigns.py`, `routers/anomalies.py` | nobody is messaged twice within the cooldown, no message goes unrecorded, everyone in the audience is reached | `OutreachEngine` |
| Webhook ingestion | `worker.py`, `routers/webhooks.py`, `core/ingestion`, `core/surveys` | events are filed once, under one row per customer, and no accepted webhook is forgotten | `WebhookIngestion`, `EventLedger` |
| Overrides, outcomes, ROI | `routers/interventions.py`, `core/analytics/outcomes.py`, `roi.py` | each intervention gets one outcome, that agrees with the cancellations, and counts in one report | `InterventionOutcomes` |
| Churn scores and the live feed | `worker.py`, `routers/predictions.py`, `core/queue.py`, `apps/realtime` | a score is whole and newest wins; screens show what is stored; everyone is scored | `ScoringFeed` |
| Revenue at risk | `core/analytics/revenue_at_risk.py`, `worker.py`, `routers/analytics.py` | one coherent snapshot a day; a breach that lasts is alerted, and not twice within 24 hours | `RevenueAlert` |
| CRM sync | `core/crm` | what was pushed is logged, and the CRM shows the newest of it | `CrmSync` |
| Champions | `core/analytics/champion.py`, `routers/champions.py` | a quiet champion is reported, once; one contact per address | `Champions` |
| Login limits | `core/rate_limit.py`, `routers/auth.py` | counters end, bursts are bounded, a locked account stays locked | `SignInLimits` |
| Refresh tokens | `routers/auth.py`, `core/security.py` | a token is exchanged once and within its life; signing out ends all sessions | `RefreshTokens` |
| API keys | `core/api_keys.py`, `routers/public_api.py` | revoked and expired keys serve nobody; the window bounds a key's requests per process | `ApiKeys` |
| Recommended interventions | `core/ml/interventions.py`, `routers/explanations.py` | advice fits a risk the customer had within a day; the model is asked once a day; a fallback is not kept | `Recommendations` |
| Custom integrations | `routers/integrations.py`, `core/outreach/adapters.py` | an integration is paused by failures in a row, and by nothing else; no reference to a secret dangles | `CustomIntegrations` |
| Built-in sources | `routers/integrations.py` | a key that is shown was audited; a disconnected source shows none | `BuiltInSources` |
| Health score | `core/ml/health.py`, `routers/health.py`, `worker.py` | the last weights set are in force; a score is on the scale, explained by its parts, and no worse for better inputs | `HealthScores` |
| Expansion signal | `routers/health.py`, `core/ml/expansion.py`, `worker.py` | the stored probability and its date belong together; more seats are suggested to those who grow | `ExpansionSignal` |
| Exit surveys | `core/surveys/engine.py`, `core/analytics/attribution.py` | the reason on the customer is that of the last survey; the validation report judges each survey once | `ExitSurveys` |
| Contracts and renewals | `core/analytics/renewals.py` | one contract per customer, with the last terms; every contract at risk is listed | `Renewals` |
| Features | `core/ml/features.py`, `core/ml/train.py` | what events tell of a date stays, what the customer's row tells is of the last delivery; a label of churn is settled; newest by date is newest by storing | `FeatureStore` |
| Attribution | `core/analytics/attribution.py`, `routers/analytics.py` | the shares of an account add up to one; later touches count more; the two reports count the same successes | `Attribution` |
| Reports on segments | `core/analytics/cohorts.py`, `revenue_at_risk.py`, `benchmarks.py`, `core/ml/fairness.py` | each report adds up to the same book of customers; a benchmark shows no tenant alone | `SegmentReports` |

How they interact: ingestion and scoring write the `customers` rows that campaigns, playbooks
and reports read (in those modules an external `Rescore`); anomalies call the campaign engine
inside the detection request; campaigns and overrides write the `interventions` rows whose
outcomes the nightly job records; playbooks and overrides send through the same adapters.

## Modules

`PlaybookEngine` - `playbook_runs` rows, the ORM objects that sessions hold (`orig`: as
loaded, `copy`: as changed), the CSM counts. A session loads a row, performs the node and
commits: three steps, with `Crash` possible after each. `Flushed` is the ORM's flush, which
writes only the columns that differ from what was loaded; much of what is true here is true
because of it. The request that created a run goes on with the object it inserted, which the
identity map returns unrefreshed (`expire_on_commit=False`), while each sweep loads afresh.
`EditGraph` and `Rescore` are external: an edit takes nodes away, or the whole graph with them.
A run whose node is gone fails; one whose graph has no nodes at all ends as completed. Sessions
*overlap* on a run when one reads it while another holds it, and the overlap is over when the last
of them lets go and no timer is set. `HistoryPersisted` reads the one column that never
reaches the database. `RunContract` is the abstract specification, with no sessions: what is
performed was granted by a performed node.

`OutreachEngine` - campaigns, anomalies, and the interventions of each campaign and customer as
a set of stamps (`sent_at`) and a tally of rows by status. Sessions are the nightly job and
detection requests; each goes through campaigns and customers, checks the cooldown, hands the
message over and commits. Adapters that commit the caller's session (in-app, custom) commit
the unfinished row with their own. Days are the unit of time.

`WebhookIngestion` - jobs, `customers` and `customer_events` rows, and per worker an open
transaction: its uncommitted rows and keys, the one customer object it holds. Row and key locks
make a worker wait; `Deadlock` fails one of two that wait for each other. `EventLedger` is the
abstract specification, without workers, transactions or deaths: a delivery is accepted, its events
go on file at once, and then it is done.

`InterventionOutcomes` - `interventions` rows, cancellations that are made, and later ingested,
at any time, the override request, the outcome job step by step and the weekly report. A
moment is half a day, so that 4:00 and Monday 5:00 fall on different ones.

`ScoringFeed` - scores and health score dates of `customers`, the nightly job, the on-the-fly
request, and the `churn_updates` channel with each subscriber's queue and screen.

Sixteen smaller modules each model one component in the same style:

* `RevenueAlert` - snapshot rows, the settings row with `last_alerted_at`, the nightly job step
  by step, settings requests that load and save. Time is in ticks, `Day` of them from one 1:00
  to the next, because `> 24 hours` is compared with a job that runs daily.
* `CrmSync` - requests that walk through customers with the objects they loaded: flush, push,
  commit. A customer's fields are the number of the score they carry.
* `Champions` - contacts, champion anomalies, status requests with what they have added and not
  committed, contact forms that look up and then write.
* `SignInLimits` - two Redis counters, every command a step that may fail.
* `RefreshTokens` - the token rows of one user, refresh and sign-out as load and commit.
* `ApiKeys` - key rows, requests that load, check, stamp and count in their own process.
* `Recommendations` - cache entries with their lives, requests, the model and Redis failing.
* `CustomIntegrations` - integration rows with their failure count, secrets, requests that create
  in two commits, sends and tests that load, call out and commit.
* `BuiltInSources` - one entry per API process, because the list is a module global, and the audit
  rows. A restart brings back the entry the source was shipped with.
* `HealthScores` - the weights row, the requests that load and change it, the nightly records, the
  page. The five component scores and the weighted sum are computed in
  hundredths of a point, with the rounding of the code. Weights are ten-thousandths, since a
  request is accepted when they add up to one within 1e-4; the run asks for sums of 10001, 9999 and
  9998, and a score may lie a hundredth outside its components for that.
* `ExpansionSignal` - the two columns of a customer and their two kinds of writer. Prediction is a
  choice, or a failure; each writer falls back in its own way.
* `ExitSurveys` - surveys, the reason copied to the customer, and the validation report, which
  reads the features of one customer after another while training stores more. A survey about a
  customer of another tenant is stored and copied to nobody; one about a customer that does not
  exist fails at its foreign key.
* `Renewals` - contract rows, upserts that look up and then insert, lists that read contracts in
  one statement and each customer in a later one.
* `FeatureStore` - events that may arrive long after they occurred, and again, the `mrr` and plan
  of the customer's row, which every delivery writes, feature rows, training runs. A run takes the
  row first and the events in a later statement. A unit of time is thirty days. Features look back three units, the churn label looks ahead one,
  the expansion label three.
* `Attribution` - touches with their outcomes, cancellations, and two reports over them. A unit of
  time is the half-life, seven days; shares are computed with the weights and the rounding of
  the code. Cancellations are ingested when they happen; late ones are in `InterventionOutcomes`.
* `SegmentReports` - a book of customers in three tenants, given plans and scores one by one, and
  four reports as operators over it.

`MCRecords` explores them one at a time: they share no variable, so a behaviour of all of them
is a merge of one behaviour of each, and every property speaks of one. Each module ends with
one property (`AlertsSound`, `SyncsSound`, `ChampionsSound`, `LimitsHold`, `TokensSound`,
`KeysSound`, `AdviceSound`, `CustomSound`, `SourcesSound`, `HealthSound`, `ExpansionSound`,
`SurveysSound`, `RenewalsSound`, `FeaturesSound`, `AttributionSound`, `SegmentsSound`) that is the
conjunction of the named ones above it, its type invariant included. `MCRecords` groups them into
the nine invariants of the run; the mutation runs break the conjuncts one by one.

`MC*` modules give TLC the constants. The `*Proofs` modules hold the theorems.

Conventions: a fault that a plausible mistake in the code would introduce is an operator named
for it, placed before the definition it would replace, with a comment that starts with
"Fault"; nothing uses these operators except the mutation runs that `PROJECT.json` lists. Variables under "history, guards nothing" record what happened for the
properties' sake.

## Runs

| Run | Shows | Bounds |
|---|---|---|
| `playbook_race` | one run of a five-node playbook keeps `RunContract`, moves along edges whichever session's object is flushed, honours delays, performs each node once, plus once per crash and once per node performed by a session that had read the run while another held it, never leaves a finished state, and finishes | one sweep, the creating request, a crash, a graph edit, a reassignment, a one-hour delay |
| `playbook_capacity` | counts and limits of CSMs are right unless two sessions incremented one CSM at once | three runs, two CSMs, limit 2, one profile save |
| `playbook_history` | violation: no history is ever stored | the same playbook |
| `outreach_sessions` | cooldown and accounting of messages | the nightly job, a detection request, a mail and an in-app campaign, four days, a death |
| `outreach_anomalies` | debounce | two detection requests, two anomalies, three days, a death |
| `outreach_liveness` | everyone in the audience is reached | a mail and a custom campaign, a death, an edit (create, pause, delete, rescore) |
| `outreach_spam` | violation: two campaigns message one customer within a day | two days |
| `ingestion` | one row per customer, `last_seen_at`, surveys, deliveries on file as `EventLedger` promises, and every webhook settles | two workers, two jobs, three events of two customers, batches in both orders, two faults, two tries |
| `outcomes` | outcomes are recorded, stand, and count once; overrides are audited | one intervention, one cancellation, three weeks of one day, a death |
| `outcomes_stripe` | violation: a Stripe cancellation leaves the intervention "retained" | two interventions |
| `scoring_feed` | scores are whole and advance, health dates and screens agree with them, everyone is scored | one customer, a tenant without customers, one request, two nights, a fault |
| `records` | for the sixteen smaller components: what each promises, with overlap, or a death or lost command at a named place, as the only exceptions | two or three requests, two to four customers, keys or contacts, one failure, two to four units of time each (attribution: sixteen weeks, three touches; plans none, "standard" and "Standard") |

Why these bounds are enough to be interesting. Every race in this code is between two sessions
at one row, and every run has two sessions and the row; the third run in `playbook_capacity`
is there because a limit of two must be passed by a third task. One crash suffices where a
property counts crashes one by one; ingestion needs two faults so that a job can use up its
tries. Two scoring nights are the least in which a job that stopped has another chance.
Cooldown, debounce and the outcome window are scaled down to one or two units: only their
order against other times is compared, so the units matter and not the numbers. Two
requests show a lost update and three show that its damage does not grow; the login limits and
the API keys need the third so that a limit can be passed. Attribution has three touches because
thirds are the first shares that do not add up to a hundred when rounded, and sixteen weeks in
steps of four, so that touches are judged and one can outweigh another many times. The segment reports have four customers in
three tenants: two members are enough for a benchmark there, one is not. Health inputs are three
conditions, one at each end of every scale and one within; three settings of the weights, one
of which the endpoint must refuse. Feature events are four: two at the far edge of one window and
outside the next, one within both, and a cancellation that is ahead of one date and on the other;
two of them arrive, and one a second time. In the
ingestion run four `customers` rows are as many as two workers can create for two customers.

What the runs show. Properties that hold unconditionally are few, because nothing is locked:
most say *unless two sessions were at this row at once*, and the history variable behind that
excuse (`raced`, `overlapped`, `crossed`, `together`, `twins`, `shared`, `met`, `excused`, `mixed`,
`contended`, `rivals`, `abreast`, `crowded`) is set by the
overlap alone and not by the damage. So each of them says that overlap, or a death at one named
place, is the *only* way to go wrong. Unconditional are the playbook contract, that finished
runs stay finished, the accounting of messages, verdicts that stand, and the liveness
properties.

### Fairness

* `PlaybookEngine`: the cron sweep runs (weak fairness of `Sweep`), a session that holds a run
  goes on with it, time passes. A request that died is replaced by the sweep, not by fairness.
* `OutreachEngine`: only the cron job is fair; a detection request may stall for ever.
* `WebhookIngestion`: weak fairness per worker on starting a job and on its next step; a
  transaction that waits is freed by the other one's end or by `Deadlock`.
* `InterventionOutcomes`: time passes, the tracker runs and finishes, an override in flight
  commits or dies. The Monday report is not fair: arq does not catch up a time it missed.
* `ScoringFeed`: time, the job, and a request in flight. A subscriber may stay away.

All of it is what arq's scheduler and an event loop that is not blocked provide. Deaths are
bounded in each run: with a worker that dies for ever nothing ends.

`MCRecords` declares `p1` and `p2` symmetric: in each component they name things of one role
(two requests, two addresses, two channels), and no definition tells them apart. Choices
that only an idle component would make at the start are fixed.

Deadlock checking is off where the system may really stop: no webhook has to arrive, and time
ends at its bound.

## Proofs

Theorems hold for every value of the constants that the named assumptions allow: any number of
sessions, rows, requests and faults, not the few of a run.

| Module | Theorem | Says |
|---|---|---|
| `PlaybookEngineProofs` | `TypeCorrect`, `EverythingReached` | types, and: rows, held objects and pending writes stand only on nodes that performed nodes lead to |
| | `EngineImplementsContract` | `PlaybookEngine` refines `RunContract` |
| | `FinishedRunsStayFinished` | no interleaving sets a finished run back to running |
| | `RunsMoveAlongGraph` | every run moves along an edge, from a performed node at which the mover read it; from the node it is on, unless sessions overlap |
| | `DelaysAreHonoured` | a run leaves a delay when it is over, unless sessions overlapped and a timer or a holder is left |
| | `NodesPerformedOnce` | on an acyclic graph a run performs a node once, once more per crash, and once more per node performed by a session that read it beside another |
| | `CountsAreTrue`, `LimitsHoldUnlessRaced` | CSM counts and limits |
| `OutreachProofs` | `OutreachTypeCorrect`, `DebounceHolds` | types, and the debounce |
| | `MessagesAccountedFor`, `CooldownHolds` | the accounting of messages, and the cooldown |
| `WebhookIngestionProofs` | `IngestionTypeCorrect`, `FiledUnderItsCustomer`, `DoneMeansFiled`, `CancelledAreAsked` | types; events go under a row of their customer; a job that is done has filed its events; cancellations are surveyed |
| | `IngestionImplementsLedger` | `WebhookIngestion` refines `EventLedger` |
| | `CustomersAreSingle`, `LastSeenIsLatest` | one row per customer and no `last_seen_at` that goes back, but for transactions that met |
| `InterventionOutcomesProofs` | `OutcomesTypeCorrect`, `OverridesAreAudited`, `VerdictsAreFinal` | types; sent overrides have their audit row; an outcome stands |
| | `RetainedOnlyInGoodFaith`, `CountedOnce` | "retained" contradicts only a cancellation that came later; one report counts an outcome |
| `ScoringFeedProofs` | `ScoringTypeCorrect`, `TierFitsProbability`, `HealthFollowsScore`, `ScoresReplacedByLater` | types; tier and probability fit, the health score is not newer, later scores win, but for writers that met |
| | `ScreensAgree` | a screen that missed nothing shows what is stored |
| `RecordsProofs` | `RevenueStaysSound`, `CrmStaysSound`, `ContactsStaySound`, `RecommendationsStaySound` | the four invariants of the `records` run, from one theorem per component (`AlertsAreSound`, `CrmAgrees`, `ChampionsAreSound`, `AdviceIsSound`) |
| `AccessProofs` | `AccessStaysSound` | the fifth, from `TokensAreSound`, `KeysAreSound`, `LimitsAreHeld` |
| | `IntegrationsStaySound` | the sixth, from `CustomIntegrationsAreSound` and `BuiltInSourcesAreSound` |
| `CustomerProofs` | `CustomerHealthStaysSound` | the seventh, from `HealthIsSound` and `ExpansionIsSound` |
| | `CustomerFilesStaySound` | the eighth, from `SurveysAreSound`, `RenewalsAreSound` and `FeaturesAreSound` |
| | `ReportingStaysSound` | the ninth, from `SegmentsAreSound` and `AttributionIsSound` |

### The arguments

**Playbook engine.** That a row stands where a performed node leads is not
inductive, because a stale object may be committed over it later. The invariant `ReachInv`
adds that what a session holds was reached when it was loaded, and what it is about to write
differs from that only in a node the session has performed, or in a status that node allows.
As performed nodes are never taken back, staleness cannot hurt. A finished row stays finished
because a status that the session did not change is not written.

What any session is about to write to a run's node is one edge on from the node at which it read
the run, and which it has performed (`MoveInv`), stale or not. Where no two sessions overlap more
is true: the holder is alone, and the row is still as it was read (`SoleInv`), so a move is from
where the run is, and a timer is never due before its node's hours are over (`DelayInv`). An
overlap is not held against a run for ever: once all have let go and no timer is set, nothing that
a stale object could have left is there.

`NodesPerformedOnce` needs the graph to be acyclic, as otherwise a run rightly returns to a node;
the code checks this of no graph, and the theorem states it as its hypothesis `Acyclic`: nodes can
be numbered so that every edge goes up. It speaks of overlapped runs too, where nothing holds of
the row itself: a late flush may set it back. The argument counts tickets instead. A run has one
ticket for each node, a crash between effect and commit gives one back, and so does each node that
a session performs after it read the run beside another. Whoever may still perform the node, the
row or a session that holds the run ahead of it, has one, and those used and those still out are
never more than were issued (`OnceInv`). The graph of the `playbook_race` run is acyclic.

For counts: `CountInv` says what a session is about to write to a count, relative to the tasks
given so far; `LimitInv` bounds it by the limit, which was checked when the count was read.

**Outreach.** The last message of a campaign to a customer is on a committed row, held by
a session that has still to commit it, or excused; and a session past its check has a cutoff
that lies a cooldown back, before which every committed stamp lies. `AccountInv` carries the
bookkeeping, with cardinalities of the sets of sessions in flight.

**Ingestion.** A slot works on a job of its own (`ShapeInv`), a row or key is written by one
transaction at a time (`LockInv`), and no transaction gives a row to another customer
(`OwnInv`): from these an event's row is its customer's. `DoneInv` says that the events a
transaction is done with are filed, or will be by it. For the two properties with an excuse, a
row and a creation under way count alike as claims to be a customer's row, and of two claims
one did not see the other (`ClaimInv`); the object in hand is as the row is, unless two
transactions had it (`SeenInv`). Of the refinement, a commit is the step that files: that it
files the whole delivery is `DoneInv`, that it files nothing else, and makes rows of nobody else, is
`DeliversInv`, and that it asked first is `SurveyInv`. A worker that dies leaves the delivery as
open as it was.

**Outcomes.** What the tracker has decided is about rows that are still pending (`TrackInv`), so a
verdict never meets an outcome; a verdict of "retained" with a stored cancellation in its window
was made before that was stored (`FaithInv`). A report is made at an odd moment and outcomes are
recorded at even ones, and a period is a week long, so of two periods that share a moment
neither can see the other's outcomes (`WeekInv`).

**Scores.** Two writers at one customer are on record (`MeetInv`), and one who met nobody has read
what is stored, or has stored what it computed (`ReadInv`); health scores are dated by runs of the
job, and a request that met nobody looked after the last of them (`DateInv`). For the screens,
`FeedInv` looks at the last message queued for a subscriber about a customer, or at the
screen if there is none: it is what is stored, or what the job has announced and not
committed.

**Revenue alert.** A job belongs to the present day (`JobInv`) and what it measured on a day
without re-scoring is the exposure (`MeasuredInv`). Every alert whose sender lived is recorded, or
about to be, and what is about to be sent lies a day after all of them (`SpacingInv`); a breach is
answered by an attempt that day or the day before (`BreachInv`); what a settings request that met
no other writes is one whole request (`PutInv`).

**CRM sync.** A sync never looks back: no row or push of it concerns a customer still ahead of it,
but for the push it is about to log (`AheadInv`). A customer that one sync at a time has in hand
was pushed with nothing newer than that sync holds (`NewestInv`). The counts add up with what is
left (`CountsInv`).

**Champions.** Of two sessions past their look at the anomalies each knows the other (`JudgedInv`);
whom a session has judged has an anomaly, stored or about to be (`ReportedInv`); of two who save
one address each is known (`SavedInv`).

**Recommendations.** An entry dies a cache life after its store, which lies within a tick of
its reading (`FreshInv`). Whoever asked the model left an entry that lives until a life after
(`KeptInv`), and of two who ask one was blind, or was beside the other (`AloneInv`).

**Refresh tokens.** `ExchangedInv` and `SignedOutInv`: an exchanged or signed-out row is revoked, and
whoever still holds it overlapped the one who did that. For `LivePerSignIn` live rows are not
enough, since a refresh in flight may be about to add one: `HoldersInv` counts live rows, and
refreshes in flight over a revoked one, together.

**API keys.** `RevokedExist` and `StampInv` keep the rows a request relies on. What a process served
within the window it still remembers (`RememberedInv`); the list is finite and as long as the
limit allows, and so is what it served.

**Login limits.** A burst of requests may span two counters. `GenerationInv` names the moment `g` at
which the last counter was created: since `g` no more requests were admitted than it counted,
it lasts until a window after `g`, and a window that reaches `g` from before misses the request
that created the counter before. A burst is then less than two limits. `AloneInv` says who may
look at a password: someone who is excused, or who saw the account open and is alone.

**Integrations.** Rows are told apart by the request that inserted them (`CreatedInv`), two that
hold copies of one row have met (`MeetInv`), and the copy of one who met nobody is the row as it
is (`HeldInv`). Hence the count on an uncrowded row is the streak, and it is paused when that
reaches the limit for the first time (`CountsInv`). A crowded row counts too little, never too
much, and only a send that loaded it active changes its status: so a paused row stays paused.
A built-in source shows the key of a request that has begun (`ShownInv`).

**Health score.** The arithmetic comes first and knows no state: a quotient rounded to the nearest
lies between the numbers that its exact value lies between (`NearestBetween`) and does not fall
when the dividend rises (`NearestMonotone`); each component rises with its input
(`BetterScores`); so does their weighted mean, which lies between the least and the greatest that
counts (`ScoreBetween`), and five roundings and one more bound the drift of the parts
(`FiveRoundings`). Weights that add up to a ten-thousandth more or less than one move the mean by
a hundredth of a point at most (`SlightlyOff`). The invariant then has only to say where the weights come from: unless two
requests met, one is at work and holds the row as it is (`SetInv`).

**Expansion signal.** A pair of probability and time is stored as some writer computed it, and a
writer that met no other writes over what it read (`LoneWriterInv`).

**Exit surveys.** Of a customer for whom two submissions never met, the one under way holds what
still stands (`SubmittingInv`). A survey about another tenant's customer has no reason to keep. A
report has judged, each once, what is no longer left to judge
(`ReportInv`); that it counts as many judgements as surveys is then a bijection.

**Contracts.** A row that a request has loaded is still there, and of a customer for whom
two requests never met there is one contract and one request, which holds it (`OneContract`).
A list is about the rows of its window (`ListInv`). That urgency rises with risk and nearness is
again arithmetic, of products that are divided last (`UrgencyGrows`).

**Features.** The operators choose the latest and the earliest event of a set. That there is one
follows from the least-number principle (`LeastOfNumbers`), after which `FeaturesAreSensible`
speaks of the events by name. A training run keeps what it knew, and later arrivals are new
numbers (`TrainingInv`), so what has changed since is an event that arrived since. The customer's
row says what the last delivery that named it said (`DeliveredInv`, `RowAfter`): if it has changed
since it was read, a later delivery named it, and if deliveries came in the order of their
events, the last to name it is the latest event that does.

**Sums.** The reports add over sets with `MapThenSumSet`, a recursive function that takes its elements
in an order nobody knows. `Total` is the same function of a finite set; that it exists, and that
the order does not matter, follows from the least-number principle (`SumExists`, `SumTakes`), and
from these that a sum is the sum over parts (`TotalByParts`). As lemmas cannot have
operators as parameters, each operator that the reports add has a lemma of its own that says its
sum is a `Total` (`LossIsTotal` and its like).

**Segments.** The invariant says that a tier was made from the probability. Groups are named for
what their members have in common, so their counts and losses add up to the whole
(`GroupsAddUp`). A segment whose customers are all near certainty is off by at most 15 points each,
by induction over its subsets (`CertainCalibrated`). That there is an n-th rate is the least-number
principle again (`RankExists`): the least number that n rates reach is one of them.

**Attribution.** A verdict stands since a cancellation comes now, and what is judged was sent a window
ago (`JudgedFairly`). Weights are powers of two, which double (`PowerDoubles`), so a touch eight
half-lives later weighs 256 times as much. A share is rounded twice: multiplied by the sum of the
weights of the account, each is within 101 two-hundredths of a hundredth of what it should be
(`CreditIs`), and these add up touch by touch and then account by account (`AccountShares`,
`AccountsBalance`).

### Reading the theorems

`TypeOK` of `PlaybookEngine` and `OutreachEngine`, `ReachInv`, `CountInv` and `LimitInv` are
proved and are not repeated in the runs; the other properties that theorems state are checked
by the run that `PROJECT.json` names. TLC agreed with every invariant before its proof.

The theorems of `RecordsProofs`, `AccessProofs` and `CustomerProofs` come in pairs: one speaks of a component alone,
under no assumption but its constants', and one of the module in which the components stand
side by side, whose invariant the run checks. The second follows since in a step of one
component the others rest (`OnlyItsPart`).

What proofs changed in the models, in each case towards the code: in `WebhookIngestion` an update
that changes nothing writes nothing and waits for nobody; in `CrmSync` there are finitely many
accounts, which are counted at the start, and a sync of a tenant without customers ends where it
starts; in `ApiKeys` the window has one entry per request; the assumptions on constants of
`RefreshTokens` and `ApiKeys` say that a request is of one kind, and one on those of
`BuiltInSources` that its bounds are numbers; in `HealthScores` and `ExpansionSignal` the assumptions
give the inputs the types of the columns they stand for, the sum of the five weights is
written out, and so are the records that a step of `Renewals` and of `ExitSurveys` replaces. Three
formulas of the reports said less or more than the code does. Two tenants may have one rate, which
the order by which the rates had been sorted did not allow: `Rate` is now the n-th of them, ties
included. `CohortsAgree` did not hold for an event that names a plan "Standard" or "standard",
which the two reports merge with different customers; it now says whom, and the run has such plans.
`SharesAddUp` allowed for one rounding of a touch, and the code rounds twice. In `Attribution` the
channels are finitely many and the powers a function that the provers can unfold. No other property
failed.

Not proved, and left to TLC:

* Liveness (`WebhooksSettle`, `EveryoneScored`, `RunsFinish`, `AudienceReached`,
  `OutcomesRecorded`), which needs fairness and ENABLED, out of the prover's reach.
* The three violations, where a counterexample is the point.

## Findings

The three violation runs show where code and its documentation disagree; `PROJECT.json` quotes
both sides. In short: playbook history is never stored, because a JSON column is changed in
place; the cooldown is per campaign where the PRD promises it per customer; the outcome job asks for an
event type that Stripe's adapter does not produce.

Seen on the way, without a run:

* Two sessions can book a CSM past the limit (`WithinLimitUnlessRaced` says exactly when).
* An anomaly debounces only while it is both open and recent (`anomaly.py:190`).
* The ROI report judges by today's risk tier and counts a customer once per intervention.
* A redelivered webhook stores no second event but writes its `mrr` and `plan` over the customer's
  once more (`worker.py:160-173`; `docs/PRD.md:94` speaks of events only).
* `docs/enterprise-security.md:25` says a lock lasts 15 minutes, while the window runs from the
  first failure.
* The alert job records an alert whatever the channel answers.
* The name of a revoked API key stays taken, by its unique constraint; two refresh tokens issued to
  one user in one second are the same text.
* The built-in sources are said to be kept per tenant (`integrations.py:13`) and are one list per
  process; synchronising a disconnected one by hand still reports new events.
* A paused custom integration never becomes active again: a successful test sets its failure count
  to zero and leaves its status (`integrations.py:257-259`). The tidying after a failed commit
  (`adapters.py:94-101`) is refused by the session that failed.
* Event names differ between the parts: features count `ticket_created`, `invoice.failed` and
  `subscription_updated`, the churn label `subscription_canceled`, while the Zendesk and Intercom
  adapters produce `support_ticket.created` and Stripe's keeps Stripe's types. With no tickets
  among the features, only price and usability can be confirmed as stated reasons.
* `features.py:13` speaks of the features "as of as_of_date". The `mrr` and the plan among them
  (`features.py:51-54`) are those of the customer's row at the moment of the computation: a
  delivery about a later day, an event that is late or one that is repeated changes them, and the
  cancellation that makes the label may be among these. `AsOfStands` says what can change and
  what cannot; `AccountOfDate` says when they are those of the date: when no event about a later
  day and none out of its order, repeated ones included, was delivered before.
* The expansion label looks 90 days ahead of a date 30 days back, so it is not settled when it is
  made.
* `champion.py:19-21` promises an anomaly when a champion is inactive "while other account users
  are active". The code (`champion.py:45-50`) looks at the champion alone and reports a quiet one
  also when everybody at the customer is quiet. `QuietChampionReported` is about what the code does.
* `fairness.py:72` calls the tier independent of the score, and `predict.get_risk_tier` makes it
  from the score; `fairness.py:5` names only "critical", the code takes "high" as well. A stored
  fairness report is never refreshed by the endpoint that returns it.
* A stored churn probability of zero is shown by the health page as ten percent; nothing reads the
  sentiment scores that are stored, so a health score's support sentiment is always zero.
* An expansion probability that was made without the model is labelled as the model's.
* A contract value of zero counts as the customer's `mrr`; a customer without a plan is "Standard"
  in one report and "standard" in another.

## What is left out, and what is taken for granted

* The database URL the code ships with connects as `postgres`, which row-level security does
  not bind; tenants are told apart by the queries only, and most modules look at one tenant.
* `models.py` defines `Contract`, `ApiKey`, `CrmSyncLog` and `ModelFairnessReport` twice and
  uses `timezone` without importing it. The models describe the program with such slips
  mended, as its tests assume it.
* What the models predict, the anomaly arithmetic, message texts and amounts are free choices.
* The external parts - PostgreSQL's visibility and locks, SQLAlchemy's flush, arq's reruns,
  Redis pub/sub - are modelled as `src/` uses them and marked external in `PROJECT.json`.

### Not modelled

* Branding, domains, dashboard layout and compliance: every handler raises before it reaches any
  state, because it reads attributes of what `get_current_user` returns, a dictionary.
* Request middleware and observability: no state that another part reads. The limit of all
  requests is the counter of `SignInLimits` on a key of its own.
* The web front end, but for the screen that subscribes to `churn_updates`; migrations, which run
  once and off line; scripts.
* Fitting models, SHAP values, Wilson intervals, sentiment of texts, prompts and answers of the
  language model: numbers and words of libraries, of which the modules take any.
* Of the reports: the confidence band, the ten most exposed customers and the months of revenue at
  risk; the cohort dimensions beside plan, which group by another column; the benchmark's filter
  by industry; averages of health scores.
* Endpoints that only read a row and return it, and those that insert one and nothing else
  (playbook definitions, sign-up).

## Plan

What is left is to prove more, in this order:

1. The abstract specifications that other components implement, beside the playbook engine and
   webhook ingestion: the outcomes of interventions first, whose promise is that of one
   verdict each.
