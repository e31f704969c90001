# TLA+ models of transfer-scout-api

transfer-scout-api collects football transfer news from RSS feeds, has a
classifier (Jev) and a language model (Claude) read each article, clusters what
they report into rumours, and serves the rumours over a JSON API. This
directory holds TLA+ models of the parts that carry its own logic, TLC
configurations that check them on small instances, and TLAPS proofs that every
safety property the passing runs check holds for all values of the constants.
Paths below are relative to the repository root; `store`, `pipeline`, `api` and
so on stand for `src/internal/<name>`.

## 1. The system

| Component | State | Operations | Interacts with |
|---|---|---|---|
| Rumour life cycle (`models`) | none; statuses and their order | `IsForwardTransition`, `IsTerminal` | the decisions of `UpsertRumour` |
| Ingest (`ingest`) | `articles` | `PollOnce`, `pollSource`, `InsertArticle` | feeds it does not control; extract's queue |
| Extract run (`pipeline`) | a run's batch, attempts and statistics; `articles.processed` | `Run`, `RunExtract`, `extractOne`, `clusterOne` | reads the queue ingest fills; scheduler, SIGTERM |
| Extraction gate (`extract`, `config`) | none kept; the threshold read at start | `NewFromConfig`, `GatedExtractor.Extract`, Jev's `Classify`, Claude's `Extract` | two remote services |
| Clustering (`cluster`, `store`) | `rumours`, `rumour_events`, `players`, `clubs`, `sources.reliability_score` | `Clusterer.Upsert` and its store calls, `MarkExtracted` | every other user of the tables |
| Clean-up (`cmd/reclassify`, `store/reclassify.go`) | a listing and its verdicts | list, judge, count, delete | deletes under extraction and under users |
| Club roster (`store/roster*.go`, `store/clubs.go`) | `clubs`, `leagues` | `GetOrCreateClub`, `SyncRoster` | extraction adds the clubs a deployment renames |
| Rumours feed (`api`, `store/rumours.go`) | reads only | `GET /rumours`, filters, pages; `GET /rumours/{id}` | every upsert reorders what it reads; extraction and clean-up come between the two statements of a rumour's page |
| Likes, comments, follows (`api`, `store`) | `likes`, `comments`, `follows` | like, unlike, follow, unfollow, post and list comments | the clean-up deletes what they refer to |
| Authentication (`auth`, `api/auth_handlers.go`, `store/users.go`) | `users`; the tokens clients hold | `handleGoogleAuth`, `RequireAuth`, `OptionalAuth` | Google's identities; every handler acts for the user it finds |
| HTTP server, database access, configuration, schema, seed data | see section 8 | | |

No component shares memory with another. They interact through Postgres, one
statement at a time, and almost nowhere does a transaction span two statements:
the exceptions are `DeleteRumours` and the transaction of `SyncRoster`. The
hard behaviour of this system is what comes between two statements: a crash, a
failure whose effect is unknown, another process, a cleaner, a user.

The properties that make each component correct:

* **Clustering** — a rumour agrees with the reports on its timeline (status,
  fee range); it only moves forward; the reliability of a source is moved once
  per resolved rumour; retried articles break none of this.
* **Extract run** — it ends, pays for an article once, drains the queue or says
  why not, and starves no article.
* **Ingest** — an exit status of zero means that nothing was lost; one broken
  source harms no other; what stays in a feed is stored in the end.
* **Gate** — Claude is paid for likely articles only, and the clean-up does not
  delete what the gate accepted.
* **Clean-up** — nothing is orphaned, nothing is deleted unjudged, and the
  report says what went.
* **Roster** — a row stays the club it is, roster clubs have their row and
  league, and what could not be merged is reported.
* **Feed** — a walk through the pages skips only what moved; a rumour's page
  never mixes two rumours, and its timeline explains its row.
* **Reactions** — the last answered request of a user is the last word, and
  nothing outlives its rumour; a walk through the comments misses only those
  that committed behind it.
* **Authentication** — an account is taken once and by one identity, and
  nothing is done in its name after its sessions ended.

PROJECT.json lists the hazards of the code at their lines, each with the
properties that would catch it.

## 2. Modules

```
RumourStatus <-- RumourLedger  <.. refinement ..  Clustering <-- Reclassify <-- Views <-- ClusteringProofs
     ^------------------------------------------------^
     ^-- Gate <-- GateProofs
Paging <-- Feed <-----+-- PagingProofs    Accounts  <.. refinement ..  Sessions <-- SessionsProofs
   ^------ Comments <-+                   Drain <-- DrainProofs    RosterSync <-- RosterSyncProofs
                                          Ingest <-- IngestProofs  Reactions <-- ReactionsProofs
```

`A <-- B`: B EXTENDS A. `MC*` modules give constants their values; each `MC*.cfg` is
one run. Operators commented *Mutant* (named after the definition they vary,
`Least_First`, `Start_Remembers`, ...) are not part of a model: each is a
plausible bug, and replacing the definition by it makes the property named in
PROJECT.json fail. They show that the property depends on that code.

**RumourStatus** — `models/models.go` and the pure part of `UpsertRumour`:
`statusRank`, `IsForwardTransition`, the status written (`FinalStatus`), SQL's
`LEAST`/`GREATEST`, `justResolved`, the clamp and the sign of a nudge.

**Clustering** — `extractOne`, `clusterOne`, `Clusterer.Upsert` and the store
methods they call. One action per statement, in the order of the code: `List`,
`Extract`, `Resolve` (the idempotent inserts of player and clubs), `ReadRumour`
(the SELECT), `WriteRumour` (the INSERT ... ON CONFLICT, with the status decided
from what the SELECT saw), `InsertEvent`, `Nudge`, `Mark`. Each may fail with
or without having taken effect, and then control goes where the code's error
return goes: to `Mark`, which is always reached. `Crash` loses a worker's
locals. `Workers` is a parameter; the deployment runs one, and the comment at
`store/rumours.go:267` says that `UpsertRumour` relies on it. `Extract` may
answer differently each time, as the language model does. A rumour is its
thread, (player, destination), because `UNIQUE (player_id, to_club_id,
transfer_window)` identifies it and a run has one window. `credited` and
`faults` are history variables.

**RumourLedger** — the abstract specification: `Report`, `Record` and `Settle`,
each atomic and deciding on the rumour as it is. With one worker, Clustering
implements it (`ImplementsLedger`, under the identity mapping of the four
variables they share): the gap between the SELECT and the INSERT never shows.

**Drain** — the loop of `RunExtract`: batches by `fetched_at`, what was
attempted already, the cap, the two context checks, the statistics, and the
return value; a queue that grows; *poison* articles whose `MarkExtracted` always
fails because `jsonb` refuses their extraction; other failed statements;
SIGTERM. `extractOne` is reduced to its attempt and its mark.

**Ingest** — `PollOnce`, `pollSource` and the job `Run` that joins both stages'
errors, against feeds that publish and rotate between any two steps. Articles
are URLs; `InsertArticle` is ON CONFLICT (url) DO NOTHING.

**Gate** — `NewFromConfig`, `getEnvFloat`, `GatedExtractor.Extract` with its
`splitArticleText`, the checks of both clients on the answers they get, and the
question `cmd/reclassify` asks. A text is the sequence of its paragraphs, which
is all the cut at the first blank line can tell apart. Probabilities are
percents and `NaN` compares false with everything.

**Reclassify** — extends Clustering with cleaners (`ListRumours`, `Judge`,
`Count`, `Delete`, `Rollback`) and with users' likes and comments. The
transaction is at READ COMMITTED, so `Count` and `Delete` are two steps.

**RosterSync** — `GetOrCreateClub` against `SyncRoster`: the plan made from a
plain read (`Plan`), the transaction that renames, upserts and detaches
(`Apply`), its failure (`Abort`). Two versions of the roster may run at once, as
in a deployment. The history variables `mixed` and `disturbed` record whether
another version wrote the table since a sync planned.

**Views** — extends Reclassify with `GetRumourByID`: readers take a rumour's row
in one statement (`ReadRow`) and its timeline in the next (`ReadTimeline`),
with extraction, clean-up and users in between. A deleted rumour's id never
comes back, also when its thread is opened again, so a page remembers whether
the id it holds is gone. Its specification is the one that MCReclassify checks
and the second half of ClusteringProofs is about.

**Paging** — `parseIntParam`, the clamp of a limit, and which rows a page has.

**Feed** — `ListRumours` page by page, by offset, while reports, deletions and
follows change the list. The client is the one `has_more` and `offset` invite;
it sends any limit, none, or one that is no integer.

**Reactions** — like and follow (one INSERT, whose foreign key gives the 404),
unlike and unfollow (an existence check and an UPDATE), from several tabs of
several users, with responses that are overtaken, beside deletions. A club is
never deleted, but a request may name one that does not exist.

**Comments** — `handleCreateComment` in two steps, because a comment is ordered
by the time its transaction began and is visible when it commits, and
`handleListComments` in two, as in the code: the existence check and the page.
Comments of one `created_at` come in any order in every query. Its variables
and actions have names of their own (`reading`, `received`, `shown`,
`CommentsSpec`), so that PagingProofs can extend both clients of Paging.

**Accounts** — the abstract specification of signing in, seen from Google's
identities: `Join` takes an account for good, `OpenSession` prolongs, `Act` is
done by the account's identity before its last session (and one request) ends.

**Sessions** — `handleGoogleAuth` step by step (`Verify`, `UpsertUser`,
`IssueToken`), a call under `RequireAuth` or `OptionalAuth`, and the handler's
write (`Act`), which runs after the token was checked. Identities change their
email at Google while ID tokens with the old one are on their way. `Fail` is a
failure, a timeout or a lost answer at any point. The server keeps no session,
so a restart changes nothing else. Session tokens and expiries are the code's;
`deeds` and `granted` are history variables. It implements Accounts under the
mapping that looks an identity's account up in `users`.

## 3. Runs

Each run finishes within a minute and a half on two cores. A *violation* run checks one
statement of the repository's comments or docs which the code does not keep;
section 6 says more about them.

| Run | What it checks | Result |
|---|---|---|
| MCClusteringOneWorker | One worker, three articles of two sources, two possible rumours, one fault anywhere: does a rumour agree with its timeline and a score with the resolutions, is anyone credited twice, is a report or a figure lost, is each step the ledger's, is every article processed in the end? | holds |
| MCDrain | A queue of up to seven, batches of three, a cap of five, two poison articles, two faults, one SIGTERM: what do a run's return value and statistics promise, does a run end, is anyone starved? | holds |
| MCIngest | Two sources that share a story, two faults: what does exit status zero mean, and is an item that stays in its feed stored? | holds |
| MCGate | Thresholds at, between and outside the bounds, NaN, every answer: who is paid, and does the clean-up agree with the gate? | holds |
| MCReclassify | One cleaner and one reader beside one worker and users, one fault: orphans, losses, unjudged deletions, and pages that mix or contradict what they show? | holds |
| MCReclassifyReport | Does the report of a deletion match the delete? | violated |
| MCReclassifyRevived | Does the timeline of a rumour report its status, with one extraction process and a clean-up? | violated |
| MCRosterSync | Two versions of the binary extract and sync over five tables: does a row become another club; do table, roster and report agree while no other version interferes? | holds |
| MCFeed | Three rumours, four filters, every kind of limit, four updates: what may a walk skip, and is an undisturbed one exact? | holds |
| MCReactions | Two users, three tabs, a rumour and a club, one fault: is the last word kept, and does anything outlive its rumour? | holds |
| MCComments | Five comments, pages of up to two, one fault, a deletion: what may a walk miss, and what do `has_more` and an empty page mean? | holds |
| MCSessions | Two identities, three emails, two requests, sessions of one unit: does an account stay one person's, and does each step keep the promises of Accounts? | holds |

### Bounds, and why they are enough

* `MaxFaults` (every module that has it) counts failed statements and crashes.
  One fault reaches each partially applied upsert and lets an article be
  extracted again and filed on another rumour; two let a retry fail as well.
  The properties that matter most need no bound and are proved without one.
* MCClusteringOneWorker has two articles of one source and one of another, so
  that "once per source, not per article" is visible, and initial scores of 99
  and 1, so that the clamp bites at either end with a step of 2. Its reports
  give a minimum only, a maximum only, and both.
* MCDrain has more than two batches' worth of articles and a cap that falls
  inside the second. Two poison articles are one fewer than a batch, so that no
  healthy article may starve across runs; with one failed mark a run meets a
  whole batch of articles it could not mark, which is where it could loop.
* MCFeed's `maxRumoursLimit` is 2 and its `defaultRumoursLimit` 1 where the
  code's are 100 and 50: three rumours then span two or three pages. Limits 0
  and 5 are outside the range on either side; none gives the default and text
  is refused. MCComments has the same limits and five comments, enough for two
  full pages and a third whose rows arrive while the walk is on, and a bound
  on bodies with lengths below and above it.
  `MaxClock` bounds the updates: each of three rumours is created, and one is
  updated during a walk.
* MCRosterSync starts from tables with no row, aliases in either order, a case
  variant, the roster name itself and departed clubs. A club that is promoted
  and one that leaves are the two ways in which rosters differ.
* MCReactions uses symmetry between two tabs of the same user; its properties
  and actions do not tell the tabs apart. Each tab stays on the target it shows,
  the rumour or the club, and every distribution of the tabs is covered.
* MCSessions has `MaxClock` 2 with sessions, ID tokens and requests of one
  unit each: a session begins, expires under a request, and is replaced. Three
  emails for two identities let one be given up and taken over. Identities,
  accounts, emails and requests are symmetric.
* MCReclassify has `MaxEngagement` 1: one like is enough to be counted, missed
  or orphaned. One report gives a minimum and one both bounds, so that a page
  has figures to explain.

### Deadlock

Deadlock is checked except where the system really may stop: in Clustering and
Reclassify when every article is processed and no run or cleaner is under way,
and in Gate when all articles are judged, or the configuration is refused and
the program exits.

## 4. Fairness

* Clustering: weak fairness of each worker's `Work` — the job is scheduled
  again and again, and a process that lives runs its next statement. Nothing
  makes a crash or a failure happen or stop; `MaxFaults` ends them.
* Drain: weak fairness of `RunExtract` (a process runs) and of `Start` (the
  schedule keeps coming). `Arrive` and `Cancel` are not fair. `EveryRunEnds`
  holds however fast ingest refills the queue, because of the cap and of what
  was attempted.
* Ingest: weak fairness of each job. Publishing and rotation are not fair; the
  liveness property is about items that stay in their feed.

The remaining modules state safety only.

## 5. What is proved

Every component with a specification has a module of proofs beside it, and
tlapm checks every leaf of them (SMT, Zenon, LS4 for the temporal steps). The
theorems hold for all values of the constants: any number of workers, cleaners,
readers, articles, sources, feeds, jobs, users, tabs, rumours, clubs, versions,
comments, identities and requests, any batch size, cap, threshold, limit and
lifetime, and any `MaxFaults`, `MaxEngagement`, `MaxClock` and `MaxTime`. The
runs' bounds are therefore no limit on them.

| Theorem | Statement | Under |
|---|---|---|
| **ClusteringProofs**: `TypeCorrect` | `Spec => []TypeOK` | |
| `RangeWidens` | `Spec => FeeRangeWidens` | |
| `FeeRangeCovers` | `Spec => []FeeRangeCoversTimeline` | |
| `ReportsKept` | `Spec => []NoReportDropped` | |
| `CreditedOnce` | `Spec => []CreditedAtMostOnce` | one worker |
| `StatusCovers` | `Spec => []StatusCoversTimeline` | one worker |
| `StatusForward` | `Spec => StatusMovesForward` | one worker |
| `LedgerImplemented` | `Spec => ImplementsLedger` | one worker |
| `ResolutionCredited` | `Spec => []ResolutionIsCredited` | one worker |
| `RumourIsTimeline` | `Spec => []RumourIsItsTimeline` | one worker |
| `ScoreEarned` | `Spec => []ScoreIsEarned` | one worker |
| `NothingOrphaned` | `ViewSpec => []NoOrphans` | |
| `DeletedOnEvidence` | `ViewSpec => DeletesOnlyJudged` | |
| `LostOnlyToDeletion` | `ViewSpec => []ReportsLostOnlyToDeletion` | |
| `OneRumourPerPage` | `ViewSpec => []PageIsOneRumour` | one worker |
| `PageExplained` | `ViewSpec => []PageIsExplained` | one worker |
| **DrainProofs**: `AttemptedOnceUnderTheCap` | `Spec => []NoArticleTwicePerRun` | |
| `CapMeansMoreToDo` | `Spec => []CappedLeavesArticles` | |
| `LeftoversAreCounted` | `Spec => []UnmarkedCoversLeftovers` | |
| `NilMeansDrained` | `Spec => []CleanRunDrainsTheQueue` | |
| `RunsAreBounded` | `Spec => [](StepsLeft \in Nat) /\ RunsShorten` | |
| **IngestProofs**: `HealthySourcesHarvested` | `Spec => []OtherSourcesUnharmed` | |
| `ZeroExitIsComplete` | `Spec => []CleanExitLostNothing` | |
| **GateProofs**: `SplitUndoesJoin` | the gate and the clean-up ask one question | a title of one paragraph |
| `ThresholdGuardsSpending` | `Spec => []PaidOnlyForLikelyArticles` | |
| `AcceptedIsKept` | `Spec => []ReclassifyKeepsAccepted` | |
| **RosterSyncProofs**: `ClubsAreStamped` | `Spec => []RosterClubsStamped` | |
| `DepartedStayOut` | `Spec => []DepartedClubsDetached` | |
| `ReportIsComplete` | `Spec => []MisnamedRowsReported` | |
| `ClubsKeepTheirRows` | `Spec => RowsKeepTheirClub` | `RostersAgree` |
| **ReactionsProofs**: `CascadeIsComplete` | `Spec => []NothingOutlivesItsRumour` | |
| `LastWordStands` | `Spec => []LikesAreTheLastWord` | |
| **PagingProofs**: `WalkSkipsNothingSteady` | `Spec => []SteadyRumoursSeen` (Feed) | |
| `WalkIsExact` | `Spec => []UndisturbedWalkIsTheList` (Feed) | |
| `WalkShowsTheComments` | `CommentsSpec => []WalkMissesOnlyLatecomers` | |
| `PromisedPageHasRows` | `CommentsSpec => []EmptyPageMeansDeleted` | |
| **SessionsProofs**: `StayApart` | `Spec => []AccountsStayApart` | |
| `AccountsImplemented` | `Spec => ImplementsAccounts` | |

### Assumptions

The ASSUMEs of the modules, which TLC evaluates on the instances, are all that
is taken of the constants:

* `NULL`, `Absent`, `Invalid`, `NaN` and the two unusable extractions differ
  from the data they stand beside; reports, filters, titles, lookups and tables
  are typed; scores start in 0..100; bounds, limits and lifetimes are naturals,
  and a `limit` that a client sends is an integer, absent or no integer.
* RosterSync: each version's roster is finite and looks each of its clubs up as
  itself, which `loadRoster` checks; the rows a run starts from have distinct
  names, which the unique index on `lower(name)` enforces.
* Two facts are hypotheses of theorems and not assumptions. *One worker*
  (`OneWorker`) is what the comment at `store/rumours.go:267` relies on; with
  two workers a status decided on an old SELECT can be written over a newer one. `RostersAgree` says that no
  two rosters that are synced take one name for different clubs. It is a fact of
  the JSON files: where it fails, a newly deployed binary gives a row to another
  club because its roster says so. `OneRosterAgrees` proves it of a deployment
  that syncs one version, and it holds of the two rosters of MCRosterSync.

### The arguments

Each invariant below was first checked by TLC on the instance of the run that
checks the property it is for.

* **Types.** `TypeOK` of Clustering is inductive as it stands because it says
  what a worker past extraction holds: a usable report, whose thread exists.
* **Fee range.** An event is written a step after the range. `FeeInv` adds that
  a worker about to insert an event finds a row that spans its report; other
  workers can only widen the row meanwhile (`RangeStep`, from the bounds of
  `LEAST` and `GREATEST`), so the conjunct survives them. This is why no
  assumption on the number of workers is needed.
* **Reports.** Without faults an article is marked only after its event was
  inserted; what other workers insert meanwhile takes no event away. `DropInv`
  says what a worker that has passed `InsertEvent` has put on the timeline.
* **Status.** The status is decided from a SELECT and written later, which is
  sound only if nobody writes in between. `WorkerInv` states what one worker
  knows: at `write` the status it saw is the current one; at `event` and
  `nudge` the row has the status it wrote, is at least as far as the report,
  and is not credited yet if it has just been resolved. `StatusInv` is
  inductive under `OneWorker`, and the three status theorems follow.
* **Refinement of the ledger.** `WriteRumour` maps to `Report` because `seen` is
  current, `InsertEvent` to `Record` because the row spans the report and is as
  far along, `Nudge` to `Settle` because the rumour is uncredited; everything
  else stutters, and so does a failure without effect.
* **Credit.** `CreditInv`: without faults, a resolved rumour is credited or a
  worker between its write and its nudge owes it the credit. `DropInv` is needed
  for the nudge to find the sources on the timeline.
* **Timeline.** Each figure of a row is on its timeline, or in the hands of the
  worker that filed it (`Told`). An event is overwritten when its article is
  extracted again, so `QueueInv` is needed: without faults an article that has
  an event is marked, or is the one being marked, and is not listed again.
* **Score.** `ScoreInv` bounds a score by the resolved rumours that were
  credited, which only grow; a nudge credits a rumour that was not among them,
  so the bound moves by a step exactly when the score does (`NudgeEffect`), and
  `ClampBounds` says that a clamped sum follows. Rumours being finitely many is
  part of the invariant, as nothing bounds the articles.
* **Orphans and evidence.** `NoOrphans` is inductive with the types: a worker
  whose rumour was deleted finds no row for its event, and a deletion takes the
  events along (`ON DELETE CASCADE`). A cleaner about to count or delete still
  holds the listing it judged, and its plan is what `Doomed` said of it
  (`CleaningOK`).
* **Losses and pages.** `LostInv` is `DropInv` with the way out a deletion is:
  the row a worker is to file on exists or its thread was cleaned up. `CoverInv`
  keeps as much of `StatusInv` as survives a deletion, and `PageInv` follows a
  page from its row to the statement that reads its timeline: the events that
  were there stay, or the id is gone. `ToldRcInv` is `ToldInv` for threads that
  were not cleaned up and for the rows that requests hold.
* **Drain.** `BatchOK`: the batch in hand is queued and untried, and `total` is
  what was tried, which gives both the cap and that no article is paid for twice.
  `CountOK` counts the leftovers but for the article being marked; each step
  that adds one counts one. `ShortOK` says that a listing shorter than the batch
  size held the whole queue; a full listing with nothing new in it is a whole
  batch of leftovers, the way out that `CleanRunDrainsTheQueue` names.
  `RunsAreBounded` is what of `EveryRunEnds` needs no fairness: every step of a
  run lowers `StepsLeft`, five for each article the cap leaves and the stage of
  the round over the current one, because a listing is followed by an attempt or
  by the end of the run. Ingest and SIGTERM leave it as it is.
* **Ingest.** `SourceOK`: a source that did not fail is still to be polled, or
  each item found in it is stored or about to be. No step of another job takes a
  stored article away (`StoredKeeps`), and `errs` covers every broken source, so
  exit status zero leaves none out.
* **Gate.** `ArticleOK` ties what was paid for and stored to the one question
  that was answered; `SplitUndoesJoin` is about sequences and shows that the cut
  at the first blank line gives back title and content.
* **Roster.** `Distinct` (the unique index) and `PlanOK` make the rows a plan
  renames and the clubs it gives them one to one. `PlanFresh` says that, as long
  as no other version wrote, the plan is about the rows as they are: extraction
  of the same version adds only rows that bear their club's name. `SettledOK` is
  what such a plan leaves when it is applied, and extraction keeps it. For
  `RowsKeepTheirClub`, the row a plan renames still has a name that stands for
  the club it is given (`PlansTold`), whatever became of the table since.
* **Reactions.** `WordOK`: the value of a reaction is what the latest request
  that took effect asked for; that request was answered, and no answer that is
  still on its way is of a request that ended before it, or the answer is
  itself on its way.
* **Pages.** A row's place is the number of rows before it (`Rank`); in a finite
  list the ranks are the numbers below its size (`RanksFill`), so a window of
  places has as many rows as it has places (`WindowSize`). `FeedInv`: a rumour
  that stayed was received or is still at the offset or behind it, because rows
  in front of it only become more. `CommentsInv`: a comment that is not received
  has at least as many before it as were received, unless it came late, and
  what `has_more` promised stays promised because only a deletion takes comments
  away. With ties the order is chosen anew by each query: `PageSize` bounds a
  page in whatever order it was made, which is all that `PromisedPageHasRows`
  needs.
* **Accounts.** `IInv` follows an account from its row through the tokens and
  requests that name it to the deeds: each belongs to the identity of the row,
  and no two rows are one identity's. Nothing takes an account away (`Grows`),
  so what a token or an untouched request was good for it stays good for; that
  is why it does not matter when the checks run. `StayApart` follows at once;
  for the refinement, a first upsert is `Join`, `IssueToken` is `OpenSession`
  because the user a request holds is the identity's, `Act` is `Act` because
  the request began before its token expired and is within its deadline.

### What is only model-checked

The liveness properties: `EveryArticleProcessed` (Clustering), `EveryRunEnds`
and `HealthyArticlesProcessed` (Drain), `LastingItemStored` (Ingest). They rest
on fairness, whose rules need ENABLED and well-founded induction over a
measure, and the prover offers neither; `RunsAreBounded` is as far as a run of
Drain can be followed without them. The two violated statements of section
6 are counterexamples and need no proof.

For the theorems under no hypothesis on workers a run with several would show
nothing new; the runs, with one, are what the mutants are tried on.

## 6. Findings

| Run | Code | What a doc or comment says |
|---|---|---|
| MCReclassifyReport | at READ COMMITTED a like can commit between the count and the DELETE | "the report matches the delete exactly" (`store/reclassify.go:96`) |
| MCReclassifyRevived | `store/rumours.go:294` writes the status decided on an earlier SELECT also when the INSERT opens a new row: a worker that read a confirmed rumour just before the clean-up deleted it recreates it as confirmed, with one event that speaks of talks and no credit to come | "safe under cmd/extract's current single-process, sequential-batch execution model" (`store/rumours.go:267`) |

The models also show behaviour that no run singles out but that the properties
are worded around:

* The bounds of a fee range are kept apart (`store/rumours.go:301`): a minimum
  of 3 in one report and a maximum of 2 in another give the range [3, 2]. What
  holds is that it reaches every figure on its own side
  (`FeeRangeCoversTimeline`).
* A SIGTERM during the last article of the queue is noticed by no check, and
  the run returns nil; its statistics count the article as unmarked
  (`UnmarkedCoversLeftovers`).
* `store/rumours.go:48` calls credibility the average "across the distinct
  sources that reported this rumour"; the SQL (lines 72-75) averages over the
  events, so that a source counts once per article.
* `LikeRumour`, `FollowClub` and `CreateComment` report every violated foreign
  key as a missing rumour or club, that of `user_id` too; as no user is ever
  deleted, it does not come up.
* A comment whose answer was lost is stored twice when it is posted again.
* A walk through the feed shows a rumour twice when it was pushed to the next
  page by another that moved to the front; comments push back nothing, but one
  that commits late may land on a page already read.
* A request whose token expires between its check and its statement still acts;
  the request timeout bounds how much later (`ImplementsAccounts`).
* A threshold of NaN passes `config.go:97`'s range check. No probability is
  below it and none reaches it: the gate is open, and the clean-up deletes
  everything. `PaidOnlyForLikelyArticles` and `ReclassifyKeepsAccepted` except
  it by name.
* A title that holds a blank line is cut inside the title by
  `splitArticleText`, so the gate and the clean-up ask different questions;
  `ReclassifyKeepsAccepted` excepts it.
* A resolution whose nudge fails is never credited, because the next upsert
  sees a rumour that is resolved already; `ResolutionIsCredited` speaks of
  executions without faults.
* An article that was filed but not marked, and whose second extraction fails,
  is stored with a NULL extraction and keeps its event.
* An article that joins a rumour after the clean-up's listing is deleted with it
  unjudged; `DeletesOnlyJudged` speaks of what was listed.
* While an old binary still extracts during a deployment, it stamps a club that
  left the roster with its old league again; the properties of a sync hold
  until another version writes the table (`Settled`).

## 7. Plan

The order was: clustering first, because everything the API serves comes from
it; then the loop around it, its inputs and its gate; then what deletes,
renames, reads and annotates its rows; then the two-statement reads, comments,
follows, and the sessions under which all of it is done. The proofs came
in the same order. Every safety and action property of the passing runs and
both refinements are proved. Of the liveness properties, which the prover
does not reach, the part that is safety is proved for Drain
(`RunsAreBounded`); its like for a job of Ingest, whose lists of sources and
items only get shorter, is what is left.

## 8. Not modelled, and why

* **Rate limits** (`api/router.go`): counters of the httprate library in the
  memory of one process, lost at a restart and not shared between instances;
  they refuse requests and change nothing else.
* **HTTP server**: compression, JSON shapes (`api/views.go`), request ids and
  the shutdown of `http.Server`, which waits 5 seconds for requests that may
  take 10; to a client a request that is cut off is the lost answer of
  Reactions, Comments and Sessions. The listings of clubs, players and leagues
  are one SELECT each.
* **Signatures and keys**: the ID tokens are Google's and a session token is
  one this server issued; Google's keys and the secret of the server do not
  change while it runs.
* **Database access**: pool and plain reads. What Postgres promises of one
  statement (atomic, unique keys and foreign keys enforced, READ COMMITTED) is
  what every module assumes.
* **Schema**: the keys and cascades appear where statements meet them; the
  migrations run once.
* **Claude and Jev clients**: requests, prompts and HTTP; the models keep which
  answers are accepted.
* **Roster data and crests**: loading JSON files; a lookup is a constant that
  satisfies what `loadRoster` checks.
* **Configuration**, beyond the threshold and the keys that decide which
  extractor is built; **seed and evaluation** data.
