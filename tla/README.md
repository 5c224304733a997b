# Formal models of LiveSetList

LiveSetList is a catalogue of live concerts: a FastAPI backend on PostgreSQL, a React frontend, a
release pipeline for one production host, and scripts that back up and recover the database. This
directory holds TLA+ modules of the parts whose correctness depends on *order*: interleaved
commands, crashes between two writes, transactions that wait for each other, answers that come late,
pages read one after the other. Each module is translated from the source; `PROJECT.json` maps every
definition to the lines it stands for: some 7,900 lines in all, of which about 2,600 are of the frontend,
a tenth of it. What the rest of the frontend does is said under *Not modelled*.

    tlc -config MCRelease.cfg MCRelease.tla           # check a run
    tlapm ReleaseControlProofs.tla                    # check the proofs of a module

## Inventory

| Part | State it keeps | Operations | Correct means |
|---|---|---|---|
| Release manager (`infra/production/release_manager.py`) | archive store, staged trees, one state file and one attestation per version, the schema | `prepare`, `migrate`, `verify-deploy`, `mark-deployed`, each under the release lock | a record or attestation never promises more than disk and database hold; every command can be retried after a kill |
| Deployment script (`livesetlist-deploy`, the service unit) | current link, release directories, the running service | one deployment at a time: verify, preserve, back up, unpack, install, switch, restart, wait, finalize; rollback | the link selects an intact release whose schema is there; a committed release is not rolled back |
| Favourites in the browser (`FavoriteProvider.tsx`, `favoriteSync.ts`) | server ids, wishes, requests in flight, failure count, a mark "something is unsettled" | click, answer, chained resend, reload from the session | stars show the last click, and the last wish is stored |
| Authentication in the browser (`AuthProvider.tsx`) | the user, the CSRF token, the session's favourites | restore, log in, log out, refresh | local state belongs to the user who is signed in |
| Sessions and CSRF (`backend/app/auth.py`) | sessions with expiry, revocation and a list of tokens | log in, check, refresh, log out | several tabs of one session work; an ended session does nothing |
| Favourites API (`routers/me.py`, `favorites.py`, V20) | rows of `user_live_favorites` | PUT, DELETE, batch, snapshot | idempotent; no favourite on a cancelled Live |
| Live console (`routers/console_write.py`) | Lives, setlists, schedule history | create, update, append, replace | a setlist is never orphaned by a cancelled or moved Live; whoever waits for whom is known |
| Band history (`routers/console_bands.py`, `band_history_write.py`, V21-V25) | version chains, line-up contexts of Lives | new name, new line-up, handover Live | a handover is not lost; who performs has a context |
| Performance groups and tours (`console_performance_groups.py`, `console_tours.py`) | a group or tour with its Lives | create, replace, under row locks | a Live is in one tour and one group at most |
| Venues and geography (`console_venues.py`, `console_geography.py`) | venues with name versions, places and map links; localities | create, rename, edit, link | names are never reused; what a form was compared with is still stored when it writes |
| Song catalogue (`console_song_catalog.py`) | groups of versions, owners, albums with tracks, revisions | create, batch, edit, move, renumber | orders without clashes, a default version per group, no duplicate from two batches |
| Public lists (`lives.py`, `performance_groups.py`, `tours.py`) | none | pages of Lives, of performances, of tours; the page of a group or tour | every Live owed to the reader appears once |
| Tour statistics (`tours.py`, `TourStatisticsPanel.tsx`) | the panel's tab, statistics, a comparison | open, leave, compare two stops | what came, went or stayed is told so |
| Browser history and draft guard (`App.tsx`, `ConsoleDraftGuard`) | numbered history entries, the journey being undone, drafts | push, travel, ask, repeat | no draft is lost without the user's word |
| Request caches (`cache/queryCache.ts`, `api.ts`) | LRU entries with data or a request, generations | get, request, batch, clear, evict | no catalogue from before a change it was told of |
| Endless lists (`App.tsx`, `TourArchivePage`, `VenueDetailPage`) | cards, sessions and snapshots per choice of filters | open, load more, refresh, leave | an open list is a gapless beginning of what the server lists |
| Console editors (`ConsoleInsertPanel.tsx`) | rows, drafts, a lock, a confirmation, requests | choose, open from another section, edit, look up, confirm, submit, read back | what is submitted was entered for that Live; what is reported was written |
| Database recovery (`recovery/`) | containers, volumes, snapshots | prepare, roll back, finalize, restore | some volume always holds the data; the formal names come back |
| Backups (`recovery/backup.py`) | dump files | create, compare, prune | a bad dump is not kept, the newest good ones are |
| Live status and dates, setlist parser, geocoding, scripts | none that orders matter for | pure functions, text processing, outside services, one-process tools | not modelled |

How they interact. GitHub workflows call the release manager and the deployment script over SSH; the
script calls the manager twice and shares the current link with it. The manager and recovery both
write the production database. The browser talks to the API over HTTP: the session payload rebuilds
the favourites, a 401 on a favourite signs the user out, the caches are cleared when the user
changes. Console writes and favourites meet in database triggers; tours and groups refer to Lives; the
console tells the other tabs of the browser by a storage event, and they clear their caches and lists.

What is hard here. *Concurrency*: two locks in the release pipeline that do not exclude each other;
rows locked in different orders by console requests; requests of one browser that overtake each
other. *Failure*: every step of a deployment, migration or recovery can be the last. *Ordering*: a
late answer, a stale snapshot, a state update that is not committed yet. *Time limits*: ten seconds in
the browser, after which the server may still act. The list is `hazards` in `PROJECT.json`.

## Modules

### Release pipeline

    ReleaseManager  <-EXTENDS-  ReleaseControl  <-EXTENDS-  ReleaseControlProofs (TLAPS)
                                      |        <-EXTENDS-  MCRelease (TLC)
                                      +-- INSTANCE ReleasePolicy (what it promises)

**ReleaseManager** has one action per durable write of `release_manager.py`. `manager` is the one
command that runs (the lock of line 246); `StartPrepare`, `StageCandidate`, `RecordCandidate` are
`prepare`, from `StartMigrate` to `NoteMigrated` is `migrate`, `DeploymentMode` is what
`verify_deploy` returns, `MarkDeployed` and `DiscardStage` are `mark_deployed`. `ManagerStops` ends a
command after any of its steps. A Flyway tree is its set of migration numbers, and a version always
names the same archive, because the code compares its hash in every command; archive validation,
hashing and the ownership contract are steps that may fail. Flyway itself is external and modelled
from how the manager calls it and reads it: `migrate` validates first, each migration commits by
itself, and `info` reports what blocks.

**ReleaseControl** adds the host. `deploy.step` walks through `livesetlist-deploy` line by line, and
`deploy.switched` is the script's own variable. Failures are of three kinds, as in the script: before
the trap is set and after it is cleared a failure ends the script, under the trap it runs the rollback,
and a kill leaves everything as it is. `ServiceRestarts` and `HostRestarts` start what the link selects.
A deployment and a manager command of any version interleave freely: the deploy lock and the release
lock are different files.

**ReleasePolicy** is the promise, without files and locks: a candidate is recorded once; the link moves
only from the release a candidate was recorded against, and only when the database holds its migrations;
a switch can be taken back until the candidate is committed. `ReleaseControl!ImplementsPolicy` is the
refinement: `plan` is what the state files record and `committed` the versions marked deployed.

### Favourites

**FavoriteSync** has the browser's `FavoritesState` twice, as React does: `view` with every queued
update, and `ref`, the last committed one, which the handlers read. An update queued by an answer
reaches `ref` with `Commit`; a click commits its own updates, and not those of a waiting answer (React
18 renders the two at different priorities). A request is sent, stored or refused, and answered in
steps of its own, so anything can happen in between. `ReplyDone` decides on `ref` and updates `view`,
as lines 125-152 do. `me` is the one `/api/auth/me` request. `Perils` says what the environment may do:
`overlap` (a snapshot or a new login while requests are out), `lag` (a click before a commit), `late` (a
request applied after the browser gave it up).

Left out: the batch operation, which no page calls; attempt numbers and error codes, which nothing
reads; 403 answers, which for the state are failures like others. Logging in or out is one step: the
server's part and the browser's are not separated, and logging in reads the stored favourites then
(AuthSession separates them, without the favourites). `FavoriteProofs` extends the module with its theorems.

### Console

    Transactions <-EXTENDS- LiveConsole <-EXTENDS- CollectionConsole \
                 <-EXTENDS- VenueConsole -----------------------------+-- Console <-EXTENDS- MCConsole
                 <-EXTENDS- SongConsole -----------------------------/       |
                                                                             +-- INSTANCE LivePolicy

    Console <-EXTENDS- ConsoleProofs <-EXTENDS- SongProofs <-EXTENDS- LockProofs

**Transactions** is the machine under every write request: PostgreSQL at READ COMMITTED, external and
modelled from how `get_write_db_connection` and the handlers use it. `txn[c]` is the transaction of a
connection: the step its handler is at, what it has read (`seen`), the locks its current statement still
takes (`plan`, in the statement's order) and those it holds. A handler is cut where it waits for a lock
or goes on trusting an earlier read: up to a cut its reads are one step, and its writes are applied by
its last step, since nobody sees them before the commit. `TakeLock` takes one lock at a time;
`RollBack` ends a transaction at any point (a refusal, the statement timeout, a deadlock victim, a lost
connection). Locks are row locks (`FOR UPDATE`), the `FOR KEY SHARE` of foreign keys, `FOR SHARE`,
advisory locks and the entry of a unique index that another transaction is inserting.

**LiveConsole** has the handlers of `console_write.py` and `console_bands.py` and the favourites' SQL:
`update_live` locks the Live, reads, and then waits again for its bands' foreign keys; a setlist handler
locks the Live, reads, and inserts row after row: the key of the row's song group (V40) first and then those
of the contexts of its bands, so that the rows of a setlist lock in the order they were sent in.
`create_lineup_version` locks the band, reads the handover Live *without* a lock, and meets it again through
a foreign key. A batch of favourites takes their index entries one by one, and the keys of their Lives at
the end of the statement. Versions of a band are numbers. **CollectionConsole** adds tours and performance
groups, which delete their relations and insert the new ones in date order, each with the lock of an index
entry and of the Live.
**VenueConsole** has venues and localities; a form's state token, a hash of what the form shows, is the
shown state itself. **SongConsole** has song groups, versions, moves, ownership, the combined editor and
albums; a form carries the revision that `lock_revision` compares. The tracks of an album and the covers of a
batch are inserted one by one, each with the key of its song (V37), in the order they were sent in, while the
editors of songs lock them by number.

**Console** composes them: any mix of requests on several connections. `Scenarios` says what the tables
hold at first and which requests are sent; `ScenarioAssumption` says what constraints hold the tables to (a
Live in one tour and one group, a venue name used once, a catalogue in order: `CatalogConsistent`) and what
the request schemas let through (`LiveRequest`, `CollectionRequest`, `VenueRequest`, `SongRequest`).
**LivePolicy** is the promise about a Live, its setlist and its contexts as if every request were one atomic
step: a change of a Live, a setlist and a handover each ask *at the commit* for what their handler checked.
`Console!LivesObeyPolicy` says that the interleaved handlers implement it but for one step, which it names:
`LateHandover`, a handover at a Live that was changed while the request waited for it
(`console_bands.py:511-527` is not asked again).

Left out: titles, times of day, the venue of a Live, attendance, members, the audit log, album sections
and track identities, which decide only about the request they are in. `update_group` renames
without a lock on the title, so that a rename may take a title a batch is creating (`CreatedTitlesDiffer`
speaks of songs not edited since).

Locks left out. The key locks of these foreign keys: of the owners of songs and albums (bands and members,
V37:33-47), of a Live's venue and its version of the venue's name (V28, V29), of a Live's announced locality
(V31), of the history of schedules (its Live, which the writer has locked, and venues), of the audit log and
the favourites (users), and of a song's group where the request has that row itself. Two requests do not
cross there: key locks do not exclude each other; whoever locks such a row for an update (a band, a venue, a
locality) does so before any other, and a venue's name only below its venue, which the trigger of a Live
also asks for first; and then it waits for nothing that the request with the key holds, unless it records a
handover, which is one of the known cases: a request about songs holds no names, line-ups or Lives, and an
editor of venues asks for no Lives. The deferred constraints of V38, checked at the commit, are about the
rows of groups the request has locked. Tracks an album keeps and covers that are refused take no lock;
deleting a favourite locks only the row, which nobody else waits for while holding it.

### Browser

Six modules with no state in common, checked together (and with PublicLists, below) by **MCSite**: a
behaviour chooses one `scenario` and takes the steps of that part.

    AuthSession, ConsoleHistory, ConsoleEditor, RequestCache, CardLists, TourStatistics, PublicLists
                              <-EXTENDS-  MCSite (TLC),  BrowserProofs (TLAPS)

**ConsoleHistory** is `App.tsx`'s history. The browser travels first and tells the page afterwards
(`Land`, which is `onPopState`): the guard goes back, asks, and repeats the journey by the difference of the
numbers in two entries. `travels` are the journeys that have not arrived, the user's and the guard's own, in
their order; the browser's buttons may be pressed again before one has. `onPopState` does not know whose an
arrival is, it goes by its two marks: `mistaken` records that it took one for another's. **RequestCache** is
the LRU cache and its three uses: the song catalogue, whose answers are stored only if the generation is
still the one they were asked in; the details of Lives, asked for one by one or as a batch; and pages of
lists, stored whatever happened since. A request reads at the server (`Read`) at some time between its being
sent and its answer. **CardLists** is the endless list of Lives with its sessions and snapshots per choice
of tab and filters, and the two simpler pagers.
**ConsoleEditor** is the insert panel: its modes, each with its requests; the sections of venues and geography,
which open a Live in its editor (`OpenLive`) beside the query the mode starts itself; the lock over the fields
(`isLiveLoading`, `liveCandidateLoading`), which the end of any of these requests lifts; the lookups (songs,
venues, a band's history, a batch of new songs), whose answers go into whatever is edited by then; the
confirmation, which fixes what is sent; and, after a conflict or no answer, the look at what the server has
(`ReadBack`) that decides what is reported. `astray` records that an answer went to another Live than it was
asked for, or that the lock was lifted while a Live was loading. The dialogs of a batch of new songs, which
confirm nothing of the panel's own, are not kept apart from its lookup. **TourStatistics** has the
comparison of stops as the server computes it and the panel that asks for it. **AuthSession** is server
and tabs: one cookie for all tabs, a token per page load, the look-up of a session and the action on it in
two transactions. Tokens are numbers that are never drawn twice.

Left out: rendering, error messages, the forms of other editors, idle callbacks of the prefetch (a batch may
be asked for at any time). The user waits until journeys have arrived before the next click *in the page*
(`Settled`), not before the next press of the browser's buttons; pages left behind receive nothing.

### Public lists

**PublicLists** are the SQL queries of the paged lists, as sets: who is eligible, who is a candidate
through its own row or its group's title, which groups are shown whole, which Lives get a card of their own,
and the order. The list of favourites as it is opened, newest first and without a filter, has a query of its
own (`me.py`), which leaves cancelled Lives out (`DefaultFavorites`); once anything is filtered, or the
order turned, a cancelled favourite is listed, and there can be one (see the finding). `ReadPage` reads one
page, each with a query of its own; equal rows come in any order. Nothing is written while a reader turns
the pages. `Owed`, what the property compares with, is stated Live by Live, without groups of queries. The
scope of one filter stands for those like it (`narrow`), and a column that a filter does not read has one
value.

### Database recovery

    Recovery  <-EXTENDS-  RecoveryProofs (TLAPS),  MCRecovery (TLC)

**Recovery** is `recover_main_database` as one action per docker command that changes something. `pc` is
the next command, `run` stands for the timestamp in the names, `data` says what each volume holds
(nothing, an empty directory, an incomplete copy or a mixture, what the application wrote, a restored
dump) and `con` which volume each container mounts and whether it is up. `before` is history: what the
formal name served and held when the run began. `Command` is `run_step`: it succeeds, or it
reports failure having taken effect or not; `Raise` is where the `except` clauses lead from there. A copy
that fails leaves a partial target. The phases are those of the code: up to the operator's yes, a failure
leads to `rollback_candidate`; in `finalize_candidate_as_formal`, to `restore_formal_from_snapshot`;
elsewhere it ends the script. `Killed` ends it anywhere, and so does Ctrl-C, which the handlers do not
catch (`SystemExit` and `Exception` only). Any end may be followed by another run.

Docker is external. Three facts about it matter and are stated where they are used: a volume that a
container mounts, even a stopped one, is not removed; `docker run -v` creates a missing volume, empty;
and Compose finds the containers of its service by labels, which a rename keeps, so that `compose up` *may*
replace the container that was set aside (the model leaves it open, every way is checked).

Left out: the dump files, which no step after the restore reads; the queries inside the candidate
database, one step with an outcome; the rebuild of the test database in place, part of the step
that checks the candidate.

## Runs

| Run | Bounds | What it shows |
|---|---|---|
| `MCRelease` | three candidates (no, one and two new migrations), 2 faults; 59,648 states | type invariant, `SchemaCoversCode`, `ActiveReleaseIntact`, `AttestedSchemaHolds`, `CandidateKeptForRetry`, `HealthyCandidateFinalizes`, refinement of `ReleasePolicy`; `RetryConverges` |
| `MCNotLowerIsAuthorized` | 2 faults | violated: the code wants the attested version, the runbook one that is not lower |
| `MCFavoriteNominal` | 2 Lives, 2 requests at a time, 4 clicks, 2 faults, 2 snapshots, no perils; 36,826 states | `SingleFlight`, `QuietStarsAgree`, `StarsFollowClicks`, `LastWishLands` |
| `MCFavoritePerils` | 1 Live, 3 requests at a time, 3 clicks, 2 faults, 2 snapshots, all perils; 557,600 states | `SpinnerHasRequest`, `SpinnersEnd` |
| `MCOneRequestPerLive` | 1 Live, `overlap` only | violated: a snapshot forgets the request that is out |
| `MCLeftoverWish` | 2 Lives, no perils, 1 fault | violated: one Live's success hides another's failed wish |
| `MCRecovery` | 3 recoveries, any number of failures in each; 30,407 states | `SomeVolumeIsWhole`, `QuietWhenCopied`, `SuccessServesRestored`, `RollbackServesOld`, `SnapshotServesOld` |
| `MCConsole` | 16 scenarios, 2 connections, 3 requests; 518,831 states up to the symmetry of connections | refinement of `LivePolicy`; `SetlistKeepsItsDay`, `PerformancesHaveContext`, `HandoverNotLost`; `DeadlocksAreKnown`; `CreatedNamesDiffer`, `OneCollectionPerLive`, `VenueNamesUnique`, `FormsStillCurrent`; `VersionsAreOrdered`, `GroupsKeepADefault`, `CreatedTitlesDiffer`, `TracksKeepAlbumName` |
| `MCCancelledFavorite` | the scenarios of Lives | violated: a favourite that waits for the cancellation of its Live goes through after it |
| `MCHandoverLive` | the scenarios of Lives | violated: a handover is stored at a Live that was cancelled, or that the band left, while the request waited |
| `MCSite` | 9 scenarios, see below; 4,576,401 states | `DraftsLeftByConsent`, `CatalogIsNotOlder`, `CardsAreCurrent`, `ReportedWasWritten`, `ConfirmedForItsLive`, `EveryLiveListedOnce`, `ChangesAreTold`, `WritesKeepTheirUser` |
| `MCFailedFinalize` | 1 recovery | violated: a finalization that fails before its snapshot is complete loses the old data in the formal volume |

Why the bounds are enough. Three candidates are one that is overtaken, one that overtakes it and one that
needs no migration; the tree with two migrations can stop between them. Two faults are a failed
deployment and one in the rollback or manager command that follows; the safety properties are proved for any
number. In the favourites a third click
on one star, during a request and its chained successor, already repeats a former situation; three request
slots allow the two requests a forgotten one leads to, and one that the browser gave up. Three recoveries
are one that is cut short, one that starts from what it left behind, and one that cleans up after both;
within a run nothing is bounded, and the proofs hold for any number of runs. Two connections and three
requests let a request wait for another that itself met a third's result; every race this code has is one
of two transactions, and the third request builds on what they left. The scenarios start the requests that
touch the same rows: Lives with update, setlist and handover; with new bands and names; with favourites;
tours and groups over two Lives; a venue with or without a place; two groups of songs; batches of songs;
an album. Three more are there for the locks: a setlist of two groups' songs while the groups are edited, albums
and a batch of covers while their songs are, and two Lives starred in either order.

In MCSite: four history entries (home, a Live, the console and one beyond), two journeys at once and one way
back from a Live, and no more steps once both exceptions of the property apply (`StillAsked`); a cache of one
entry, two fetches, one change; three or four cards, one on a page, one change; two Lives and two contents, one
write and one by another tab, two loadings of Lives, one query and one lookup of a kind at once; three Lives in
up to two groups or tours, two days around today, one row on a page, every filter; up to three stops (two if the
tour names its bands) of up to two rows; two tabs, two users, two sessions, two requests at a time, four in all.

The bounds `MaxFaults`, `MaxClicks`, `MaxSnapshots`, `MaxRuns`, `MaxRequests`, `MaxVersions`, `MaxEntries`,
`MaxTravels`, `MaxBacks`, `MaxFetches`, `MaxChanges`, `MaxVersion`, `MaxWrites`, `MaxOthers`, `LoadsAtOnce`,
`QueriesAtOnce`, `MaxRows`, `MaxStops`, `MaxSessions` and `MaxSent` stand in the guards of the actions they
bound or in the sets of initial states.

Deadlock is not checked in the favourites (`CHECK_DEADLOCK FALSE`): a page at rest, its clicks used up,
has nothing left to do; nor in Recovery, where the runs are used up, or a failed one has left no container
under the formal name, which the next one asks for; nor in the console and the site, where the requests,
changes or pages of a behaviour are used up: two requests that wait for each other are no deadlock for
TLC, since PostgreSQL rolls one of them back, and `DeadlocksAreKnown` is about them. In the release runs
it is checked.

Fairness. Release: a command that was started goes on (weak fairness for the manager, strong for the
deployment, which may wait for the release lock that others take and free), and the operators retry migrate
and deploy, as the last section of the runbook tells them to; no fault is fair. Favourites: the server
processes a request and the browser gets the answer, or the time limit ends it (`fetchWithTimeout`), and
React commits what is queued. Clicks, reloads and logins are never fair. The console and the site are
checked for safety only: a handler that waits for a lock is ended by its statement timeout, and nothing the
code promises eventually depends on more than one answer.

What does not hold, and is not claimed. `SingleFlight`, `QuietStarsAgree` and `StarsFollowClicks` are
checked without perils, since each is false with some: `overlap` breaks the first (see the finding), a stale
snapshot or a late request the second. `FailedFinalizeRestoresOld` is false (see the finding); what holds is
`SnapshotServesOld`, which asks for a complete snapshot, and `SomeVolumeIsWhole`: the candidate volume still
has the restored data. `RollbackServesOld` is about runs that start with the formal container on the formal
volume; after a kill during the candidate phase the formal name may serve a candidate, and the next run sets
that one aside. The hazards without a property say so at their line.

In the console: `NoFavoriteOnCancelled` and `HandoverAtItsLive` are false (see the findings). The second is
why `LivesObeyPolicy` has its exception: `create_band_lineup_version` reads the handover Live without a
lock, and what it checked, that the Live takes place and the band plays there, may be over when it writes;
that a handover once stored is not lost by a later change is `HandoverNotLost`. `DeadlocksAreKnown` names
the requests that do wait for each other, in three cases. *One*: a request records a handover, which locks
the band before the Live. *Two*: both write tours, or both groups, with Lives in common, and each inserts
one that the other has added or deletes (`CrossedInserts`). That takes one of two things: a day that an
editor corrects between the reads of their orders, or a `PATCH` that deletes relations of its tour while a
`POST` has read them as taken by nobody, because they were stored after its check. *Three*: a setlist, an
album, a batch of songs or one of favourites locks rows in the order it was sent in (`InSentOrder`), holds
one and wants one with a lower number (`AgainstIds`), which another request locks in the order of the
numbers, or in the other order of sending. Requests that only edit songs or groups never cross. PostgreSQL
rolls one of the two back, and its editor is answered by an error, though both may succeed one after the
other. Names of bands are unique among new ones; a later name is checked under the lock of its own band only
(`console_bands.py:404`), so two bands can take the same. An append to a cancelled Live, or to one without a
zone, is answered by the same 409 as one that has a setlist (`song_catalog.py:105`), and the browser tells
the user so.

In the browser, each exception is stated with its property. Striking one from a property (`~mistaken'`,
`backs = 0`, `~astray`) makes TLC show what it stands for. *Drafts*: `App.test.tsx:970` says that navigation
and the browser's way back both protect what was changed; twice they do not. `onPopState` tells the guard's
own journeys by marks (`App.tsx:553`), not by where they lead: a button pressed again before the guard's way
back has arrived is taken for it, and the journey repeated from there can lead past the end of the history,
never arrive, and leave `approved` set for the next one, which is then not asked about. And the way back
from a Live's page leaves an entry without a number (`App.tsx:1303`), which is read as 0 (line 554): a way
back of the guard computed from it ends at another entry than the console's, the next page pushed there
shares its number with another, and a journey between the two is taken for none (line 561). Drafts of an
append have no guard, and a storage event clears them. *Caches*: lists and details count no generations, and
what was requested before a change can be stored after it. *Lists*: a further page asked for before the
first was fetched again is let in after it (`mixed`). Nor does the merge look at what the list holds by
then: when the list has meanwhile been shortened to a snapshot of its first page (opened again from the
menu, `App.tsx:851`), the third page is put behind the first (`App.tsx:1213`). The attempt to prove
`CardsAreCurrent` found the second, which takes lists of three pages. *Editor*: `console/README.md:6` says
that its lock keeps the fields closed while a Live loads. But the end of a query for Lives opens them
(`ConsoleInsertPanel.tsx:1252`), whether the Live that is loading is the query's own first match or one
opened from the sections of venues and geography (line 3036), so that one Live's fields may be edited and
confirmed under the number of another; and a lookup that outlives its draft (songs, venues, a band's
history, a batch of songs) writes into the next one. Of what follows either, nothing is claimed (`astray`).
*Statistics*: a tab left while it loads says so for ever (`TourDetailPage.tsx:120`), and a comparison that
is answered late covers the entry chosen meanwhile, though `docs/product/tour-aggregation.md:140` has the
panel show the chosen one. *Sessions*: the late answer to a logout deletes the cookie another tab's login
has set (`routers/auth.py:92`). *Public lists*: a group and a Live with the same id, day and status tie in
the order, and the Lives of these two cards may be missed or come twice (`TiedCards`). *Comparisons*: a song
whose slot shifted under the same number may be told as replaced (`Shifted`).

## Proofs

`ReleaseControlProofs` proves, for every set of candidates, every assignment of migrations and every
number of faults, assuming only `ReleaseConstants` (the baseline is not a candidate, every Flyway tree is
a non-empty set of positive numbers):

* `TypeCorrect`: the type invariant;
* `SchemaCoversCodeAlways`, `AttestedSchemaHoldsAlways`, `CandidateKeptForRetryAlways`,
  `HealthyCandidateFinalizesAlways`: four of the safety invariants;
* `ReleaseImplementsPolicy`: the refinement.

The argument. `SchemaCoversCode` alone is not inductive: that a switch finds its migrations follows from
what `verify-deploy` read several steps before. `Inv` therefore says what the files stand for
(`RecordSound`: an app-only record has the very tree of its base, and the base's migrations are applied;
`AttestationSound`: an attestation vouches for the whole tree), that a running manager command still has
what it checked (`ManagerSound`), and that a deployment between verification and finalization is
authorised, at the place it believes to be at (`DeploySound`). The crucial lemma is `ManagerKeepsHost`: a
manager command, even for the version being deployed, takes nothing away from the deployment, because
the database only grows, a record never changes its base or type, and a status changes only from
prepared to migrated and to deployed. The refinement follows from `Inv` action by action.

`ActiveReleaseIntactAlways` is proved from the same assumption. That the selected release
is intact says nothing about the one a rollback returns to, nor about the one a rollback of *that*
deployment could. `ChainIntact` therefore follows the bases: there are ranks (the order in which releases
were recorded) and a set of releases, the current one on top, closed under "the base of", of which every
directory is ready. A deployment only moves aside or unpacks the directory of its own version, which is not
in the chain: its base is the current release, so its rank is higher than any there (`ChainStays`, and one
lemma for each step of the host).

`RecoveryProofs` proves, for any number of recoveries (`RunsAssumption`: it is a natural number), all the
safety properties that `MCRecovery` checks:

* `RecoveryTypeCorrect`, and `SomeVolumeIsWholeAlways`, from `DataInv`;
* `QuietWhenCopiedAlways`, `SuccessServesRestoredAlways`, `RollbackServesOldAlways`,
  `SnapshotServesOldAlways`, from `ServedInv` with `DataInv`.

The argument. That some volume is whole says nothing about *which*, and so does not survive the removal
of one. `DataInv` names it for every step (`CopyKept`): the formal volume, or one of an earlier run, until
the snapshot copy; then the snapshot, or one of an earlier run; from the copy of the candidate on the
formal volume too; and a failed finalization still has the snapshot or the candidate, whichever step
failed. It needs that copies start from empty targets (`TargetsEmpty`), and that the volumes of a new run
do not exist yet (`VolumesFresh`). `ServedInv` follows the containers: the ones set aside are stopped and
the formal name is free while volumes are exchanged (`NameFree`), the container to bring back
mounts the volume the run found (`OldSetAside`), and the old data is in the formal volume until it is in
the snapshot (`OldDataKept`). Its crucial case is the rollback: an old container that Compose replaced is
not renamed back but started anew on the formal volume, which no step of the candidate phase has touched.

`FavoriteProofs` proves, for any Lives and any bounds (`FavoriteConstants`), `FavoriteTypeCorrect` and
`SpinnerHasRequestAlways`, whatever the environment does; `SingleFlightWhenOrderly`, if it neither
overlaps nor lags (`Orderly`); `QuietStarsAgreeWhenSettled` and `StarsFollowClicksWhenSettled`, if it is
not late either (`Settled`). The assumptions are the negations of the perils `FavoriteSync` names.
`FlightInv` ties the table of requests in flight to the requests that are out, in `view` and in `ref`,
with the updates that wait for a commit; `TruthInv` says for every Live what the server stores as long as
its request has not reached the server, and afterwards.

`BrowserProofs` has seven parts. `WritesKeepTheirUserAlways` is proved for any tabs, users and bounds. A
token alone does not tell whose it is: `AuthInv` says that no token is in two sessions, that what a tab
shows of a user it has of one session with one of *its* tokens, and that a request found at most the session
of its cookie with every token its tab can have had, since sessions never lose a token. A write with a
cookie that has become another session's then has no valid token.

`DraftsLeftByConsentAlways` is proved for a history of any length and any number of journeys under way at
once. `HistoryInv` says what the guard relies on: every entry's number is its place (`Numbered`); at rest
the browser is where `App.tsx` believes it is (`AtRest`); while the guard goes back, exactly one of the
journeys under way is its own, by the difference it computed (`Returning`), and the repeated one ends inside
the history, with no draft left (`Repeating`); the dialog goes on with an entry there is (`PendingKnown`).
That holds as long as no journey was taken for another (`mistaken`) and the way back from a Live has not
been taken (`backs = 0`), which the property asks for too; that a dirty draft is guarded holds always.

`ReportedWasWrittenAlways` and `ConfirmedForItsLiveAlways` are proved for any Lives, setlists, rows and
writes, from `EditorAssumption`, of `EditorSpec`: the union of what the modes of the panel do, whichever the
user switches to (the run checks setlists and Lives one after the other, since together they have
too many states). Neither is inductive: that a report is true depends on what the submission waits for.
`EditorInv` says that the submission is of what is confirmed and waits for the last write that was sent
(`SubmitInOrder`), that what was read back was stored by somebody (`SubmitInOrder`, `ServerInOrder`), and
that a write answered as done was stored. For the second property, while no answer went astray: the rows are
the selected Live's (`RowsOfSelected`); a Live that loads, or may be loaded next, does so alone, in its own
mode, under the lock and with nothing to confirm, submit or ask (`OneAtATime`), since the end of a second
request would have lifted the lock and been counted as astray; and the fields belong to the Live they are
saved for except between its two answers (`FieldsOfLive`).

`CatalogIsNotOlderAlways` is proved for caches of any size and any number of requests, changes and
generations. `CacheInv` adds to it that a request of the *current* generation was sent, and read, since the
browser last learned of a change (`FetchInOrder`); an answer of an earlier generation is dropped by
`Stored`, and `LearnAll` empties the entries and begins a generation in one step. That the LRU operations
put nothing into a cache that was not there is a lemma for each of them (`DropKeeps`, `TouchKeeps`,
`EvictKeeps`, `CacheCalls`).

The other three are about sequences put together. `SequenceFacts` has what they need (and `LockProofs`, for its
plans): what `FlattenSeq` builds step by step (`Flattened`, `FlattenIs`), its elements (`FlattenedElements`), and
that the slices of a sequence, each of the same length and the last of what is left, together are the sequence
(`SlicesFollow`, `SlicesTogether`).

`CardsAreCurrentAlways` is proved for listings of any length, without a card twice in one version
(`CardAssumption`), that change any number of times. That the cards shown are current says nothing about
what is under way or kept for later. `CardInv` says of every list that while the tab has been told of the
last change, its session is the first pages of what the server lists (`SessionsOK`), a snapshot its first
page (`SnapshotsOK`), the answer to the first page is of this version (`FetchOK`), and the answer to a
further page is the one after those the list held when it was asked for (`Asked`); the list that is open
shows its session (`ViewOK`). A page of a listing is then new to the pages before it, and the merge drops
nothing of it (`NextPage`).

`ChangesAreToldAlways` is proved for tours of up to `MaxStops` stops with setlists of up to `MaxRows` rows,
whatever the two numbers are. That a panel shows what the server computed is the invariant (`TourInv`); what
the comparison tells is proved of the computation: a setlist has one song in a slot (`PlayedSlots`), so that
each change is told and nothing else but a shifted song (`TransitionTells`), and the other way round the
same; and since the stops between the first and the last that has a song are compared in pairs, a song that
comes or goes does so where its status says (`StaysFrom`, `StaysUntil`, `ComesAndGoes`, `StatisticsTell`).

`EveryLiveListedOnceAlways` is proved for any finite sets of Lives and of groups (`ListAssumption`), any
number of rows on a page, every list the module has and every filter, the unfiltered favourites included;
what it says of a complete walk is of all owed Lives but those of two cards that tie. The cards of each list
share the Lives it owes out among them: no Live is on two, and each is on one (`LivesShareOut`,
`ToursShareOut`, `PerformancesShareOut`). Each page is a slice of some sorted order (`WalkOK`). A card that
ties with no other has the same place in all of them (`OnePlace`), and so comes on one page, the one its
place falls on (`PageOf`, `SomePage`, `RowsComplete`).

`ConsoleProofs` proves, for any connections, requests, Lives, bands and bounds:

* `LivesObeyPolicyAlways`: the refinement of `LivePolicy` by the interleaved transactions, late handovers
  excepted;
* `SetlistKeepsItsDayAlways`, `PerformancesHaveContextAlways`, `CreatedNamesDifferAlways`,
  `HandoverNotLostAlways`.

It assumes `ScenarioAssumption` (what the constraints of the tables and the request schemas guarantee, see
*Console* above; the first catalogue is one V10, V37 and V38 let in), `FirstNamesDiffer` (the bands that exist
at first have different names) and the typing of the constants, where the ids of Lives, collections, venues,
groups, songs and albums are finite sets, as rows of a table are;
that a behaviour begins without setlists and handovers is
`LiveInit`.

The argument. That a Live with a setlist keeps its day says nothing about the transaction that is about to
store one: it checked the day several steps before, and has waited since. `ConsoleInv` therefore adds, for
every connection, that what its handler checked *still* holds (`Sound`), together with the lock that makes
it so, held or the one it waits for (`HasOrTakes`), and that held locks exclude each other (`LocksApart`).
That `Sound` survives the steps of the *other* connections is rely and guarantee. `Rely(held)` says what a
step leaves alone for whoever holds these locks: the row of a Live under its row lock, the versions of a
band under the band's lock, and the names of bands under that of their ids. `SoundStays` derives `Sound`
from it; each storing step guarantees it, since its own locks would conflict (`Frame`, `LiveChange`). The
step that needs most care is a line-up version with a handover. It reads the Live without a lock and holds
only the key lock of the foreign key when it writes the context; that suffices, since `update_live` and the
setlist handlers lock the row `FOR UPDATE`, which excludes the key lock, before they read contexts. It
suffices for the context, not for what was checked of the Live: a commit between the check and the key lock is
the late handover. The refinement and `HandoverNotLost` hold of every single step (`Lawful`).

On top of it, from the same assumptions, the module proves `VenueNamesUniqueAlways` and
`VenueFormInvariant`: a request that creates or renames holds the advisory lock of the names from the search
to the insert, and the name it found free still is (`NamingSound`), whichever of the three ways leads there;
the editor and the rename lock their venue first and the names second, and only the lock of the names covers
the names of *other* venues.

`VenueFormInvariant` is the part of `FormsStillCurrent` about places: a request that carries a form locks the
venue (`FOR UPDATE`) before it compares, and holds that lock to its end; nobody else changes the row under it
(`VenuesKept`), so that what the form was compared with is still the stored row when the request, which has
waited for the locality and the names in between, writes.

It then proves `OneCollectionPerLiveAlways`. The writer checks nothing itself: `add_relations`
inserts Live after Live, and the unique index makes each insert wait for another transaction's entry.
`CollectionInvariant` says that for every Live already inserted the writer holds the index entry and no
*other* collection has the Live, and that it awaits the entry of the next (`RelationsSound`). The order of the
inserts, a sort by date, needs to be a list of all the Lives and no more (`Range(order)`): every finite
strict order has such a list, by a minimal counterexample in the natural numbers.

`SongProofs` proves `FormsStillCurrentAlways`, `VersionsAreOrderedAlways`, `GroupsKeepADefaultAlways`,
`CreatedTitlesDifferAlways` and `TracksKeepAlbumNameAlways`, all from `SongInvariant`. What a request read
before it held its locks may have changed; what it may rely on is the *revision*. `CatalogGrows` says that a
stored row, and the order of a group's versions, changes only with a higher revision, so that the revision
found again under the lock (`lock_revision`) vouches for everything read with it. Where no revision is
compared, a lock does it: the group's for a new version's position (`VersionFormSound`), both groups' for a
move (`MoveSound`), the advisory lock of each title for a batch between its search and its inserts
(`CreationSound`). `GroupsKeepADefault` rests on the last check of a move or an edit, that the version leaving
is not the default, which only the revision of the version carries through the wait for the second group.
`CreatedTitlesDiffer` speaks of songs not edited since (`AsCreated`), for the reason given above.

`LockProofs` proves `DeadlocksAreKnownAlways`, for any two of the modelled requests and the locks they have
in the model (*Locks left out*, above, says which they have besides). That two do not wait for each other
now says nothing about the locks they have still to take. Three invariants do, each proved of every step of
every handler from the invariants above:

* `LockOrderInvariant` says what a request may hold and await (`OrderInv`): only rows, and in modes, that its
  kind of request uses (`Rightful`), and these in an order. Some it locks before any other (`Opens`: the Live, tour,
  group, locality or venue it edits, the band that gets a version). Others only below a row it has locked before:
  a version of a name or a line-up below the band, a name of a venue below the venue (`Leans`); nobody waits for
  those while holding what the other wants, since the row above excludes the other already
  (`LeaningNeverBlocks`). The rows of the song catalogue come by sort and number, groups before versions
  (`Precedes`), also where a handler locks them in two statements (`Staged`); the songs of an album's tracks and
  of a batch's covers come in any order, but after groups and albums (`Loose`, `Follows`).
* `IdentityInvariant` is about the unique entries of localities, of which an editor takes two, the one it
  gives up and the new one: its locality is locked and still has the identity it read (`LocalityClaim`), and no two
  editors want each other's (`SwapFree`), since nobody takes an identity that is stored.
* `SlotInvariant` is about the entries of the unique index on a Live: a writer of relations holds none but those
  it deletes, has added or inserts next, the deleted ones first (`SlotPlan`, `SlotsTaken`); and of two writers
  at most one wants Lives that the other deletes (`Disjoint`), since both read the relations under the
  locks of their own collections.

Two requests that wait for each other then wait for rows of the same sort (`CrossingKinds`); numbers, the
single lock of all venue names and the identities exclude each sort but those that are locked in the order
of sending and the relations. Where one of the two locks in the order of sending, one of them holds a higher
number than it waits for (`SentOrderCrosses`): rows with numbers cannot both be waited for upwards. Of
relations, two writers are left (`SlotsCross`; that no other writer deletes or has added what one deletes is
`ReplacedIsOwn`, from `CollectionInvariant`). The property is about two requests; longer circles are neither
proved nor, with two connections, checked.

Model-checked only. No safety property of a passing run. All liveness (`RetryConverges`, `LastWishLands`,
`SpinnersEnd`), which the prover cannot handle, nor `ENABLED`. The library's induction theorems take an
operator as a parameter, which no installed prover can instantiate; where a proof needed induction it is a
minimal counterexample (`WFMin` with `NatLessThanWellFounded`). For the same reason `CardLists` and
`TourStatistics` leave rows out by flattening a sequence of single rows and nothings (`FlattenSeq`), and not
with `SelectSeq`, which is RECURSIVE and of which the provers know nothing; that the cards of a list *have*
a sorted order, which `PublicLists` chooses from (`Sorted`), is left to TLC: the theorem is about every page
that is read.

## Not modelled

*Live status and dates*, the *setlist parser* and *geocoding* take one value to one value or ask an
outside service; tests with tables of cases say as much about them as a model could. The console's models
have of them what their guards read: days in order. *Backups* and the *scripts and monitors* are single
processes of an operator. The details of a Live are read by several statements at READ COMMITTED, so that
a page can show rows from before and after a write; nothing in the code or its docs promises otherwise.
Rendering and layout, which are most of the frontend's lines, change no state that another part reads.
Within modelled parts, what is left out is named with each module above and in the notes of `components`:
titles, times, members, attendance, the audit log, addresses and coordinates.

## Plan

Done: the release pipeline, favourites, recovery, the console's transactions, the history and its guard,
caches, lists, editors, public lists, statistics and sessions. Next, in this order:

1. *Console*: circles of three and more requests, from the same order of the rows; the foreign keys left out.
2. *CardLists* and *PublicLists* composed: pages turned while Lives are written.
3. *Sessions* and *favourites* composed: the 401 of one tab and the snapshot of another.
4. *Members and attendance* in LiveConsole, with the dates of the versions.
5. *Backups*: the median threshold and the rotation, against reference definitions.
6. The rebuild of the test database in Recovery, and the state file of the monitor.
7. *Frontend*: the requests of the other console sections (`LiveAdminSection.tsx`, `LiveInsertTab.tsx`), the
   details page (`StageLedgerContent.tsx`) and the effects of `App.tsx` that no module has yet.
