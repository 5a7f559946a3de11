# LiveShortly server in TLA+

LiveShortly streams a coding-agent session from a terminal to a web page: a
capture client posts events to a Go API, the API stores them in Postgres and
fans them out over Redis, viewers follow a Server-Sent-Events stream and talk
back through comments and permission decisions, and a worker of its own sells
and activates licence keys. This directory holds TLA+ modules of the API, of the
web client and of the licence worker, the TLC runs that check them and the TLAPS
proofs about them. `PROJECT.json` is the index: components, runs, mutated
forms, the source lines each definition translates, findings, hazards and
theorems. Paths below are relative to `src/api/internal` unless they start with
`src/`.

## 1. Inventory

**The API** is one process. Every HTTP request is a goroutine; two reapers and
the licence poller run beside them. Handlers keep no state in memory: all state
is in Postgres, Redis and one directory of files, and a handler is a sequence of
calls to these with nothing held in between. That is where the hard behaviour
is: a value read by one call is stale by the next, calls of different requests
interleave, and a request whose client hangs up stops anywhere in the sequence.

| Component | State it keeps | Operations | What makes it correct |
|---|---|---|---|
| Session log (`handlers/events.go`, `stop.go`, `delete.go`, `quota.go`, `reaper/`) | `sessions` row, `session_events`, Redis `session:{id}:seq` and `:buffer`, `sessions/{id}/raw.json` | emit, stop, idle reap, abandoned-agent reap, quota end, delete | seqs are unique, the buffer shows persisted events only, the counter counts, a session ends once |
| Viewer stream (`handlers/stream.go`) | a subscription, what is left to replay, the replayed seqs | connect, replay, follow, resume, close | every event once, none missed, the stream closes when the session ends |
| Session creation and quota (`handlers/sessions.go`, `store/store.go`, `005-quotas.sql`) | `users.storage_bytes_used`, limits, live count | create, fork, meter, credit, override | no limit is passed by racing creates; the meter equals what is stored; no lock cycle |
| Agent feed (`handlers/comments.go`, `decision.go`, `agent_stream.go`) | Redis `:pending`, `:decision`, `:agent` channel, presence | post, drain, peek, push, heartbeat | no comment lost before it is drained |
| Hosts (`handlers/hosts.go`) | Redis `host:{user}:{host}`, `user:{id}:hosts` | register, heartbeat, drop, spawn | a listed host is reachable |
| Device login, tokens (`handlers/device.go`, `authweb.go`, `store/auth.go`) | Redis `device:`, `usercode:`, `rotated:`, `revoked:`, `refresh_tokens` | start, approve, poll; rotate, list, revoke | a code is redeemed once; a revoked device is out |
| Sharing, publishing, feed (`handlers/shares.go`, `feed.go`) | `session_shares`, `sessions.visibility`, `published` | grant, withdraw, publish, list | what is narrowed is off the feed; paging skips nothing |
| Administration (`handlers/stats.go`) | `users.is_admin` | grant, withdraw | the last admin stays |
| Seen marks (`store/store.go`) | `session_seen` | mark, count | a mark never goes back |
| Licences (`licensing/`, `handlers/licences.go`) | `licenses` | add, delete, poll | a revoked licence drops the plan |

**The web client** is a Next.js application. Its state is React state and refs,
one copy per tab. Handlers run to their next `await`; what comes back is applied
to whatever state there is by then. Its hard behaviour is that requests overlap,
fail, answer out of order, and meet polls, streams and the clicks, keys and
blurs that come meanwhile.

| Part | Hard behaviour |
|---|---|
| Session page (`src/web/app/session/[id]/`) | loads against the stream, echoes against the server's copies, a page that must learn of the end |
| Transcript (`EventStream.tsx`, `lib/transcript.ts`) | folding events into rows, repainting only some rows, following the tail |
| Session list, sidebar (`SessionList.tsx`, `WorkspaceSidebar.tsx`) | offset pages of a changing list, bulk actions that fail in part, renames saved by Enter and blur |
| Share sheet, new session, feed, admin, settings, palette, bell, shell | section 6 |

**The licence worker** (`src/workers/licenses/src/index.ts`) runs on an edge
platform: requests interleave at each call to its database or the mailer, the
payment provider delivers an event again and in any order, and there is no
transaction around a route.

Interaction: emit, stop and delete share the row, the Redis keys and the file;
streams are told through Redis pub/sub (`session:{id}:events`), which keeps
nothing for a connection that is not subscribed at that moment; metering couples
every emit of every session of one owner through the `users` row; pages see the
API only through requests, polls and one stream.

The hazards this creates are listed in `PROJECT.json`, each at its line.

## 2. Modules

| Module | Models | Proved about |
|---|---|---|
| `SessionLog` | one session under concurrent emits, stops, reaps and deletes | `SessionLog_proofs` |
| `SessionLedger` | what a session promises, abstractly; `SessionLog` refines it | `SessionLog_proofs` |
| `LiveStream` | extends `SessionLog` with viewers and their pages | `LiveStream_proofs` |
| `StreamGap` | extends `LiveStream` with what the page holds, its tail fetches, and what was sent while it had no stream | |
| `Quota` | create, fork, meter, credit, overrides, row locks | `Quota_proofs` |
| `Licences` | the licence worker | `Licences_proofs` |
| `Browser` | what every page is made of: state, requests, failures | `Pages_proofs` |
| `SessionPage` | a session's page: loads, stream, echoes, permission bar | `Pages_proofs` |
| `SessionStrip`, `CommentBox`, `SeenMarks` | strip; composer and typers; marks and badge | `PageSteps_proofs`, `PageShows_proofs` |
| `TranscriptRows` | rows and repainting | |
| `TailFollow`, `Popover` | scrolling; popovers and menus | `PageShows_proofs` |
| `ListView` | the list of sessions, renames | `PageSteps_proofs`, `PageShows_proofs` |
| `Sidebar` | the sidebar of sessions, renames and questions | `PageSteps_proofs`, `PageAnswers_proofs` |
| `SessionRows` | the rows that are polled | |
| `BulkActions`, `InvitedPeople`, `ThemeChoice` | publishing many; whom a session is shared with; the theme | `PageShows_proofs` |
| `ShareSheet`, `AdminPages` | sharing; the admin pages | `Pages_proofs` (sharing), `PageAnswers_proofs` |
| `NewSession`, `FeedPage`, `CommandPalette`, `LandingReplay` | the pages of that name | `PageAnswers_proofs` |
| `SettingsPages` | the settings: items, licences, push | `PageSteps_proofs` (items), `PageShows_proofs` |
| `NotificationBell` | the bell | `PageSteps_proofs` |
| `Shell` | the shell around the pages | `PageSteps_proofs`, `PageShows_proofs` |
| `MCSessionLog`, `MCLiveStream`, `MCQuota`, `MCPages`, `MCLicences` | instances for TLC | |

Each module is parameterised by CONSTANTS with named assumptions, one action per
call or handler, no RECURSIVE operator, and its type invariant is one definition.

## 3. SessionLog

State. `status`, `endedReason`, `storageKey`, `eventCount` are the columns of
the row (`"deleted"` stands for a missing row), `log` the seqs in
`session_events`, `seqKey` and `buffer` the Redis keys, `blob` the file,
`subscribed` and `queue` the channel, `pc` the next call of each handler, and
`mySeq`, `crossed`, `leg`, `snapshot`, `handoff` what a handler holds in local
variables.

Actions. One per call, in the handler's order:

- emit (`handlers/events.go:24-106`): `EmitCheck` (row read, must be live),
  `EmitIncr` (Redis INCR), `EmitAppend`/`EmitRefused` (the transaction, refused
  when the row is gone or the seq is taken), `EmitPush`, `EmitPublish`, and
  after a crossing `QuotaEnd`, a second pass through the same steps for the
  `quota_exceeded` note, and `QuotaHandoff` (`handlers/quota.go:36-60`).
- stop (`handlers/stop.go`) and the abandoned-agent reaper
  (`reaper/reaper.go:44-99`) run the same calls: `StopCheck`, `StopRead`,
  `StopPut`, `StopRow`, `EndTell`, `EndDrop`. The idle reaper
  (`src/api/cmd/server/main.go:153-177`) enters at `IdleEnd`, one UPDATE, and
  goes on with `EndTell`. It has no guard on emitters: its UPDATE judges the age
  on its snapshot and may wait behind an append's row lock.
- delete (`handlers/delete.go`): `DeleteCheck`, `DeleteTell`, `DeleteRow`,
  `DeleteKeys`, `DeleteBlob`.
- `Cancel(c)`: the client hangs up, the context is cancelled, every later store
  or bus call fails. Disk calls take no context, so an archive about to be
  written is still written, and a delete whose key purge failed still removes
  the file. `Crash`: the process dies with all its calls.

Abstractions. Payloads, actors, times and the agent channel are left out; an
event weighs 1, the owner has one session and is not exempt, so the crossing
test `storage_bytes_used >= limit` becomes `eventCount >= Limit` (the meter over
several sessions is the subject of `Quota`). The check of authorisation is not
modelled: every caller is the owner.

| Property | Says |
|---|---|
| `LiveSeqsAreFresh` | while live, allocated seqs never collide with each other or the log |
| `BufferIsPersisted` | the replay buffer holds persisted events, each once, even across resets of the counter |
| `CountIsExact` | `event_count` = rows of `session_events` |
| `ReplayIsComplete` | an event missing from a live buffer has an emitter about to push it or cut off |
| `OneEnding` | a quota end is never restamped by a stop |
| `CrossingEndsSession` | reaching the limit leads to the end, unless a capture client was cut off |
| `ImplementsLedger` | the whole is a `SessionLedger`: entries only grow until erased, are counted, one ending |
| `Inv` | the inductive invariant behind the above |

## 4. LiveStream

Extends `SessionLog` with viewers. `Connect` reads the row and takes one of the
two paths of `handlers/stream.go:66-265`; `NotFound` is the 404 after a delete.

- An ended session: `ReadRows` reads the log above `since`, `Write` sends it row
  by row, `RowsSent` says `session_ended` and closes.
- A live one: `Subscribe`, `ReadBuffer` (one LRANGE), `Write` entry by entry,
  `BufferSent`, then `ReadEvent` and `ReadClose` of the channel.

`unsent` is what a replay has left to write, so emitters, enders and drops come
between two frames of it. `Disconnect` cuts a connection anywhere, in
mid-replay too; `LiveCrash` ends the process with every stream. The page loads
the log once (`Load`) and opens and resumes its stream with Last-Event-ID = the
last frame it received. What it holds over all its connections is no matter of
the stream handler and in `StreamGap`: `HoldLog` and `Receive` add to it, and
`Open`, of a reopened stream, makes a `FetchTail` due, from the highest seq held
then.

`seen` is the handler's own set, removed from as live copies arrive. `early`
and `got` are history: whether a viewer subscribed while the row was live, and
what one connection was sent. So is `sentInGap` of `StreamGap`: what was pushed
after a page lost its first stream and before it reopened one.

Assumed of the libraries: SUBSCRIBE is in force before the handler's LRANGE, and
no frame is dropped for a connected subscriber. go-redis guarantees neither (it
does not wait for the confirmation, and drops for a full channel). Nor is a
failed LRANGE modelled, after which the handler streams on without a replay.
These are listed as hazards without a property.

| Property | Says |
|---|---|
| `NoDuplicateSend` | one connection never sends an event twice, nor one the client said it holds |
| `NothingMissed` | each buffered event was sent, is queued, or is about to be published |
| `EarlyViewersClose` | a viewer subscribed before a stop or reap sees its stream close |
| `LiveTypeOK` | types; and a connection is subscribed exactly while its handler listens |

## 5. Quota and Licences

**Quota.** One owner's limits and the Postgres transactions that keep them. `used`,
`override`, `maxLive`, `exempt` are columns of `users`; `licensed` stands for
the subquery of `isProSQL`; `st`, `owner`, `source`, `bytes` are columns of
`sessions`; `pc` and `job` are the handlers at work and what they were asked;
`holder` says which transaction holds each row.

A transaction takes its row locks statement by statement and keeps them until it
commits. Its writes are seen at the commit, so they are one step there. The
orders in which the code locks are what the model is about:

| Transaction | Locks, in order | Source |
|---|---|---|
| `CreateSession` | owner (`FOR UPDATE`); for a fork, its source | `store.go:572-637` |
| `AppendEvent` | session, owner | `store.go:991-1031` |
| `DeleteSession` | session, owner, then the forks (`ON DELETE SET NULL`) | `store.go:1118-1130`, `004-handoff.sql:9` |

Row locks, deadlock detection and cancellation belong to Postgres and to
net/http and are modelled from how the code uses them. Postgres has several lock
modes; they are one here, which only merges waits that would be granted
together (the foreign-key checks of two appends). Stops, reaps and overrides are
single statements, one step each when nobody holds the row; an idle reap that
updates several rows takes them one by one here. The plan is read by two
statements of a create without a lock, and a licence may come or go at any time:
`held` of a create is every plan its owner was on while it read them. A user's
own `session_limit` takes the place of either plan's cap, as `planSessionsSQL`
has it. `fork_count`, which only listings read, is left out, as are access
rights and the admin exemption from the plan's cap. An event weighs 1.

| Property | Says |
|---|---|
| `MeterIsExact` | `storage_bytes_used` is the sum over the owner's sessions, whatever append races whatever delete |
| `CreatesRespectLimits` | when a session appears, its owner had room: storage, live cap and plan cap of a plan held while the create read it, or is exempt |
| `CreatesStayAdmitted` | from its lock to its insert a create holds its owner's row, and the room and slots it found there remain: why no race of creates passes a limit |
| `CirclesInvolveForks` | transactions wait in a circle only if a fork is being created or a forked session deleted |
| `CallsEnd` | no transaction waits for ever |

**Licences.** One buyer's payments, the keys minted for them, the devices that
activate keys. Each `await` on the database or the mailer is a step: a webhook
goes `CheckEvent`, then per product of the cart `Stack` and `Insert`, then
`Keys`, `Send`, `Record`; a refund or a dispute `SetStatus`, `Record`; the free
key passes the limit of a day and the resend that of an hour (`CheckLimit`,
`Count`), and the resend then deletes the rows older than an hour, those of free
keys too (`Purge`: `resends` counts the rows of this hour, `earlier` the free
keys' older ones, `erased` those deleted). `HourPasses` and `DayPasses` slide
the windows, by whole hours; activation is
`Licence`, `ReadDevices`, `Register` or `Touch`. `Cut` stops a call at any step;
the provider may deliver the same event to two calls at once.

| Property | Says |
|---|---|
| `OneKeyPerProduct` | however often a payment is delivered, it has one key for each product |
| `HandledIsSent` | a payment recorded as handled has its keys, and they were sent |
| `TakenBackIsFinal` | a refunded or revoked key is never active again, nor dropped |
| `OvershootIsBounded` | overlapping calls pass the resends of an hour, the free keys of a day that are on record, or a key's devices, by less than their number; and a purge allows as many free keys again at most once for each hour that is over |

## 6. The pages

`Browser` is common to all. `ui` is the page's React state and refs, `server`
what the API holds of it, `calls` the requests out, by slot. A handler runs to
its next `await` as one step. A request is served as one step of the API; it may
fail before its effect or lose its answer after it (`Fail`); its answer is
received later, in any order. `Elsewhere` is a change made by somebody else or
the CLI. `MCPages` composes the page modules: a behaviour starts on one of
`Pages` and stays there, since a page that is left is unmounted with its state.

The API side of a page is what its handlers answer, as one step each: they are
single statements, except for the few pairs (count, then write) that are steps
of their own. Names, text and layout are model values; `PAGE`-sized lists, ages
in days, 300 s units of time and heights in units of 24 px stand for the data
the properties tell apart.

The properties of `MCPages` are conjunctions over pages that ask one question:

| Property | Conjuncts (module) |
|---|---|
| `ShownIsHeld`: when everything has come back, a page shows what the API holds | `SheetShowsTheRow` (ShareSheet), `CardListsTheGrants` (InvitedPeople), `BulkRowsAreCurrent` (BulkActions), `UsersAreCurrent` (AdminPages), `TitlesAgree` (ListView), `RevokedStayOut`, `PlanIsCurrent`, `PushIsStored` (SettingsPages), `StripAgrees`, `NeverAheadOfTheApi` (SessionStrip), `SeenWasOnScreen` (SeenMarks), `PaletteFitsTheMode` (ThemeChoice), `GateAgrees` (Shell), `RefusalIsTold` (CommentBox) |
| `AnswersFitTheQuestion`: what is listed, offered or left for is of what was asked last | `RowsOfTheFilter` (AdminPages), `ItemsAreOfTheQuery`, `LoadingIsOut` (FeedPage), `OneMachinesOffer`, `LeavesForAnAgent` (NewSession), `AskedIsShown` (Sidebar), `EnterRunsAListedRow` (CommandPalette), `GateOpens` (Shell), `ReplayIsFound` (LandingReplay) |
| `OneRequestEach`: nothing is sent twice | `OneRenamePerRow` (ListView), `OneAnswer` (SessionPage), `OneRemovalPerItem` (SettingsPages), `OneSwitchOut` (SessionStrip), `SentOnce` (CommentBox) |
| `ListsAreWhole`: each thing once, all that passes the filters | `RowsAreListedOnce` (SessionRows), `GroupsShowEveryRow` (ListView), `SectionsPartition` (FeedPage), `FindsSubsequences` (CommandPalette), `EveryTypistIsCounted` (CommentBox), `ReplayIsShort` (LandingReplay) |
| `RowsFitTheEvents`: the transcript's rows say what its events say | `FoldIsPartition`, `RunsAreMaximal`, `RowsAreNamedOnce`, `PaintedIsCurrent`, `WaitingIsNotBusy`, `ReviewedIsTheLastCall` (TranscriptRows) |
| `ScreenKeepsUp`: scroll, popover and focus stay where they are looked for | `PillMeansMore`, `FollowIsKept` (TailFollow), `PopoverStaysInView`, `FocusIsHandedBack`, `KeysStayInTheMenu` (Popover) |
| `StepsAreAskedFor` (steps): nobody is moved, and nothing saved or revived, unasked | `LeavesTheDeleted` (Sidebar), `EscapedIsNotSaved` (ListView), `BellNeverGoesBack` (NotificationBell), `SeenNeverFalls` (SeenMarks), `DrawerStaysBehind` (Shell) |
| `TranscriptIsTheLog` | SessionPage: once caught up the page holds the log, each event once, through loads, drops and echoes |
| `LiveIsFollowed` | SessionPage: a page that calls the session live follows it, or says that it does not |
| `BrowsingSkipsNothing` | FeedPage: no session is skipped or repeated while others are published and withdrawn |
| `NarrowedIsOffTheFeed` | ShareSheet: a session narrowed below Public is not left on the feed, whichever half of which change failed |
| `AdminsRemain` | AdminPages: revoking admins one after another stops at the last |
| `PollsCatchUp` (liveness) | rows, sidebar, machines, bell, badge and typers come to what the API holds and stay there |
| `EndIsShown` (liveness) | SessionPage: an ended session is shown as ended, or the page says it lost it |

`PROJECT.json` lists one mutated form per property. Conjuncts other than the one
it breaks have a mutated form of their own (named `Definition_What`, beside the
definition in their module), and each of these breaks its conjunct.

Where the code lets a property fail in a narrow case, the property names the
case in its guard and section 8 lists it.

## 7. Runs

| Run | Instance | Distinct states |
|---|---|---|
| `session_log` | 2 emits, 2 enders, limit 2, fair | 1,226,454 |
| `live_stream` | 2 emits, 1 ender, 1 viewer, 2 connections, limit 3, fair | 692,175 |
| `quota` | 1 owner, 3 session ids, 3 transactions, a licence that comes and goes | 508,818 |
| `quota_live` | 1 owner, 2 ids, 2 transactions, exemptions and licence, fair | 85,100 |
| `pages` | all 26 pages | 1,735,243 |
| `pages_live` | the 7 pages that poll, stream or time out, fair | 347,073 |
| `licences` | 2 calls, 1 payment of 2 products, 3 devices, 4 mixes of kinds, days of 3 hours | 725,082 |
| `stop_twice`, `delete_trace` | 1 emit, 2 enders | each violated: see findings |
| `stream_quota_end`, `stream_gap` | smallest that shows it | each violated: see findings |
| `quota_pro` | 1 owner, 1 id, 1 transaction | violated: see findings |

Bounds. The number of calls is the only bound of `SessionLog`; `MaxConnects`
bounds reconnects. Two emits are what seq collisions, out-of-order pushes and a
crossing behind another emit need (with the quota note a run allocates up to
four seqs); two enders are what stop against stop, stop against delete and reap
against quota end need. Every pair of operations of the component races in
`session_log`, cancellations and crashes included. Viewers do not interact with
each other, so one is enough. `Limit` 2 lets the second of two emits cross while
the first may already be past or before its own append. In `live_stream` the
limit is out of reach: crossings race enders in `session_log` and a viewer in
`stream_quota_end`. `stream_gap` has two connections, of which the second is the
reopened one. Runs of liveness use no symmetry; those of
safety have the calls, the users, the rows acted on in bulk or the machines stand
for each other where nothing orders them.

In `Quota`, `MaxBytes` stops new appends, an id is never used twice, and admins
choose from the sets the configuration names. Each limit is below what the run
can reach: a Free owner may have 1 session and 1 byte, a Pro owner 2 of each,
there are 3 ids and 2 bytes, and 1 session may be live. Two transactions are what a race
of creates or an append against a delete needs, three what a circle of waits
through a third row needs; three ids give a source, a fork of it and one more.

In `pages`, `MaxCalls` 2 requests are out at a time (what it takes for answers to
overtake each other), `MaxFaults` 1 fails and `MaxOutside` 1 change is made
elsewhere in a behaviour: each property is about what one of them does among any
clicks. Lists have 2 or 3 rows with `PAGE` 2 and one page more, so that a row
falls across a boundary; `MaxEvents` 3 gives a transcript with a run, a break
and a late event; `MaxHeight` 6 is three screens; `MaxSends` and `MaxDrafts`
bound comments, `MaxGrants` ids. In `licences` the limits are 1, so that two
calls can pass them; a day has three hours (`DayHours`), so that rows of it can be
purged in two of them; three devices are one more than they can bring; the kinds
of a behaviour are one mix of those that touch the same rows, since kinds that
share none do not interact.

Fairness. `FairSpec` of `SessionLog` and `LiveFairSpec` (run `stream_quota_end`)
say that a goroutine that has a call left makes it (weak fairness per handler).
`ToldSpec` (run `live_stream`) asks less: only that whoever is about to tell of
an end does, and that a stream reads its channel. No request has to arrive, none
has to be cancelled, no page has to connect. Liveness properties therefore
except runs in which a call was cut off: the code offers no retry of its own.
The `FairSpec` of `Quota` is strong for a transaction's steps, because Postgres
serves the waiters of a row in their order: a steady stream of others does not
keep one waiting. Deadlock detection is weakly fair. The `FairSpec` of `MCPages`
says that the API serves, that answers are received and that an open stream
carries what there is (weak), and that timers fire: strongly, because `MaxCalls`
may leave a timer without a slot at times, which the browser does not; and for
the bell, which aborts a request that is out when it sends the next, because its
period is far longer than a request takes. Nobody has to click. CHECK_DEADLOCK
is off where requests, ids or clicks run out.

Mutated forms. Each property of a passing run has a mutated definition
(`Definition_What`) that a plausible slip would produce: the counter's old
value, a table without its UNIQUE constraint, an UPDATE without its status
condition, the buffer dropped before the row, a replay that remembers nothing, a
handler that returns with its subscription open, a create without `FOR UPDATE`,
an early return without its rollback, an answer applied without asking whether
it is still wanted, an event recorded before it is handled. Each breaks the
property it is listed with.

## 8. What the runs found

1. Stop is not idempotent under concurrency: the later of two stops writes the
   archive again with what it read of the buffer, which may lack an event
   pushed between the two reads, or be empty once the other has dropped the
   buffer (`stop_twice`).
2. A delete can leave Redis keys or a file behind for good (`delete_trace`).
3. A session ended by its quota never tells its connected viewers
   (`stream_quota_end`).
4. An event sent while a page has no stream, after a higher seq was loaded, is
   filtered out by both resume mechanisms when the stream is reopened
   (`stream_gap`).
5. A Pro owner's session is ended at the default limit: the append judges by
   another expression than the create (`quota_pro`).

Seen while modelling, and kept out of the runs, whose properties except them:

- API. A viewer whose row read precedes the end and whose subscription follows
  it waits for ever (`stream.go:164` against `src/CONTRACT.md:125`). An event
  whose handler read a live row may be stored after the end (against
  `events.go:37`). A viewer that subscribes between `session_deleted` and the
  removal of the row is never told (against `delete.go:26`). A comment over the
  storage limit is stored and the session goes on (`comments.go:99`, against
  `src/web/content/docs/api.md:140`). Two revokes counted before either is
  written, as when two admins revoke one another at once, leave no admin
  (`stats.go:205-215`): `AdminsRemain` is of revokes that do not race. A switch
  of the model is told to the machines and stored nowhere (`hosts.go:652-728`),
  so the strip's model is lost on a reload unless the capture client reports it,
  which is not modelled. A decision carries no id of the
  request it answers (`decision.go`).
- Licence worker. A resend, by anybody, deletes the rows by which free keys are
  limited to so many a day once they are an hour old (`index.ts:197` against
  237): the limit is then one of an hour, and `OvershootIsBounded` says so.
  Two activations at once pass the limit of devices that its
  README gives, two requests at once may each get a free key, a refund that
  overtakes its payment leaves the key active, and two payments at once stack
  the same year twice (`index.ts:36-50`, `220-243`, `305-315`).
- Session page. Of two comments with one text, a refused one may leave an echo
  (`SessionClient.tsx:78`); replies of the backlog may be announced as new
  (211-212); rows of four or more events are not repainted for a late one
  (`EventStream.tsx:167-196`); Retry after a lost answer sends a comment twice; the
  debounce of `useMarkSeen.ts` marks nothing while events come faster than one a
  second.
- Lists. A filter that hides a row being renamed unmounts it and its refs with
  it, so that the row, shown again with its field open, may send a second rename
  while the first is out (`SessionList.tsx:398-402`, `576-577`): `OneRenamePerRow`
  leaves out requests whose row was hidden meanwhile. The report of what failed
  goes when a later action succeeds (`SessionList.tsx:226`);
  rows hidden by a filter are still acted on; a late poll brings a deleted row
  back until the next; the sidebar's row being renamed is patched from a stale
  copy, and a blur on unmount may save a title that Escape left
  (`WorkspaceSidebar.tsx:366-369`).
- Others. A publication that succeeded and lost its answer leaves the share sheet
  unaware of it: narrowing the session then takes one request, and it stays on
  the feed (`ShareSheet.tsx:153-162`). A push subscription found in the browser is
  taken to be stored at the API, which is not asked (`push.ts:9-13`):
  `PushIsStored` leaves out one of an earlier visit. A failed poll of machines shows
  none, which `HostsContext.tsx:12` reserves for confirmed ones. A feed page that
  failed is asked for again at once (against `Feed.tsx:106`). The quota form
  labels an old limit (`admin/users/page.tsx:229-230`). `settings/page.tsx:119`
  says notifications are on before they are stored. A popover is placed before it
  is measured, and so may leave the viewport (`Popover.tsx:57-90`). A link to the
  same path does not close the drawer (`AppShell.tsx:47`), and a key may open an
  inert dialog over it (60-70). A failed `/api/me` shows the landing to a
  signed-in visitor.

Not a finding but worth knowing: `CirclesInvolveForks` is as strong as it gets.
Forking one's own live session can deadlock with an append to it, and the one
Postgres picks is answered 500.

## 9. Proofs

All are for any values of the constants, finite or infinite, within the named
assumptions of each module. Besides the modules' own, the pages assume of the
model value `Nothing` and of the accounts that they differ from what they stand
beside (`SessAssumption`, `AdminAssumption`, `AnswersAssumption`,
`SideAssumption`, `ComposerAssumption`, `InvitedAssumption`,
`SettingsAssumption`, `StripAssumption`, `ThemeAssumption`,
`PopoverAssumption`, `NewAssumption`, `ReplayAssumption`). `BrowserAssumption`
says that the bounds of section 7 are natural numbers, of requests at least one.

**`SessionLog_proofs`** (assumptions `LimitAssumption`, `CallsAssumption`):

| Theorem | Statement |
|---|---|
| `TypeCorrect` | `Spec => []TypeOK` |
| `FreshSeqs`, `BufferPersisted`, `CountExact`, `ReplayComplete`, `EndsOnce` | the five safety invariants of section 3 |
| `Invariant` | `Spec => []Inv`, the inductive invariant |
| `Refinement` | `Spec => ImplementsLedger` |

Why an invariant stronger than the properties is needed. That seqs are fresh
depends on the counter being ahead of the log, which is true only while nobody
may have dropped the counter. `SeqsAhead` states it for a live session;
`RowBeforeKeys` says that whoever is about to drop keys has moved the row
first, so dropping never happens in a live session, and no status ever returns
to live. After the end the counter may restart at 1 and seqs may collide: then
the UNIQUE constraint refuses them, so what reaches a push is new
(`PushesAreNew`), and that gives `BufferIsPersisted` for ended sessions too.
`EndedOnce` carries the outcome. `IInv` adds that the log is bounded
(`LogBounded`), which the maximum in `MaxSeq` needs. The proof takes the actions
in groups by effect: few change the row, few the counter, few a given emitter
(`RowStep`, `CounterStep`, `EmitterStep`), and each conjunct is preserved from
those facts.

**`LiveStream_proofs`** (the same, and `ConnectsAssumption`):

| Theorem | Statement |
|---|---|
| `NothingIsSentTwice` | `LiveSpec => []NoDuplicateSend` |
| `NothingIsMissed` | `LiveSpec => []NothingMissed` |
| `LiveTypeCorrect` | `LiveSpec => []LiveTypeOK` |

A stream's two sources, the buffer and the channel, overlap, and neither is in
seq order; so the invariant `LInv` says of each viewer where every event is.
`Sent`: nothing was sent twice, and what is left to replay was not sent yet.
`Channel`, of a subscribed connection: an event waits in its channel once; one
that nobody has pushed yet is nowhere on it, one that nobody has published yet
is not in its channel, and one that was sent and may still come by the channel
is in `seen`. `CarriesTheLog`: whatever a connection carries is stored.
`NoneMissed`: `NothingMissed` from the reading of the buffer on, when what is
still `unsent` counts.
All of it rests on emitters holding different seqs (`EmittersDiffer`) and on
`IInv` of the session. A step of the session changes nothing of a connection but
its channel (`SessionMoves`, `ChannelStep`); a step of one viewer leaves the
session and all other viewers as they are (`ViewFrame`, `LogKept`,
`OthersKept`); so each action has one lemma (`...Keeps`).

**`Quota_proofs`** (assumptions `LimitsAssumption`, `RowsAssumption`):

| Theorem | Statement |
|---|---|
| `TypeCorrect` | `Spec => []TypeOK` |
| `CreatesAdmitted` | `Spec => []CreatesStayAdmitted` |
| `LimitsRespected` | `Spec => CreatesRespectLimits` |
| `MeterExact` | `Spec => []MeterIsExact` |
| `CirclesForkHolds` | `Spec => []CirclesInvolveForks` |

That an insert stays within the limits says nothing of the counts made two
statements earlier, so the invariant carries them: `Admitted` says that a create
past its lock holds its owner's row, that the room it found is still there and,
after the counts, the slots too. `Keeps` is what a step must leave of an
account for that to go on being true. `StepShape` reduces every action of a handler
to a few effects (it is refused, takes a lock, or commits one of the writes), and
`OthersKeep` shows of each that it keeps an account whose row another handler
holds: an append must take that row before it charges it, another create before
it adds to it, an admin's override waits for it, and a delete only
lowers what is used. The licence is under no lock, so the invariant speaks
of the plan that was read, and the property of a plan
that was held then. `RowsOwned` and
`AtWork` say that what is stored, and what a handler works on, has an owner.

The meter is a sum over a set, which the community modules define by recursion
over its subsets. `SubsetInduction` is the absence of a smallest counterexample
among the subsets of a finite set; from it there is one such function
(`SumUnique`), a sum takes one element more or less (`TotalOut`), and does not
change with a function that agrees on the set (`TotalSame`). `MeterExact` and
`CirclesForkHolds` need `WorkInv`: a handler past its first lock works on a row that exists and is its
user's (`OnItsRow`), no two handlers are about to insert the same row
(`CreatesApart`), a row not yet inserted holds nothing (`NewRowsAreEmpty`), and a
handler holds rows only where it may (`Holds`). The last gives the deadlocks: a
handler that neither forks nor gives forks back and both holds and waits holds a
session and waits for a user, so no other such handler holds what it wants.

**`Licences_proofs`** (assumptions `LicencesAssumption`, `NoneAssumption`):

| Theorem | Statement |
|---|---|
| `OneKeyPerProductHolds`, `HandledIsSentHolds`, `OvershootIsBoundedHolds` | `Spec => []` of the property |
| `TakenBackIsFinalHolds` | `Spec => TakenBackIsFinal` |
| `TypesHold` | `Spec => []TypeOK` |

That a recorded payment has its keys needs to know how far an unrecorded one has
come: `Progress` says, by the step a delivery is at, that each product of its
cart has a key or is still in the cart, then that the keys it carries cover the
cart, then that they were sent. Keys are looked up by payment, product and id,
never by row, since a refund replaces rows meanwhile. `Places` says which steps a
kind of call goes through. `OvershootIsBounded` is inductive only with the calls
between a check and its count added (`Bounded`): the count and the calls past
the check together exceed the limit by less than the number of calls; the rows
that were erased and those that are older than this hour are together no more than
the hours that are over allowed. The ids
of keys are cardinalities, so their types (`TInv`) rest on a new key's number
being above all others and on a stacked year being counted once per key.

**`Pages_proofs`** (assumptions `BrowserAssumption`, `SessAssumption`):

| Theorem | Statement |
|---|---|
| `NarrowedOffTheFeed` | `Spec => []NarrowedIsOffTheFeed` |
| `LiveIsAlwaysFollowed` | `Spec => []LiveIsFollowed` |
| `TranscriptIsAlwaysTheLog` | `Spec => []TranscriptIsTheLog` |

`Spec` is that of `MCPages`, all pages at once. `PagesStay` and `NextOn` cut it up: a
step leaves the page it is on, and is one of that page or a failure of a
request. Lemmas about `Browser` then say what starting, answering, failing and
receiving a request do to the slots (`StartEffect`, ...). For the share sheet,
`ShareInv` says that one change is out at a time, and what it leaves on the
feed while it is: a patch that is out keeps a published session Public or Open
(`KeepsTheFeed`), an answer that is in is the row (`IsTheRow`), so the second
request of a narrowing is sent only after the session is off the feed. A change
that failed leaves the sheet behind the row, but not unaware of a session that
is on the feed, unless it was the one that published it.

That the transcript is the log at rest needs to know what it is meanwhile:
`Transcript` says that it is in order, shows every event up to the last one it
has, and beyond them nothing but echoes. Loads, the stream and reconnects
overlap, so `CallFits` bounds a load by what was shown when it was asked for,
and `pos` of the stream by what is shown: then an event that comes is one that
is there or the next one. That no echo is left over is a matter of counting, since an
echo is matched by its text and not by its request: the echoes are no more than
the comments that are out plus those of the log not got to (`Owing`); serving a
comment moves it from the one to the other, and each that arrives takes an echo
with it. `AddEvents` is a fold; the lemmas on `Adding` unfold it by induction,
those on `Tidy` say what placing and removing an event leave. `InOrder` ends it: events in
strict order that are all of 1..n are 1..n.

The module also has the permission bar's part of `OneRequestEach` (`AnswersHold`,
`AnswersAreOne`). That no request is answered twice is not inductive: the bar is
of the newest event, and a new one has both buttons. `AnswerFits` adds that a
request that is answered, or whose answer is out, is spent: an event comes after
it, or the bar is its own and is busy or done (`Spent`). A spent request stays so
(`SpentStay`): events only come after what is shown, since all up to the last is
shown already, and a render keeps the bar of a request that is still the newest.
A comment that was taken back would uncover it, which is why `OneAnswer` is not
claimed after one.

**`PageSteps_proofs`** (assumptions `BrowserAssumption`, `SessAssumption`,
`SideAssumption`, `ComposerAssumption`):

| Theorem | Statement |
|---|---|
| `OneRequestEachHolds` | `Spec => []OneRequestEach` |
| `StepsAreAlwaysAskedFor` | `Spec => StepsAreAskedFor` |

Eight pages, each with an invariant that ties what is out to what the page has
marked of it; `OutTaken`, `OutSettled` and `OutLeft` say what a request that is
sent, settled or received does to the requests of its kind. A rename out is of a
row that is saving, unless a filter hid the row (`lost`), and the row Escape left
is cancelled (`ListBody`). A removal
out is of an item that is on the list and busy, none is out while the list loads
(`AppsBody`). A switch of the model that is out is the only one (`StripBody`). A
message is in one place: the field, a request, the offer to send again, or the
session (`BoxBody`). The sidebar has one confirmed question out, and while nobody
moves it knows whether its row is being viewed (`SideBody`). The bell's answer is
between its list and what the API holds (`BellBody`). The last two are action
properties with little to carry (`SeenBody`, `ShellUi`). `PageStepInv` is the
conjunction of all, with `AnswerInv`.

**`PageShows_proofs`** (assumptions: those of `PageSteps_proofs`, and
`PopoverAssumption`, `ThemeAssumption`, `InvitedAssumption`,
`SettingsAssumption`, `StripAssumption`):

| Theorem | Statement |
|---|---|
| `ScreenAlwaysKeepsUp` | `Spec => []ScreenKeepsUp` |

`ScreenKeepsUp` is of two components. `TailBody` says of the scrolling what is
true while a render, its effect and the scroll event it causes are still to
come: the ref is never ahead of the state, and a page that is not at the bottom
and says it is has a smooth scroll on its way down. `PopoverBody` and `MenuBody`
tie where a popover is to what it was measured at, and the focus to the items
that can have it.

The module also has the invariants of ten pages that `ShownIsAlwaysHeld`
gathers. Each says what is true of the page's state while requests are out, from
which what it shows at rest follows. Three kinds recur:

- An answer that is in is what the API holds, or what it will be when the ones
  out are in: `InvitedBody` and `BulkBody` where the visitor does one thing at
  a time (`crossed` is set when not), `PlanBody`, where the two parts of a load
  may be of two moments, and `ListShows`, where a list that is out is current
  unless a rename is out.
- The page is behind the API and never ahead of it: an ended or deleted session
  is shown as such only when an answer said so (`StripShows`); what is marked
  seen was on the screen, also by a mark that is out (`SeenShows`); a
  subscription is stored, is being sent or was found in the browser (`PushBody`); the gate follows the
  cookie, and a sign-out that is out is the only difference (`GateShows`).
- What was settled stays so: an item that was removed is not on a list, nor on
  one that may still come (`AppsShows`); a message that is not in the log is
  offered again or out (`BoxShows`); the palette of the theme is of the saved
  mode, once what is queued has run (`ThemeBody`).

**`PageAnswers_proofs`** (assumptions: those of `PageShows_proofs`, and
`AnswersAssumption`, `NewAssumption`, `ReplayAssumption`):

| Theorem | Statement |
|---|---|
| `ShownIsAlwaysHeld` | `Spec => []ShownIsHeld` |
| `AnswersAlwaysFit` | `Spec => []AnswersFitTheQuestion` |
| `FeedSkipsNothing` | `Spec => []BrowsingSkipsNothing` |

- Admin users (`UsersBody`). `me` is asked for alone and then the users, so
  until they have come nothing can be changed. From then on `RowsFit`: each field of each
  row is the API's, unless a change of it has been written and its answer is
  out, and that answer is the API's. One change of a field is out at a time.
- Feed (`FeedBody`). One page of the query in force is out exactly while the
  page says it loads. `Browsed` is the property with the cursor in it: what was
  published when browsing began and still is has been listed or is below the
  cursor. The list changes between the API's answer and its receipt, so
  `Brought` says of a page that has come back: it has all that is below the
  cursor it was asked with, or a cursor of its own above the rest. It survives a
  publication because a new session is above every cursor, and a withdrawal
  because nothing is then added. The feed descends (`Descends`), so a page leaves
  out only what is below its last row (`PageIs`), and `AddedOnce` says what
  adding a page to the list does.
- New session (`NewBody`): what is picked is of the machine that is chosen, and
  the form is disabled exactly while a start is out or the page is left.
- Sidebar (`SideShows`), palette (`PaletteBody`): what is up, and what the
  highlight may point to, are of the rows that there are.
- Landing (`LandingBody`): one session is asked for at a time; those tried before,
  while nothing failed and nobody hid a session, cannot be read or are not worth
  showing (`TriedInVain`), so a landing that shows none has none to show.

What a page keeps of a list is `Sifted`, defined by ranks: the number of
positions kept up to each one. `KeepsAt` and `SiftedIs` show, with the
cardinalities of finite sets, that it has each kept element, in its order and
nothing else.

Left to TLC, and why: every liveness property, since fairness and ENABLED are
beyond the prover; the violations; `ListsAreWhole` and `RowsFitTheEvents`, which
are about what folds and `SelectSeq` compute and would need an induction over
data; and `PagesTypeOK`, the types of all the pages at once. The invariants above
have those of about half of the pages in full (the lemmas `...Holds` conclude
`InvitedTypeOK`, `BulkTypeOK`, `AdminTypeOK`, `NewTypeOK`, `SideTypeOK`,
`ListTypeOK`, `StripTypeOK`, `SeenTypeOK`, `ThemeTypeOK`, `PaletteTypeOK` and
`LandingTypeOK`); those of the polled rows, the transcript and the shell's
dialogs are of what folds and `SelectSeq` return, and the rest is not stated alone.

## 10. Not modelled

- Agent feed: the pending queue, the agent's stream and presence, a handful of
  single Redis commands on keys that expire; the page's side is in `SessionPage`
  and `CommentBox`. Hosts' own stream and TTLs, likewise (`NewSession` has what a
  page sees of them). Device login, refresh-token rotation and the Google
  exchange: single commands on keys that expire, and an external service.
- The push service, redaction and digests (pure text), Markdown summaries,
  migrations, configuration, statistics and listings (read-only), the CLI hooks
  (separate processes that call the API).
- Of the pages: the information panel, the replay and story readers, profiles
  and documents, prior context, which render what they are given; phones' tab
  bar, the collapse of a run, announcements and the chime, the focus order in
  the drawer, a screen resized across it; the replay's cache of ten minutes.
- Of the licence worker: the years a key has run, keys issued for a number of
  days, the limit on the caller's address, the thank-you page.
- Of the stream: watcher presence, heartbeats, and what go-redis may lose
  (section 4).
