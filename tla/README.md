# Bedrud: a verification project

TLA+ models of Bedrud, a self-hosted meeting server and its web client. The
server (`src/server`) is one Go process (fiber, gorm on SQLite or Postgres) beside
an embedded LiveKit media server; the web client (`src/apps/web`) is a React
application whose tabs keep a login session against that server and, during a
meeting, a chat, a stage and a whiteboard among themselves over LiveKit's data
channel. The modules here model the parts of both whose correctness depends on
interleavings, message order, crashes, interruptions and retries; TLC checks them
on small instances and TLAPS proves the main invariants for every value of the
constants.

## 1. Inventory

Paths are relative to `src/server/internal`, or where they start with `web/` to
`src/apps/web/src`.

| Component | State it keeps | Operations | Talks to | Correct when |
|---|---|---|---|---|
| Job queue (`queue/`) | `jobs` table; goroutines of one `Worker` | `Enqueue`, claim, `handleJob`, `mark*`, `recoverStaleJobs`, `CleanupJobs` | called by handlers; calls job handlers | no duplicate unfinished job, one goroutine per job, bounded retries, every job settles, done only after success |
| Room lifecycle (`handlers/room.go`, `repository/room_repository.go`) | `rooms` table; media room of the same name | create, join, settings, reactivate, delete, close, suspend (and bulk forms) | LiveKit API, job queue | active names unique, quota, a room's call belongs to the room |
| Room jobs (`services/room_cleanup.go`, `queue/handler_room_*.go`, `queue/handler_user_delete.go`) | none of its own | archive, purge, suspend, remove a user's rooms | LiveKit, rooms, uploads, WebXDC data, recordings | a purge removes, an archive keeps, a user's rooms go with the user, in any order, when retried and when cut short |
| LiveKit webhooks (`handlers/livekit_webhook.go`) | none | `room_finished`, `participant_left`, egress events | rooms, participants, recordings | late, lost and duplicated events do no harm |
| Scheduler (`scheduler/scheduler.go`) | timers | expiry, idle sweep, queue and token clean-up, guest and unverified accounts, retention, certificates | LiveKit, every table | a sweep acts on what is true when it acts |
| Participants and moderation (`repository/room_repository.go`, `handlers/room.go`) | `room_participants`, `room_permissions` | join (capacity), guest join, token refresh, kick, ban, stage, promote | LiveKit | capacity, a banned user stays out |
| Web session (`auth/`, `handlers/auth_handler.go`, `repository/user_repository.go`; `web/lib/api.ts`, `web/lib/auth.store.ts`) | a user's refresh token, blocked tokens; the browser's cookie and localStorage, each tab's tokens and requests | login, load, request, refresh, logout, password change | REST API | a refresh token is used once, none survives a password change, tabs do not throw each other out, no request hangs |
| Meeting stage (`web/components/meeting/stage/`) | each participant's copy of the stage; a publish queue | claim, clear, share the screen, playhead sync, request, answer | LiveKit data channel | one owner, everybody sees what it put there |
| Meeting chat (`web/components/meeting/MeetingContext.tsx`, `chat/`) | each participant's log, reassembly buffers, reactions, votes | send, retry, receive, react, vote, reload | LiveKit data channel | a message is shown once and whole, and what is marked sent has been shown |
| Whiteboard (`web/components/meeting/whiteboard/`) | each participant's Yjs document; a publish queue | open, draw, sync, receive, close | LiveKit data channel | all documents converge |
| Mini-apps (`web/components/meeting/webxdc/`, `webxdc/`) | an update log, a status queue | install, post, listen | LiveKit, REST API | no update is lost |
| Recording (`services/recording_service.go`, `queue/handler_process_recording.go`) | `recordings` | start, stop, egress events, processing, retention | LiveKit egress, storage, queue | one recording at a time, a status never goes back |
| User administration (`queue/handler_user_delete.go`, `handlers/users.go`) | `users` | ban, promote, delete a user and the user's rooms | queue, rooms | all of it happens, though it fails half-way |
| Chat uploads, invites, settings, outbound webhooks, e-mail | a table each | upsert, delete, send | storage, network | quotas, one use of an invite |
| Pages of the web client, desktop, mobile, bots, CLI, installer, docs site | local | user interface, packaging | REST API, LiveKit | not modelled |

What is hard on the server: most handlers are sequences of database statements and
LiveKit calls with nothing around them; rows are read, changed in memory and saved
whole (`db.Save`); LiveKit is addressed by room name while rows have ids; jobs are
retried from the start; the scheduler decides on snapshots. What is hard in the
client: the tabs of a browser share a cookie and nothing else; the meeting has no
server-side state, so participants agree by messages alone, which nothing orders
between two senders; every sender has a queue with its own retries, and a
reconnection resets it while a publish is still awaited. The list in `PROJECT.json`
under `hazards` names each place and the property that covers it, or why none does.

## 2. Modules

| Module | What it is |
|---|---|
| `JobLedger` | what the queue promises: accept at most one equal open request, effects while open, complete only after an effect |
| `JobQueue`, `JobQueueProofs` | `queue/queue.go` and `queue/worker.go`: each database statement a step, crash, restart, lost updates |
| `Rooms`, `RoomsProofs` | rooms table, LiveKit rooms by name, the jobs on rooms and the deletion of their owners, create/edit/webhook/sweep steps |
| `RoomParticipants`, `RoomParticipantsProofs` | the `room_participants` rows of one room, its LiveKit tokens and its call: joins, refreshes, kicks, bans, webhooks, closing |
| `WebSession`, `WebSessionProofs` | the login session of a browser's tabs and the server's rotation of its refresh token |
| `MeetingStage`, `MeetingStageProofs` | the stage, a register replicated over the data channel |
| `MeetingChat`, `MeetingChatProofs` | messages in packets, their retries and reassembly, reactions, votes |
| `WhiteboardSync`, `WhiteboardSyncProofs` | the Yjs provider over the data channel |
| `Filter`, `FilterProofs` | JavaScript's `Array.prototype.filter`, which the stage's queue and the chat's retry loop use, and what it keeps |
| `MC*` | the definitions TLC needs for an instance of each |

`JobQueue` is shown to implement the contract `JobLedger` states. `Rooms` has a
`jobs` table of its own, because what its properties say depends on the queue's
failures: it keeps the claim, the attempts, errors, lost updates, and the restart that
recovers some of the active rows (those old enough), and leaves the clock, the depth
and the dedupe index's interleavings to `JobQueue`.
`RoomParticipants` refines what `Rooms` calls the members of a call
for one room. The three meeting modules share one environment, LiveKit's reliable
data channel as `web/lib/livekit-publish.ts` uses it, and no state; each has its own
queue and its own answer to an interruption, which is why they are three.

### 2.1 JobQueue

`status`, `key`, `attempts` are columns of the `jobs` table; `due[j]` is
`run_at <= now` and `aged[j]` is `updated_at < now - 10min`, the only two
comparisons with the clock. `pc`/`want` are callers inside `Enqueue`, `wpc`/`held`
the goroutines of `Worker.run`.

- `Enqueue` is `CountDepth`, `CheckDuplicate`, `Insert`, `EnqueueFails`: three
  statements, so that two callers interleave between them. `IndexAllows` is
  `idx_jobs_active_dedupe`. A JSON error is `EnqueueFails`.
- `Claim` is one UPDATE with a subquery (`SKIP LOCKED` on Postgres, one goroutine
  on SQLite, where the server forces `concurrency` to 1). `ClaimLost` is its
  UPDATE without the read that follows. `run_at` order among equal priorities is
  left open.
- `HandlerReturns` covers success, error, panic and deadline (all errors) and an
  unregistered type; `MarkDone`, `MarkError`, `MarkPermanentFail` are the updates,
  `MarkLost` one that fails.
- `Crash` is a kill or a `Stop` (which does not wait for jobs); `Start` runs
  `recoverStaleJobs` once, `StartUnrecovered` is its UPDATE failing.
- `Cleanup` deletes settled rows (the age of seven or thirty days is not a
  condition here: any settled row may go).

`JobLedger` is reached through `outcomes` (pending and active are "open") and the
history variable `ran`, the rows whose handler returned nil at least once.

### 2.2 Rooms

`room[r]` is a row or `NoRow`, with `name`, `owner`, `is_active` and whether
`deleted_at` is set. `media` and `call` are LiveKit's rooms, by name; the members
in `call[n]` are represented by the row they joined. `finished` holds the
`room_finished` events on their way, `hook` a row the webhook handler has looked up
and not yet deactivated. `jobs[i]` is a row of the `jobs` table (its kind, what it is
about, status, attempts; done rows leave); `wjob`, `wtodo`, `wended` are a worker's
job, the rooms it has listed and not settled, and those whose call it has ended. `cpc`,
`epc`, `spc` are creations, settings or reactivation requests, and the idle sweep.
`maker` is history: who created the room of an id.

- Creation: `CheckQuota`, `CreateMedia`, `CreateRow` or `CreateRowFails` and
  `UndoMedia`. `CreateRow` is the repository's transaction; name taken, name
  invalid and a database error all end in `CreateRowFails`.
- Editing: `ReadForSettings` or `ReadForReactivate`, `SaveRow`, `SyncMedia`.
  `Save` is gorm's `db.Save`: it writes every column, and inserts the row again
  when the UPDATE hits none; the insert turns a false `is_active` into its
  column default, true.
- Jobs: `Request` accepts a job (`Duplicate`: archives, purges and deletions have a
  dedupe key; suspends have none, so two of one room may wait and run side by side).
  `Fetch` claims it, counts the attempt and lists what it is about (`Targets`): the
  room, or for a `user_delete` all rooms of the owner; a missing room completes the
  job, and for a suspend is an error (`FetchFails`). `EndMedia` ends the call of the
  name that was read; a failed call is passed over. `SettleRow` wipes, archives or
  idles the row. `SkipRoom` is `DeleteUserRooms` going on after a room that failed.
  `CompleteJob` is `markDone`, `JobErrs` an error or a panic (pending again, or failed
  for good), `MarkLost` a mark whose update fails: the row stays active.
- `Restart` is a crash and the start after it. It makes any subset of the active rows
  pending: those that are ten minutes old. The others stay active with nobody on them.
- LiveKit: it creates a room when somebody joins one that is not there
  (`auto_create`), closes an empty one after a timeout, and sends `room_finished`.
- Scheduler: `Expire`, and `SweepList`, `SweepCount`, `SweepIdle`, `SweepRecheck`
  for one room of a pass at a time.

Abstracted: participants, capacity and bans (section 2.3); grace period and
`IsPersistent` (a room of the model is one the sweep may look at); a sweep's
snapshot of `ListRooms` is taken room by room; join tokens that outlive the room;
uploads, WebXDC data and recordings of the room; duplicated webhooks; another
process that edits the database (`roomcli`, `usercli`). Of a deleted user only the
rooms are kept, not the account: a creation that is in flight when the job lists the
rooms survives it, as in the code, and one that begins later is let through, whether
or not the handlers would still know the user. Rooms are asked for while ids are left
(`IdsLeft`). Recording repositories are nil in the server's wiring,
so no room has an active recording and retention, which would remove rooms too
(`scheduler.go:204`), does not run.

### 2.3 RoomParticipants

One room. `rows`, `active`, `banned` are the identities that have a row in
`room_participants`, with `is_active`, with `is_banned`; `open` and `public` are
the two columns of the room's row the handlers look at. `token` is who holds a
LiveKit token that has not expired, `call` who is connected, `left` and `finished`
the `participant_left` and `room_finished` events on their way. `db` is chosen
once: on `"sqlite"` the pool has one connection (`database.go`), so nothing else
reaches the database while a transaction is open (`Reachable`); on `"postgres"`
the statements of `AddParticipantWithCapacityCheck` interleave with everything.

- Join: `JoinRoom` or `GuestJoinRoom` reads the room, `JoinPrivate` and
  `GuestBanCheck` are the checks before the transaction, `JoinCount`,
  `JoinLookup`, `JoinCommit` the transaction's count, its lookup and its write and
  commit, `JoinAnswer` the LiveKit token. `JoinFails` is an error after any step.
- Refresh: `RefreshLiveKitToken`, `RefreshBanCheck`, `RefreshMember`,
  `RefreshAnswer`. The two ban lookups go on when they fail (`bErr == nil &&
  banned`), which costs a fault in the model.
- Moderation: `Remove` is LiveKit's `RemoveParticipant`, `ModerationWrites` the
  update after it, whose failure is ignored. A kick is `Vacate`, a ban `Ban`; the
  command line's `room kick` writes what a ban writes.
- LiveKit: `Connect` with a token, whatever the rows say; `Disconnect`; `Renew`,
  because LiveKit refreshes the tokens of connected clients; `Expire`;
  `MediaCloses`. `ParticipantLeft`, `RoomFinished`, `SuspendRoom` (with
  `SetRoomIdle` and `SuspendVacates`), `Reactivate` and `RecreateMedia` are the
  webhooks, the job and the request that close and reopen the room.

Composition with `Rooms`: `open` is `is_active` of one row there. Only what that
module does to one room's `is_active` in the order the handlers do it is kept
here; whether the row is archived, renamed or overwritten is its subject.
Abstracted: who may moderate (any identity in the call may be kicked or banned,
as an administrator or the command line can); changes of `maxParticipants` while
the room is in use (after one, the room may hold more than the new limit); the
insert of a guest's `users` row; stage, roles, mute and approval. The command line
is a second process with its own connection; its one write is taken to wait for an
open transaction on SQLite, as a statement of the server does.

### 2.4 WebSession

Pairs of an access and a refresh token are numbered as they are issued; 0 is none.
`stored`, `blocked` and `revoked` are the server's `users.refresh_token`, the blocked
refresh tokens and the revoked access tokens; `cookie` and `local` what the tabs of
the browser share, `tokens` and `ready` what each keeps (`auth.store.ts`). `call` are
the API requests a tab has open, `refresh[<<t, w>>]` its request to refresh:
`refreshPromise` (`"call"`) and that of `initialize` (`"init"`). `parent` and `era`
are history: the token a pair was exchanged for, and the password changes before
the login it goes back to.

- Server: `Validate` is `ValidateRefreshToken`, `Block` and `Swap` the two statements
  of `RotateRefreshToken` (the second a compare-and-set), `RefreshBreaks` a failed
  statement, a lost answer or a network that is down. `LoginElsewhere` and
  `ChangePassword` write `users.refresh_token` in one statement.
- Tab: `Load`, `InitEnds` (`initialize`), `Login`, `Get`, `Logout`, and their ends:
  `GetAnswered`, `LogoutAnswered`, `LogoutFails`, `Unauthorized` (a 401, which starts
  or joins the tab's refresh), `Refreshed` (what waited is sent again, with the body it
  had), `Redirect` (the page is loaded anew), `LogoutLocal`.
- `Expire`: an access token runs out.

Abstracted: a remembered login of a registered user (a guest has no refresh, an
unremembered one keeps tokens in `sessionStorage`); two tokens are never the same
string; a request other than the refresh is answered in one step; a tab that logs out
has no other request open; requests start a refresh only while the bound on pairs
leaves room for one; passkeys, OAuth, e-mail verification, bans, the access-token
cache.

### 2.5 MeetingStage

Each participant's `stage` is `stageRef`; `now` is the clock that stamps claims;
`queue`, `publishing`, `sending`, `retry` are `publishQueueRef`, `publishingRef`, the
`publishData` calls that are awaited (more than one after an interruption, which
forgets a drain that is still running) and the retry timer. `chan[p][q]` is FIFO;
nothing orders different senders. `notice` are LiveKit's presence events, `pushing`
the delayed push to a newcomer. `share` is the local screen track: off, starting (the
picker is open), on, stopping. One that starts after a stage of another kind has come
is `late`: the effect that stops tracks depends on the stage, which has not changed
again, and the button does not look. `ending` is a toggle that awaits the end of its
track and then clears whatever stage is its own. `latest` is history: whose claim is
the newest, until it is given up or overtaken by a screen that is published anew, for
the republication stamps only the packet.

- Local: `Claim` (`claimStage`, allowed on an empty or own stage), `Clear`,
  `StartShare`, `ShareStarts` (which republishes an own stage), `ShareFails`,
  `StopShare`, `TrackEnds`, `SyncPlayhead`. Whatever changes the stage object, a
  playhead sync too, runs the effect again and stops a late track.
- Queue: `Sent`, `SendUnavailable` (kept for a retry), `SendDropped`, `DrainRetry`.
- Remote: `Receive` is one packet: a set is taken when it is not older than the stage
  shown, a clear when it comes from the owner, a request is answered by the owner.
- Connection: `Join`, `Leave`, `Interrupt`, `Ready`, `Notice`, `PushDue`.

Abstracted: clocks agree and no two claims have one stamp; `stage_state` and
`stage_set` are one message, as they are applied alike; the queue's cap of 20 is out
of reach; the request 1.5 s after mounting is folded into that of `Ready`; a
transport opens within the 30 s it is waited for.

### 2.6 MeetingChat

`log[q]` is what q shows. `pub[<<m, w>>]` are the two publishes a message can have at
once: `sendChat`'s and the retry loop's; each has `part`, the packet it is at, and
`try`, its attempt. `retrying` is the loop's selection, which also is its in-flight
set, `snap` the votes in its copy of a poll, `due` its wait after a reconnection.
`buffers` are `chatChunkBuffersRef`. `pieces`, `gap`, `trouble` are history: of which
chunks a message was put together, who has missed a packet, what has happened.

- Sending: `SendChat` (the local echo first), `WaitEnds`, `PacketSent`,
  `PacketFails`, `PauseEnds` (the second attempt), `RetryPending`.
- Receiving: `Receive` with `ReceivePart` (`ReceiveMeta`, `ReceiveChunk`),
  `ReceiveReact`, `ReceiveVote`. `React` and `Vote` apply locally and publish.
- Connection: `Interrupt`, `Close`, `Ready`, `Reload`.

Abstracted: the caps (400 and 200 messages), age limits and the 120 seconds of a
half-assembled message; a poll fits one chunk; a reaction's or a vote's one packet is
published at once or not at all; React's state and the refs that mirror it agree.

### 2.7 WhiteboardSync

`board[p]` is a Yjs document as the set of edits received: Yjs merges in any order, so
a state vector is that set. `pending` are updates not yet batched; `queue`,
`publishing`, `sending`, `retry` as in the stage; `asks` the timed requests
(`bootstrapSync`), `heads` the chunk buffers by id. A room that is connected
(`linked`) has not yet an open data channel (`up`, the provider's `isRoomReady`).
`outage` and `unserved` are history: whether a peer has asked since its interruption,
and whether packets waited when its channel opened late.

- `Open`, `Draw`, `Flush`, `AskAgain`, `Close`; `Sent`, `SendFails` (the packet goes
  back to the front), `Retry`; `Interrupt`; `Reconnect`, with the channel open (it asks
  and drains) or not yet (both return at once); `ChannelOpens`, of which the provider
  hears nothing; `Receive` with `Handle`
  (a request is answered with what it did not name, anything else is merged),
  `HeadIn`, `ChunkIn`.

Abstracted: a packet `publishData` has accepted reaches every connected peer in order,
and what was on its way to a peer is lost when its connection is interrupted; somebody
who is connected with the channel still closed may or may not get it; the 2 ms
between packets is part of the next send; `Timers` stands for the three timed
requests; awareness (cursors) and the drawing tools.

## 3. Runs

| Run | Instance | Shows |
|---|---|---|
| `JobQueueWhole` | 2 rows, 1 key, 2 producers, 2 goroutines, depth 1, 2 attempts, 2 faults | exclusivity, retry budget, overshoot of the depth cap, settled is final, `JobLedger` is implemented; every accepted job settles or is orphaned by a fault; an orphan ten minutes old at a start that does not fail settles |
| `RoomsNames` | 2 rooms, 1 name, a creator, an editor, a worker with a purge or the deletion of the owner, the sweep, 1 fault | types, unique active names |
| `RoomsJobs` | 1 room, 2 users, 2 jobs of all four kinds, 2 workers, 1 fault | a removed row stays removed; only a purge or its creator's deletion removes it; an accepted purge removes its row, or has failed for good or is stranded; rooms go with their owner |
| `RoomsLive` | 2 rooms, 2 names, 1 user, 2 creations, quota 1, the sweep | the quota is exceeded by at most one (and is); a quiet room goes idle |
| `ParticipantsSeats` | 3 users, 2 joins, limit 1, closing and reopening, 1 fault | the limit holds on SQLite, is exceeded by at most one on Postgres |
| `ParticipantsBans` | 1 user (a guest), 2 joins, a refresh, a moderator, visibility changes, 1 fault | types; a banned row stays inactive on SQLite; no join or refresh passes a ban in the table; who is banned and stays out ends without a token |
| `ParticipantsBanLost` | 1 user, a join, a refresh, a moderator | violated: a ban of somebody without a row does nothing |
| `WebSessionTabs` | 2 tabs, a request each, 3 pairs, one of six troubles | a refresh token is redeemed once; no refresh survives a password change; an undisturbed cookie can be redeemed; every waiting request ends |
| `WebSessionLogout` | 1 tab, 3 pairs, no trouble | violated: a logout that has to refresh first leaves the new token good |
| `StageSettles` | 2 participants, screen share and video, 3 stamps, 1 playhead sync, one of four troubles | claims resolve to one owner; the newest claim stands and everybody shows it; no screen that was on stays shared under another stage; no packet is stuck |
| `ChatDelivery` | 2 participants, 1 message of 2 chunks with a poll, 2 events | a message is shown once and whole; a sent one by everybody who missed nothing; votes settle; a retry delivers |
| `WhiteboardConverges` | 2 participants, 2 edits, one large, one of three troubles, either interrupted, the channel open at once or later | documents converge, no packet is stuck |

The bounds are the smallest at which the interesting case happens: two rows or
rooms and one name or key for a clash, and for the one row more than a depth of one
that two producers can put in; three users and a limit of one for the same reason;
one user for bans, since a ban, a join and a refresh only race about the same user;
two goroutines so that one could take the other's row; two attempts so that there is a
retry and an end of retries; one fault in `Rooms`, two in `JobQueue` (a crash and a
failed recovery, or two crashes). In `RoomsJobs` two jobs are two kinds on one room,
or two equal suspends, each with its worker, and two users are what a deletion needs
to be able to take somebody else's room. `RoomsLive` has two names because two active
rooms cannot share one: with one name the quota could not be exceeded. `MaxFaults`
bounds crashes plus lost updates plus failed LiveKit calls. Ids are never reused, so the number of rows also bounds the
length of a run. Two tabs are what it takes to refresh with one token at once, and
three pairs a login or refresh after that; two requests in each of two tabs, which
wait on one refresh, were explored as well and hold, beyond the run. Two participants and
three stamps make every crossing of two claims that two people can make, with a
republication of a screen before, between or after them (`MaxBoth` lets the third stamp
come without trouble only); a third person relays nothing (no participant forwards
another's packets), and three with a fault are too many states. A message of two chunks is the smallest that two overlapping
publishes can mix. On the whiteboard either peer may be the interrupted one, the one
that draws the large edit too, so that two drains do mix its chunks. `MaxTrouble`,
`MaxEvents`, `MaxSyncs`, `MaxStamps`, `MaxPairs`, `Timers` bound what their comments
say.

Symmetry is used in `RoomsNames`, `ParticipantsSeats` and `StageSettles`, which check
no liveness. Deadlock is checked in the participants' runs; in the others
it is not: once every id, stamp or pair is used and every job or packet has settled,
nothing is left to do.

`DeletedForGood` and `RoomsGoWithOwner` are checked without editing requests and
without the sweep: both end in `db.Save`, which puts a removed row back (see the
hazards). `PurgeReached` excepts a purge that has failed for good or that a restart left
stranded, and `RoomsGoWithOwner` a fault while the deletion is under way, after which
the code goes on without the room, and a row whose owner the sweep has blanked.
`QuotaOvershoot` is checked without editing requests: reactivation does not look at the
quota. `OneOwner` is stated of stages no owner has stamped anew by a sync, and `Agreed`
of meetings without trouble or syncs, and its first half of a newest claim that no
republication has overtaken, because the code promises no more (below). `ScreenOnStage`
leaves out a screen that starts late. `Converged` leaves out who came back before the
data channel was open and a message that two drains have torn (`Torn`: its author has
been interrupted and has asked, and somebody holds a part of a message); it is checked
with `Patient` (the last timed request of a board that opens is made while everybody is
connected) and with two participants: two are what its interruption needs to hold
(disagreement 12). Where nothing is interrupted it is proved for any number (section 4).

### Fairness

`JobQueue`: weak fairness of each goroutine's claim, handler and mark (the run
loop polls; a handler has a five-minute context), of the clock, and of `Start`
(a supervisor restarts the process). Not of `MarkLost`, `Crash` or `Cleanup`.
`Rooms`: strong fairness of taking each pending job, because jobs are claimed by
priority and age so none is passed over for ever; weak fairness of a worker's further
steps, none of its failures; nothing of `Restart`, so a stranded job may stay so;
strong fairness of the sweep's looking at each active room, because each
tick looks at every one of them (up to 1000); nothing is assumed of LiveKit, of
webhooks, of users or of `Expire`. `RoomParticipants`: a join or refresh that has
begun runs to its end (a handler's goroutine), and a token expires
(`livekitTokenTTL`); nothing is assumed of moderators, webhooks or users.
`BannedOut` therefore starts from a user who stays out of the call: one who came
back before the ban was written is kept in by LiveKit's own tokens.
`WebSession`: a request is answered or fails (`fetch` settles) and its callback runs;
nothing is assumed of users, of expiry or of trouble. `MeetingChat`: `publishData`
settles, timers fire, the connection returns (LiveKit's client reconnects) and the
channel delivers what it accepted to whoever is connected; nothing is assumed of
users. `MeetingStage` and `WhiteboardSync` are checked for safety only; their
convergence is stated of quiet states.

### Disagreements found

With a run that shows them:

1. A ban is an update of the participant's row. A refreshed token for a public room
   needs no row, though `docs/server/room-lifecycle.md` says the refresh requires
   membership; who comes in with one cannot be banned, and the moderator is told it
   worked (`ParticipantsBanLost`).
2. A logout posts the refresh token the tab holds. If the access token has run out the
   post is answered 401, the client refreshes, and the same body goes out again: it
   names the token that was just replaced, and the new one stays good for its whole
   life, though `authentication.mdx` says the current refresh token is blocked
   (`WebSessionLogout`).

Found while modelling, reachable in the modules and without a run of their own:

3. A job in flight when the process restarts within ten minutes of its claim is
   never run again while that process lives, though the queue is documented as
   at-least-once (`queue/queue.go:195`). `CrashedJobSettles` says what does hold. A
   purge left so keeps the dedupe key, so the room cannot be asked to go again either
   (`Stranded` in `PurgeReached`).
4. `CreateRoom`'s rollback deletes the media room of the active room whose name was
   taken (`handlers/room.go:391`; `UndoMedia`).
5. `checkIdleRooms` reactivates a room by saving a row with only `ID` and
   `IsActive`, which clears its name, creator and settings (`SweepRecheck`).
6. A `stage_clear` that is lost in an interruption is not sent again: the others stay
   on a stage nobody owns, though `stage-mode.mdx` says *End stage* returns the room to
   the grid.
7. A playhead sync and the republication of a screen share stamp the owner's stage
   anew without the others learning the stamp; a claim made in between is newer for
   some and older for the owner, and the room has two owners. A republication can
   also leave none: a claims at 1, b at 2, and a, who has not heard of it, republishes
   its screen at 3 (`MeetingStageContext.tsx:491` stamps the packet alone). a takes b's
   stage, which is newer than its own copy, b takes a's republished one, and each shows
   the other as owner. A ghost is also left when b claims and clears before a's older
   claim arrives: a has given its stage up for b's and then for none, and b, who shows
   nothing, takes it. `latest` marks the claims that still stand.
8. A reaction is a toggle and is published once: one that overtakes its message or is
   lost inverts every later one of that person for the participants who missed it,
   though `chat.mdx` says both sides update their counts. Votes carry the whole choice
   and settle (`VotesSettle`).
9. A refresh answered in one tab after a logout in another sets the cookie again: the
   tab that logged out is logged in when it loads.
10. A board opened while everybody who could answer is interrupted each time it asks
    stays empty (with `Patient` FALSE, `Converged` fails), though `whiteboard-yjs.md` says
    late joiners receive the state.
11. After an interruption a peer may have two drains on one queue, the one that was
    forgotten with a message's head in its hands. The other sends a chunk first, which
    is ignored for want of the head, and the message never completes at the others; a
    peer that reconnects asks for what it lacks and never offers what it has. It happens
    in `WhiteboardConverges`, where `Torn` names these states.
12. With three participants one interruption is enough, even with `Patient`. The host
    draws, the two others ignore it with their boards closed, and the host is
    interrupted. Both open their boards; each answers the other's request with
    nothing, an answer like any other (`synced`, `livekitYjsProvider.ts:191`), so that
    neither asks again, and the host, once back, asks and does not offer. A
    `WhiteboardSync` with three peers, one edit and one interruption shows it within
    a few minutes.
13. Somebody whose screen picker is open while a remote stage of another kind comes
    shares the screen under it: the effect that stops tracks
    (`MeetingStageContext.tsx:476-482`) is not run again by the track's start, and the
    button does not check (`ControlsBar.tsx:571-577`), though `stage-mode.mdx` knows a
    shared screen only as the stage's own overlay (`late` in `share`; any later change
    of the stage stops it).
14. A whiteboard whose room is connected again before its data channel is open never
    asks for what it missed, and packets it kept wait until it says something more:
    `requestSync` and `drainPublishQueue` return (`livekitYjsProvider.ts:145`, `206`,
    with `livekit-publish.ts:145`), the retry timer was cleared and no retry is armed
    (`240`), and nothing follows when the channel opens, though the packet was kept
    because *freehand strokes must not drop mid-path updates* (`225`). The stage and the
    chat do wait for the channel (`MeetingStageContext.tsx:442`,
    `MeetingContext.tsx:881`). `outage` and `unserved` mark these states.
15. The deletion of a user can leave rooms behind: one whose removal failed is logged
    and passed over while the job goes on to remove the account
    (`services/room_cleanup.go:297`), and one whose row the sweep blanked
    (disagreement 5) is not found by its owner, though `queue-deep-dive.md` has every
    room go (`SkipRoom`, `SweepRecheck`).

Read in the code and not modelled: `chat.mdx` gives 10000 as the cap on messages, the
code keeps 400 and 200; the mini-apps' status queue drops its oldest beyond 32,
though its comment says "delay, never drop" (`useWebxdcHost.ts:115` and `331`); the
command line's `room kick` bans, while the HTTP kick must not
(`handlers/audit_continue_test.go`); `CheckRoom` reports a room with
`maxParticipants` 0 as full, while a join takes 0 as no limit; a late
`participant_left` frees the seat of somebody who is back in the call, so the limit
is one on rows, not on people (LiveKit has its own limit for those).

Each action named above is read off the code in the lines of `PROJECT.json`'s map.

## 4. Proofs

Each proof module states one inductive invariant and proves it once; the theorems
about properties follow from it. What a proof assumes is its module's named ASSUME on
the constants and, where stated in the theorem, which actors there are.

`JobQueueProofs`, from `QueueAssumption` alone. `DedupeUnique` and
`ExclusiveHolder` need each other's neighbours: that an idle goroutine holds nothing
and a stopped process has no goroutines (`WorkerInv`), so a recovery cannot take a
row somebody holds. `RetryBudget` is not inductive: a row that can still be claimed
must have an attempt left, counting those faults gave back (`BudgetInv`).
`DoneInv` (a done row has run) is what the refinement needs. `IInv` is their
conjunction with `TypeOK`; `Invariance` proves `Init => IInv` and one lemma per
group of actions. `DepthIsBounded` has an invariant of its own, `DepthInv`: the
unfinished rows plus the callers past the count never exceed the cap plus the
callers minus one; it uses the library's facts on cardinality.
`QueueImplementsLedger` maps each action to a ledger action or a stutter:
`Insert` to `Accept`, a successful `HandlerReturns` to `Effect`, `MarkDone` to
`Complete`, a final `MarkError` or `MarkPermanentFail` to `GiveUp`, `Cleanup` to
`Forget`, everything else to a stutter.

`RoomsProofs`, from `RoomsAssumption`. `RoomsInv` is `TypeOK`, `ActiveNameUnique`,
`ReadersInv` (a request that has read a row knows a room and a row), `HeldInv` (a
worker's job is active and its own), `OwnerInv` (a row belongs to who made the room or,
blanked, to nobody) and `TargetInv` (the rooms a worker has listed are what its job is
about). Writing one row keeps names unique if the index accepts it
(`WriteKeepsUnique`), and every step that writes the table is such a write. Two
action properties follow from the invariant step by step. `RowsAreWipedOnOrder` is
about a row `SettleRow` removes: it was listed when the job was claimed, it may have
been saved, reactivated or blanked since, and `TargetInv` with `maker` says that the job
that is active still is a purge of this room or the deletion of who made it. It holds
with editing, the sweep and any number of faults, which the run leaves out.
`DeletedRowsStayDeleted` assumes `Editor = {}` and no sweep, the two that save a row
read before. `QuotaOvershotAtMost` assumes `Editor = {}` and finitely many creators: the
active rooms a creation counts besides its own quota are those of the other creations
past their count, an insert moves one creation from that set to the rooms, and nothing
else makes a room of somebody's active (the sweep's row names nobody).

`RoomParticipantsProofs`, from `ParticipantsAssumption`. The capacity is not
inductive: `SeatsInv` adds the transactions past their count to the seats taken,
and on SQLite `ConnectionInv` (at most one transaction is open, from `Reachable`)
makes that sum at most the limit; on Postgres it is at most the limit plus the
joins minus one. `BanInv` says that on SQLite a join that found its row unbanned
still finds it so, again because nothing else reaches the database. `BansStop` is an
action property: the requests past the check of a banned user only get fewer in a
step without a fault.

`WebSessionProofs`, from `SessionAssumption`. `SessionInv` adds to the properties:
tokens in the browser and in requests have been issued (`BrowserInv`, `RefreshInv`);
the stored token has not been exchanged yet (`FamilyInv`), which with the
compare-and-set gives `RedeemedOnce`; a tab refreshes only on behalf of a request that
waits, or while it loads with nothing in memory, and a tab that logs out does nothing
else (`TabInv`); and, while there is no trouble, what makes `InStep` inductive
(`CookieInv`): either the cookie is the stored token or gone, or exactly one answer
with the stored token is on its way and nobody else in the browser knows that token
(`OnTheWay`), so no logout can block it before it arrives; if the stored token is
blocked, its owner is between the two statements of the rotation or the cookie is gone.
`NoRevival` needs only that the swap compares with the stored token.

`MeetingStageProofs`, from `StageAssumption`. All properties follow from one
invariant, `StageInv`. What the packets of a participant say is its own and is
stamped in the past (`PacketInv`, `StampInv`), so no two owners share a stamp.
`OneOwner` is a statement about quiet states; what makes it inductive is `LearnInv`:
of two owners, the one with the older stage still learns of the other's, because that
stage or a later one is on its way to it, or its request is on its way to the other,
or one of the two has a transport to open, after which both speak. It survives
interruptions (a queue is emptied, but the transport is then closed), failures (the
packet is kept) and departures. `Agreed` needs the order of the packets: without
trouble (`CalmInv`: one drain each, nobody asks) either a claim that is not older is on
its way to the owner, or each other participant shows the owner's stage or will, since
the last packet on its way carries it (`AgreeInv`, with `Final` and `Reaches`); that
nothing newer is elsewhere is `HeardInv`. That the newest claim stands is an invariant
beside these, proved on its own (`NewestClaimStands`): whoever made it owns the stage,
and every stage anybody shows or has still to send to the others is older
(`LatestInv`). It keeps `Agreed` from saying nothing where everybody shows the stage of
somebody else. `ScreenOnStage` holds in every state, not only in quiet ones
(`ShareInv`), `NotStuck` as for the whiteboard.

`MeetingChatProofs`, from `ChatAssumption` and `NoBuffer` (the value for "no buffer" is
not a buffer). A message can reach its author a second
time by no path: packets of a message travel from its author to others (`PacketInv`)
and the local echo happens once (`EchoInv`), while everybody else looks into the log
before appending; hence `MessagesShownOnce`. `MessagesShownWhole` rests on
`BufferInv`: the count of a buffer is the number of different chunks in it, so that
reaching `Chunks[m]` means having all of them (a fact on cardinality of subsets). On
top of these, `DeliveryInv` gives `ChatSentIsShown`. Of a message that is sent, or of
the packets a running publish has sent, whoever missed nothing and does not show it
holds every part: in its buffer, or on the way with the meta before it (`HeldInv`); a
buffer that has everything is gone (`OpenInv`), so a quiet channel leaves the log. It
needs what the retry loop publishes to be in its author's log, one message at a time
(`RetryInv`). `BallotInv` gives `ChatVotesSettle`: without trouble nothing is ever
published twice and no packet of a message carries votes (`CalmInv`, `CarryInv`), so
votes travel in their own packets alone, in order, and the last of them on its way is
the voter's last vote (`Settling`).

`FilterProofs` says of `Kept(s, S)`, a recursive function of the length looked at (not
a RECURSIVE operator), that its elements are those of `s` in `S`, that it is empty when
there is none, and how it grows by an element. Its induction (that a set of numbers
with an element has a least one) goes through the library's theorem on finite sets
ordered by inclusion, which has no operator among its parameters.

`WhiteboardSyncProofs`, from `WhiteboardAssumption` and `NoParts` (the value for "no
head" is not a set of parts). `NotStuck` becomes inductive with
`DrainHolds` (the flag of a running drain is set only while a packet is in some
drain's hands, though forgotten drains come back and clear or keep it) and
`ClosedIdle` (a closed board has no queue, no drain and no timer); `unserved` is in the
property itself.
`CalmBoardsConverge` is `Converged` in every state in which no connection was
interrupted and no board closed (`Undisturbed`), and says more: once all is settled,
all open boards are alike and no message is torn (`Alike`); publications may fail and boards open
at any time, requests cross answers, and there are any number of peers. The wire, the
packet in a drain's hands and the queue make a line from one peer to each other
(`Lines`), which grows at its end and is read at its head: sending a packet, failing to
and retrying leave it as it is, so all steps but four are about lines and boards alone.
An edit somebody lacks is still to be flushed by its author, or on the line from the
author, whole, from its head on, or with every part the receiver's buffer lacks
(`Carried`), or a request that does not name it is on the line to the author
(`ToldInv`). That a chunk id belongs to one message (`IdInv`) keeps one line's arrivals
from disturbing another's buffer; that an author knows what anybody knows of it
(`SourceInv`) makes the author the one to look to.

Only model-checked: liveness (all of section 3's `~>` and `<>[]` properties), which
fairness puts out of the prover's reach, and `Converged` where a connection is
interrupted or a board closed: it depends on how many there are and on who is there to
answer (disagreements 10 to 12), so there is nothing to prove for every value of the
constants. All other invariants of the runs are proved.

## 5. Not modelled, and what is left

- Recording: its repositories are nil in the server's wiring, so no state of it can be
  reached as built. Of a user's deletion `Rooms` has the rooms; the rows of the account
  itself (passkeys, preferences, the ban cache) are deleted one after the other by the
  same job, and `UpdateUser` saves whole rows as the rooms' settings do.
- E-mail and outbound webhooks are job handlers without state: network I/O that
  `JobQueue` retries. Uploads, invites, settings: one statement each, whose database
  constraints decide.
- Mini-apps: the WebXDC host hands updates to an application in an iframe; which
  updates are lost is decided by one line at the queue's cap and one at a failed post.
- Whiteboard awareness, PDF and YouTube playback beyond who owns the stage; the layout,
  device and call controls of the meeting page.
- The remaining pages of the web client, its locales, the documentation site, the
  desktop and mobile applications, bots, command line and installer. They are the
  greater part of the repository's lines, render what a component returns and reach the
  server through the operations modelled here. There is no state in them that two
  actors share, which is why the modules cover few of those lines.

Left to do, in this order:

1. The `users` row: `UpdateUser` against bans, promotion and the account's deletion.
2. An abstract `RoomAccess` (who may be in the room, and when that ends) that
   `RoomParticipants` implements.
3. An abstract replicated document that `WhiteboardSync` implements, and liveness of
   its convergence.
4. What two people keep of `Converged` through interruptions, proved: an owner of the
   large edit that is not interrupted, and the requests a reconnection makes.
