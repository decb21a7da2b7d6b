# Formal models of the AFRA panel

TLA+ specifications of the parts of the AFRA panel whose correctness depends on
the order in which concurrent handlers touch shared state, and of the pure
functions on which the panel and the subscribers' clients must agree; TLC
configurations that check them on small instances; and TLAPS proofs of the
central theorems for every size.

The panel is a set of Cloudflare Workers. Every HTTP request, cron tick and
WebSocket runs as a handler of its own; handlers interleave at every `await`.
What they share is

- **D1**, a SQL database: the truth about administrators, sessions, users,
  nodes, settings and the network. One statement, or one `batch`, is atomic;
  nothing larger is. A statement may throw.
- **KV**, a cache with expiring keys: `sess:<hash>`, `edge:user:<uuid>`,
  `settings:all`, `edge:settings`. Reads and writes may fail, and the code
  swallows such failures.
- **Durable Objects**: `HealthCoordinatorDO` (the `running` flag) and
  `RateLimiterDO` (a window and an alarm per address). One instance each; what
  is only in memory is lost on a restart.
- **R2** (backups), the **Cloudflare API** (scripts, routes, DNS records),
  **Telegram** (which delivers an update again until it is answered), the remote
  ends of sockets, and in the browser the cache of query answers.

So nearly all the models have the same form: a handler is a record `req[r]` with
a program counter and the locals it carries over an `await`; **one action is
what a handler does between two awaits**; D1 tables and KV keys are functions
from small sets; `Abort` ends a handler at any await (a statement throws, or the
runtime cancels it) with what it has done left done. Where handlers that overlap
may undo one another and the code does nothing about it, a history variable
names the overlap, and the property says that **nothing but the named overlap**
leads to the bad state. These are the strongest claims the code supports, and
they pin down which races a change may not add to.

## Inventory

| Component | State | Operations | Hard part | What makes it correct | Modules |
|---|---|---|---|---|---|
| Administrator sessions (`core/session.ts`, `auth.routes.ts`) | `sessions` in D1, copies in KV | create, resolve, revoke one, revoke all but one, clean-up | the cache is trusted without asking D1; revocation is delete-then-update | no grant without an issued, unexpired session; a revoked session gets back in only by a named race | `Session` |
| Administrator accounts (`setup`, `auth`, `settings` routes) | `admins` in D1 | setup, login, password, TOTP, recovery, create, delete | each checks a row it read, then writes by id alone | old passwords shut out, secrets proven, one setup, a super_admin remains but for one race | `Accounts` |
| Rate limiter, login guard (`rate-limiter.ts`, `middleware.ts`, `auth.routes.ts`) | windows in Durable Objects, `login_attempts` | consume, alarm, count, record | a fixed window; counted before the check, recorded after | bounds on what passes in a window's length and on guesses | `Limits` |
| Settings (`core/settings.ts`, `edge/data.ts`), maintenance guard (`middleware.ts`, `index.ts`) | `system_settings`, copies in KV | load, set, invalidate, guard | three caches, one never invalidated; the guard runs before authentication | stale only by a named race and never for long; maintenance stops everybody's writes but a super_admin's | `Settings`, `Access` |
| Proxy authorization (`edge/data.ts`, `users.service.ts`, `scheduled.ts`) | `users` in D1, verdicts in KV | authorize, create, update, delete, rotate, reset, traffic, sync, hourly expiry | read-then-put on one side, write-then-delete on the other | nobody is let in long after being switched off | `EdgeAccess`, `Access` |
| Proxy tunnel (`edge/vless.ts`, `endpoint-script.ts`) | one WebSocket, one TCP socket, counters | first message, authorize, connect, relay, close, bill | events in any order around awaits | chunks in order, everything billed, a destination told that its client has left | `Tunnel` |
| Subscriptions (`users`, `subscriptions` and `telegram` modules, both workers' `/sub`) | `users`, `subscriptions`, `user_nodes` | create, extend, update, revoke, rotate, bulk, hourly job, deliver | two-statement updates, a job that works through a selection, redelivered commands | nodes as asked, off only for cause, time adds up, new links work | `Users` |
| Node health (`health-coordinator.ts`, `health.service.ts`, `nodes.service.ts`) | `nodes` in D1, `running` in memory | cycle, edit, alert | flag tested before an await and set after; alerts compare with old rows | flag honest and never stuck, alerts and documents agree with rows | `Health`, `Delivery` |
| Node selection, routing rules (`balancer.ts`, `routing.ts`) | none | rank, fail over, match, resolve | ties, families of addresses, order | the client's document decides as the server's functions | `Selection`, `Delivery` |
| Documents and links (`subscription.ts`, `subformats.ts`, `protocols.ts`, `template.ts`) | none | name, link, Clash proxy, group | two formats of one node written by different functions; names as references | both formats lead to the same place | `Documents`, `Links`, `Delivery` |
| Backup and restore (`backup` module, `cronDaily`) | R2 objects, `backups`, every table | snapshot, store, list, delete, restore | table by table, no transaction, foreign keys, UNIQUE columns, secrets left out | listed backups exist; a restore that answers has restored; one that fails has a cause | `Backup` |
| Network (`dns`, `routing`, `chains`, `backends` routes, `checkDnsServers`, `checkBackends`) | `dns_servers`, `routing_rules`, `proxy_chains`, `backends`, `warp_configs`, `domain_filters` | create, patch, delete, import, check | PATCH reads, merges and writes every column; a flag moved by two statements | the rows are what was last asked for | `Network` |
| Cloudflare deployment (`cloudflare` routes and client, `nodes.service.ts`) | the account, `nodes`, `cf_resources` | create/edit node, deploy, drop, DNS records | remote calls in sequence without undo | rows valid, links reach their script and name its host, the list matches the account | `Deployment` |
| Web interface, forms (`UserFormModal`, `NodeFormModal`, `SettingsPage`, `TelegramPage`) | query cache, form, save under way | open, type, save, refetch | a form filled from an old copy sends every field back | unedited fields stand, typing is kept | `Panel` |
| Web interface, way in (`App.tsx`, `lib/auth.tsx`, `LoginPage`, `SetupWizard`) | queries `setup-status` and `me`, step of the wizard, kept answers | set up, sign in, sign out, refetch, reload | which screen there is follows from two queries that change under it | no administrator sees another's answers, the recovery code stays to be read | `SignIn` |
| Request schemas, Telegram bot, permissions | | | | guards and inputs of the modules above | (partly) |
| Analytics, audit, logs, cryptography | none that other parts decide on | | | | not modelled |

How they interact. `Accounts` opens and revokes what `Session` caches (password
change, recovery and deletion call `revokeAllSessions`; each module has its own
half of these handlers), and `Limits` stands before its login. `Settings` is
read by every request before anything else. `EdgeAccess` decides for `Tunnel`
whether a session goes on from `auth`, and `Tunnel`'s billing is `EdgeAccess`'s
`RecordTraffic`; `Users` has the other half of a user's row. `Delivery`
composes `Health` with `Selection`, `Documents` and `Links`: in each state the
health checks can lead to, what would a subscriber be handed? `EdgeAccess` and
`Settings` both refine the abstract `Access`.

## The modules

Every module's header says what its state stands for, and PROJECT.json maps
every definition that models code to its lines.

### Session

`sessions[t]` is the row with token `t`'s hash, `kv[t]` the entry under
`sess:<hash>`. `InsertRow`, `CacheNew` are `createSession`. `ResolveHit`,
`ResolveMiss`, `Evict`, `ReadRow`, `Fill` are the branches of `resolveSession`.
`Logout`, `MarkRow` are `revokeSessionByToken`. `RevokeAll` or `RevokeOthers`,
`PurgeKey`, `RevokeRows`, `DropAdmin` are `revokeAllSessions` and the deletion
of an administrator that follows it. `WipeAdmins` and `RefillAdmins` are the
statements of `restoreBackup` on `admins`: by the foreign key the sessions go
with the administrators (state `wiped`, for one that was live), while no
`sess:*` key is deleted. `CleanUp` is the nightly job, `Tick` the clock together
with KV's expiry. `ended`, `raced` and `grant` are history;
`raced` collects the tokens for which a put landed after a revocation had passed
their key, or a revoking delete failed.

### Access and EdgeAccess

`Access` is the promise: a credential is let in only if the users table allowed
it within the last `Window` ticks. It has no handlers and no cache.
`EdgeAccess` has them: `Hit`, `Lookup`, `Decide` are `authorizeUuid` (both
workers); `CreateUser`, `ReadUser`, `UpdateUser` (also `setEnabled` and
`extendUser`), `DeleteUser`, `RotateCredentials`, `ResetTraffic`, `Purge` are
the control plane; `SyncUsers`, `PrimeRow` are `primeUserAllowlist`;
`SelectExpired`, `DisableExpired` are the hourly job; `RecordTraffic` uses up a
quota. `WipeUsers` and `RestoreUser` are the statements of `restoreBackup` on
`users`: any user comes back with a credential it once had (`drawn` says whose
a credential is) and the columns of some backup (`BackupRows`), and no verdict
is deleted; `restored` is history, the credentials whose grant went that way
while a yes was cached. `ImplementsAccess` is the refinement, with `allowed` the credentials
that pass the test on the rows and `Window = PrimeTtl + MaxDelay`. Times are
kept as what is left of them, so the state space is finite without stopping the
clock.

### Settings

D1 holds a version; `LoadHit`, `LoadRows`, `Put` are `SettingsService.load`,
`Write` and `Invalidate` are `set`, `setMany` and `invalidate` for each writer
(`Ops`), `Guard` is `maintenanceGuard` with `Exempt` its exception for the
super_admin, which reads a variable that `requireAuth` has yet to set: `auth`,
among a handler's locals, becomes the role of who asks (`Roles`) only behind the
guard.
`EdgeHit`, `EdgeRead`, `EdgePut` are `loadEdgeSettings`. `ImplementsAccess` is
the same abstract promise as above with versions for credentials: no reader is
handed a version that left D1 more than `Ttl + 2 * MaxDelay` ago.

### Limits

`Consume` and `Alarm` are `RateLimiterDO`; the input gate makes a consume one
step. `Begin`, `CountFailures`, `Fail`, `EndUnrecorded` are `POST /login` and
`POST /recover`. Counts by age are history for what passed within one window's
length.

### Accounts

Passwords, secrets, recovery codes and session ids are fresh numbers. Each
handler is a pair: a read with its checks (`PasswordRead`, `TotpEnableRead`,
`RecoverRead`, `CountSupers` and `ReadTarget`, `SetupCheck`, `Login`) and the
write by id (`SetPassword`, `TotpEnable`, `Recover`, `Drop`, `SetupInsert`,
`OpenSession`), with `Revoke` for `revokeAllSessions`. `stale` names the writes
that rested on a row which had changed.

### Tunnel

Both workers' handlers in one module, `kind` telling them apart where they
differ: the edge closes and bills at every event (`CloseAll`), the endpoint
closes once (`Finish`) and bills on return. Closing means that the WebSocket is
closed and the writer of the socket, never the socket itself: the connection is
then `half` open, and only the destination (`Hangup`) ends it. The client's messages are numbered chunks; `listening` says
whether anybody hears them.

### Users

`CreateUser`, `UpdateDate`, `UpdateNodes` with `ClearNodes` and `AssignNodes`
(the DELETE and the batch of INSERTs), `ExtendRead`/`ExtendWrite`, `SetEnabled`,
`DeleteUser` are the services, called by the panel, the bulk endpoint and the
bot; `Replied` and `Redeliver` are the webhook's answer and Telegram sending the
update again. `Revoke`, `Regenerate`, `RotateInBulk` change the link.
`FindSubscription`, `FindNodes`, `FindAllNodes` are delivery on both workers,
`ConfigsRead`, `ConfigsNodes` the panel's own list. `SelectExpired`,
`DisableExpired`, `RevokeExpired` are `cronHourly`. `asked` is history: what the
administrators last asked for and no named overlap has come in the way of.

### Health, Selection, Documents, Links, Delivery

In `Health`, `Select` reads the targets, `Enter`, `Begin`, `Finish` are the
coordinator's `fetch` around its one await before the flag and those after it,
`Apply` the batch with its foreign key, `Notify` one alert. `ReadNode`,
`WriteNode` are `updateNode`. `Restart` is the platform evicting the object.
`told[n]` is what the last alert left the administrators believing; `raced`
names the nodes with a lost update or a lost or late alert.

`Selection` holds `rankCandidates`, `failover` and the routing functions as
operators; a sort is the set of results it may have, since rows come from the
database in any order. `Documents` builds what `buildSubscription` builds, and
has a Clash client's reading of it (external). `Links` has the three adapters of
`protocols.ts`: a link and a Clash proxy are sets of named values, and `ByLink`,
`ByClash` say how a client (external) connects by either. `Delivery` composes
them: `Rows` are the nodes' rows in `Health`'s state with the columns `Health`
leaves out, and its properties quantify over fleets, templates, rules, targets
and null columns. `parked` is history: nodes switched off that no cycle has
probed since. What a fleet, a template, a rule or a column may be is assumed by
name (`FleetsAssumption`, `TemplatesAssumption`, `RulesAssumption`,
`ColumnsAssumption`), as the schemas and the primary key have it; that a rule's
pattern fits its type is `RulesFit`'s concern in `Network`.

### Backup

A table is one row, 0 or a version of it. `Create`, `CopyTable`, `PutObject`,
`InsertRow` make a backup, `FindRow`, `DeleteObject`, `DeleteRow` delete one,
`Load`, `WipeTable`, `FillTable`, `EndRestore` restore one. Payloads without
secrets leave out the tables whose secret columns are NOT NULL (`Required`, a
restore skips and reports them) and `secrets`, a table made of what is secret in
the others: `backends.secret_enc` and the secret settings, of which the report
says nothing. A table is filled unless a foreign key fails (`Refers`) or, since
the upsert names the id alone, a UNIQUE column may (`Clashes`: a row that has
come or changed since the backup). `Write` keeps an administrator, as the
panel's own check does; `DeleteBoth` is two deletions past that check at once,
whose steps are in `Accounts`. `was` carries
the database as it was when the backup began, or `Torn` once somebody has
written during the copy or the restore.

### Network

The `Post…`, `Patch…`, `Delete…` of each kind of row, with `Write…` as the
second half of a PATCH. `Clear` moves the primary flag off all resolvers before
`WriteServer` sets it. `Import`, `Wipe`, `InsertRules` are the import of rules;
`CheckHop` is one turn of `validateChain`'s loop. `Check`, `Probe` are
`checkDnsServers` and `checkBackends` and the check of one WARP configuration.
`expected` is history: what the successful edits have asked for.

### Deployment

`CreateNode`, `EditRead`/`WriteNode`, `DeleteNode` are `nodes.service.ts` with
`Valid` as `validateNode`; a row has the columns that links carry (`LinkFields`:
protocol, TLS, transport, path, host, `sni`, `transport.host` as `front`, and
whether Cloudflare speaks TLS at its port). Which drafts and edits are asked for
are constants (`Drafts`, `Edits`), any of the forms the schemas let through.
`Deploy`, `Upload`, `Address`, `AddRoute`, `ListRoute`, `Record`, `Reread`,
`WriteNode` are `POST /endpoints/deploy`; `DropScript`/`Forget`,
`CreateRecord`/`Remember`, `DropRecord`/`Forget` the other calls that change the
account. `rows` are the rows of `cf_resources` for scripts, routes and records.
`due[n]` is history: the script node `n`'s links are to reach, until an edit that
is not `sure` to leave them alone.

### Panel

`Open`, `Type`, `Press`, `Close` are the administrator; `Answer`, `Arrive`,
`FailFetch`, `Age` the query; `Apply`, `Reply`, `Failed` the save; `OtherAdmin`,
`BotExtend`, `BotQuota` the others. One page at a time, chosen by `Init`. The
query cache (TanStack Query) is external: an answer is kept, is fresh for 15 s,
and one that is equal to it changes nothing. On the users page the quota is kept
in quarters of a gigabyte and the validity in quarters of a day, so that
rounding by the form shows. On that of the nodes, `print` is `tls.fingerprint`,
which the form shows as `chrome` when it is null, and `hidden` what of TLS and
transport the form does not show but a save overwrites (`alpn`, `minVersion`,
`allowInsecure`, the mode), and the flag, which `updateNode` computes.

### SignIn

One tab around its pages. `setup` and `me` are the two queries that `Shell`
decides by (`ScreenOf`), `wizard` its step and whether it shows the recovery
code, `call` the POST under way, `kept` the answer of a page and in whose name it
was given. `Send…`, `Serve`, `Reply…`, `Refused`, `LoseReply` are setup, login
and logout at both ends; `Answer…`, `Arrive…`, `Fail…`, `Reconnect` the queries;
`SetUpElsewhere`, `Elsewhere` other browsers and the other tabs that share the
cookie. `crossed` is history: the session has changed behind the tab's back.

## Runs

Deadlock is checked in `edge_access`, `settings` and `users`. The other systems,
as bounded, really stop: tokens and clock run out in `Session`, node ids in
`Health` and so in `Delivery`, fresh values in `Accounts`, the work allowed in
`Backup`, `Network`, `Deployment`, `Panel` and `SignIn`, and a tunnel ends.
`MCLimits` has the two sides of the way into the panel, of which only one moves
in a behaviour: the server's limits and a tab's screens. Together the runs reach
every action.

Four MC modules instantiate a component next to the one whose records it is
about, which stands still there and has a run of its own: `MCTunnel` has
`Tunnel` with `EdgeAccess`, `MCLimits` `Limits` and `SignIn` with `Accounts`,
`MCNetwork` `Network` with `Deployment`, `MCPanel` `Panel` with `Settings`. They
name both sides' variables apart, check the assumptions on the constants of the
instance (`TunnelAssumption`, `LimitsAssumption`, `NetworkAssumption`,
`PanelAssumption`), and one module of proofs can speak of both.

| Run | Checks | Bounds | States |
|---|---|---|---|
| `session` | `GrantSound`, `RevokedCachedOnlyByRace`, `LateGrantOnlyByRace` | 2 tokens, 1 administrator, 2 requests, 3 instants, restores at any time; an entry put late outlives its session | 4.60 M |
| `edge_access` | `StaleYesOnlyByRace`, `ImplementsAccess` | 1 user id, 2 credentials (so one rotation), 2 handlers, 2 backups of the user, lives of 1 tick, no delay beyond one | 1.26 M |
| `delivery` | `AlertsFollowHealth`, `BusyClears`, `ServedAsTold`, `FailoverFollows`, `DecidedAsRuled`, `LinksAgree` | 1 node, 2 cycles or edits at a time, any number in all; 4 fleets of up to 3 nodes, 3 templates, 5 rules, addresses of 2 and 3 bits | 27 762 |
| `accounts` | `OldPasswordShut`, `TotpProven`, `SupersGoneOnlyByRace` | 2 administrators, 2 handlers, 5 fresh values | 1.38 M |
| `tunnel` | `CarriedAndBilled`, `ToldOfLeaving` | 4 chunks up, 2 down | 7 410 |
| `settings` | `StaleCopyOnlyByRace`, `ImplementsAccess`, `WritesStop` | 2 handlers, 2 writes, 2 roles, lives of 1 tick, delay 1 | 1.77 M |
| `limits` | `NeverTwiceTheLimit`, `GuessesBounded`, `KeptApart`, `CodeStays` | 2 clients, 2 logins or recoveries at a time, limits of 2, windows of 2 and 3 ticks; one tab, 2 administrators, 4 presses or doings elsewhere | 483 539 |
| `users` | `OnlyNodesAskedFor`, `OffForCause`, `TimeAddsUp`, `NewLinksWork` | 1 user, 2 nodes, 2 handlers, up to 2 ticks of time, extensions of 1 | 577 404 |
| `backup` | `ListedExists`, `RoundTrip`, `FailsForCause`, `AdminsGoneForCause` | 1 backup, 2 handlers, 6 tables, 2 versions of a row, 5 requests | 2.93 M |
| `network` | `PrimaryAsAsked`, `BackendAsAsked`, `RulesFit`, `ChainsSound` | 2 resolvers, 1 each of backends, WARP, filters, rules, chains, 2 nodes, 2 handlers, 5 requests | 1.15 M |
| `deployment` | `NodesValid`, `ServedWorks`, `RowsMatchCloud` | 2 nodes, 2 scripts, 1 route, 1 record, 2 paths, 2 handlers, 4 requests, 7 drafts, 21 edits | 982 690 |
| `panel` | `UneditedStands`, `TypedKept` | each page, 2 records, 3 of saves, keystrokes and writes of others, validities up to a day and a half | 5.46 M |

Why the bounds are enough. Every race in these modules is between two handlers
over one row or key, so two handlers and, where one can be spared or confused
with the other, two objects show each of them. A handler that is done starts
again as another, so of two overlapping runs in `Health` the first to end can
let a third one in. One node leaves out batches in which another node's
deletion is what fails the foreign key; for `AlertsFollowHealth` the theorem
covers every number of nodes and handlers, and for the documents the fleets put
nodes of every other health next to the one that changes. Lives of cache entries
need only their order: `session` has entries that outlive their sessions because
they are put late; it has one administrator, whose sessions a deletion, a bulk
revocation and a restore all have to tell apart, and the theorem covers more. In
`edge_access` both lives are one tick and a put comes in the tick of its read,
before or after everything else of that tick; `MCEdgeFresh.cfg` runs the same
refinement with one credential, lives that differ (1, 3) and a delay of 2. In `Tunnel` four chunks leave two after the gap. In
`Accounts` five values allow a setup, a login, and three further changes. In
`Limits` two windows of two ticks overlap any interval of a window's length in
every way there is. In `Settings` the second write meets whatever the first has
left. In `Backup` five requests are a backup, a write, a deletion or second
write, and two restores; in `Network` five are a creation and two overlapping
edits with a switch of a node and one more; in `Deployment` four are two nodes
and two overlapping deployments or a deployment, an edit and a deletion. In
`Panel` three are an edit, a save and the write of another, in any order; in
`SignIn` four are a logout, a login, and two of a reconnection, a reload or
another tab. Two widths of addresses tell the families apart. `delivery` has no symmetry because
it checks liveness; everywhere else symmetry is over the ids, of which the code
only ever tests equality, or over the handlers.

`MaxTime`, `MaxDraw`, `MaxUp`, `MaxDown`, `MaxLeft`, `MaxVersion`, `MaxWork`,
`MaxPresses` are bounds for model checking. `MaxDelay` in `EdgeAccess` and `Settings` is not: it
is the assumption that a handler does not lie between its read and its put for
ever, without which no bound on stale answers exists; `sync-users` puts up to a
thousand verdicts after one read, so it is not small.

`Session`, `Health`, `Accounts`, `EdgeAccess`, `Settings`, `Limits`, `Tunnel`,
`Users` and `Backup` state a `TypeOK`. All of them are proved: that of `Tunnel` as
a conjunct of its inductive invariant, the others as theorems of their own.

Assumptions. A KV get that does not fail sees the last put or delete; real KV
takes up to a minute to get there on other continents, which adds to every
bound here. Random tokens, ids and uuids do not repeat. An administrator's row
is enabled: nothing but a restore writes `admins.enabled` after creation. A
node's host and a script's name belong to one account and one zone.

### Fairness

- `Health` and `Delivery`: `WF(Finish)`. A probe is raced against a timer
  (`Promise.race`), so every run ends; the summary is then stored or the store
  throws, and `finally` resets the flag either way. Nothing else is fair:
  callers may vanish.
- `Tunnel`: the runtime fires events that are due (`First`, `Dropped`, `Relay`,
  and the close event, up to which the promise handed to `waitUntil` keeps the
  worker alive). Nothing else is fair: neither the handler nor the destination,
  nor anything after the close event, so that nothing is promised about the end
  of the read loop or the endpoint's bill.

### Where the code departs from what it says

The named races and exceptions of the properties are these; some have a
definition that states the document's claim, and a configuration in which TLC
shows the counterexample (not among the standing runs, which all pass).

1. A logout is not final (`auth.test.ts:131`): `LogoutIsFinal`,
   `MCSessionFinal.cfg`. A request that reads the row before the logout marks it
   and fills the cache after the logout's delete leaves the token usable until
   the entry dies.
2. A used-up quota does not take effect quickly (`edge/data.ts:276`):
   `QuotaDropsCache`, `MCEdgeQuota.cfg`. `recordTraffic` deletes
   `edge:usercache:<id>`, a key nothing reads.
3. Health cycles are not single-flight (`health-coordinator.ts:5`):
   `SingleFlight`, `MCHealthSingle.cfg`. The flag is tested before the request's
   body is awaited and set after.
4. A super_admin need not remain (`settings.routes.ts:141`): `SuperRemains`,
   `MCAccountsSuperRemains.cfg`. Two deletions at once, each on a count of two.
5. A recovery code works twice when two recoveries overlap
   (`auth.routes.ts:430`): `CodeUsedOnce`, `MCAccountsCodeUsedOnce.cfg`.
6. The edge bills one session two or three times, unlike the endpoint that calls
   itself its mirror (`endpoint-script.ts:9`): `BilledOnce`,
   `MCTunnelBilled.cfg`.
7. The super_admin's exception from maintenance (`middleware.ts:67`) never
   applies, since the guard runs before `requireAuth` (`index.ts:123`), so
   maintenance mode cannot be switched off through the API. `Guard` has it so;
   `WritesStop` does not ask for it: it is about everybody else.
8. The limiter's window is fixed, not sliding (`rate-limiter.ts:2`): up to one
   less than twice the limit passes in a window's length
   (`NeverTwiceTheLimit`).
9. A bulk rotation of links leaves a revoked link revoked (`NewLinksWork`); of
   two extensions one may be lost, and one that Telegram sends again counts
   twice (`TimeAddsUp`); a user whose assigned nodes are all switched off, or
   being replaced, gets every node (`OnlyNodesAskedFor`).
10. A restore without secrets that has node assignments stops halfway
    (`FailsForCause`), and so does one that does not wipe and meets a row that has
    since taken a name, a token or an account of the backup. A wiping one may
    leave a panel without administrators, open to setup, as two deletions at once
    may (`AdminsGoneForCause`); without secrets it loses those of backends and
    settings and does not report them (`RoundTrip`).
11. A node without a path is deployed at a path its links do not name, and one
    with a `transport.host` or a port without TLS keeps it, so that its links
    do not reach the script (`ServedWorks`); deleting a script leaves the rows
    of its routes in `cf_resources` (`RowsMatchCloud`). A node switched on again keeps the health `disabled` and
    out of every document until a cycle reaches it (`ServedAsTold`); a document
    without a usable node that Clash knows sends everything out directly
    (`DecidedAsRuled`).
12. `rankCandidates` promises healthy nodes first (`balancer.ts:37`), which holds
    for the strategy `health` only; `Selection` follows the code.
13. Saving a form sends every field back: over what others wrote, blindly if the
    record has not arrived, rounded if it cannot be shown; and that of a node
    resets `alpn`, the TLS version, `allowInsecure`, the transport's mode and a
    fingerprint that is null, of which it shows nothing (`UneditedStands`).
14. The wizard's last button does not take the new administrator to the pages
    (`EntersPages`): it has `me` read again and not `setup-status`, whose old
    answer keeps the wizard on the screen until the page is loaded anew. A setup
    that fails at its last statement, the session, sends the wizard back to its
    first steps without showing the recovery code of the account that now
    exists.
15. A page may show what was answered in the name of another administrator once
    the session has changed behind the tab (`crossed` in `KeptApart`): only a
    logout that is answered here empties the cache.
16. A restore changes administrators and users and deletes nothing from KV but
    the settings: a session whose row it took (`wiped` in
    `RevokedCachedOnlyByRace` and `LateGrantOnlyByRace`) and a credential that
    it switched off or replaced (`restored` in `StaleYesOnlyByRace`) are good
    until their entries die.

## Proofs

Eight modules of theorems, checked by TLAPS, for any values of the constants
that satisfy the assumptions named in the module: any sets of tokens,
administrators, users, nodes, backups and handlers, any lives of sessions and
cache entries, any delays and any bounds. Each module proves its
inductive invariant (`Invariance`: `IInv` holds at first, and every step keeps
it) with one lemma per action or kind of action, and draws the properties from
it. Four of them have a second part, with an inductive invariant of its own, for
the component that the MC module they extend puts beside theirs:
`EdgeAccess_proofs` for `Tunnel`, `Accounts_proofs` for `Limits` and `SignIn`,
`Deployment_proofs` for `Network`, `Settings_proofs` for `Panel`. What is
proved there is proved of the component's own `Spec`, without the other.

Every invariant and every action property that a run checks is proved.

**Session** (`TypeCorrect`, `GrantsAreSound`, `RevocationReachesCache`,
`RevocationIsFinal`, `SessionsEndOnRequest`). `RevokedCachedOnlyByRace` is not
inductive: a revocation deletes the key first and marks the row later, and in
between the row is still live. So `IInv` also has its half-way form
`PassedCachedOnlyByRace` (a key that a revocation has passed is empty or
raced; a session that a restore took is in neither), and what both rest on: the cache copies rows (`CacheFaithful`), rows
never change hands (`RowsWellFormed`, step lemma `RowsStep`), handlers carry
what they read (`LocalsOK`), a reported revocation has marked its row
(`EndedNotLive`), the clean-up takes only what has run out (`ExpiredPast`). One
lemma per conjunct shows that every step preserves it; `RaceStep` is the core,
with a put that outlives a revocation (`PutRace`) and a selection that begins
one (`SelectedRace`) as its two cases. `EndsOnlyOnRequest`, which no run
repeats, follows from `IInv` as an action property.

**Health and Delivery** (`Delivery_proofs`: `TypeCorrect`, `FlagIsTrue`,
`AlertsAgree`; `DeliveryIsHealth`, `DocumentsFollowAlerts`, `ClientsFailOver`,
`ClientsFollowRules`, `FormatsAgree`). Health's `IInv` is
`TypeOK /\ BusyIsTrue /\ AlertsFollowHealth`. The alert property needs
`AlertMeaning` (an alert is raised exactly when the picture it leaves agrees
with the new row) and the part of `TypeOK` that says which handlers still have
alerts to send. `QuietStep` disposes of all the actions that touch neither rows
nor alerts. Every step of `Delivery` is one of `Health` (`StepOfHealth`), so
`DSpec` implements Health's `Spec` and keeps its invariant; `DInv` adds
`OffIsParked`, why a row still says "disabled". `ServedAsTold` then relates a
document to the last alert through the row both come from. The other three are
about operators, for all fleets, templates, rules and columns of their types:

- A sort is the set of lists without a descent, and `SetToSeqsLists` shows that
  such a list has every row once. `PickedIs` shows that the proxies of a Clash
  document are the rows Clash knows, in the order of the ranking. It is an
  induction: the library's induction theorems take an operator, so the
  least counterexample is taken from the well-foundedness of `<` (`LeastOf`).
- Failing over: `BeforeTotal`, since the last key is the primary key, makes the
  minimum of the comparison unique (`FailoversAre`); `RankingOfRest` shows that
  there is a ranking once some have failed; `ClientTries` that names that differ
  (`NamesApart`) send a client to the first proxy left.
- Rules: a line of the document matches what its rule matches (`LineMatches`;
  `RangeOfOne` for a single address), so the first match is the same.
- Links: `Says` is what a set of fields determines; the lemmas `QuerySays`,
  `VlessProxySays` and their like compute both readings to one `Connection`.

**EdgeAccess** (`TypeCorrect`, `StaleYesHasCause`, `EdgeRefinesAccess`). The
refinement rests on an account of time, `Timely`: what is left of a cached yes,
added to the time since its credential was allowed, fits into the window,
because whoever puts it has waited for as long as what was read is out of date
(`InTime`); and a credential belongs to one user (`Drawn`), so that a rotated or
deleted one is never allowed again. With that every step is a step of `Access`
or leaves its variables alone. `StaleYesOnlyByRace` needs none of the times:
whoever takes a grant away is about to delete the key, and what keeps them from
it leaves a trace, a restore's included.

**Tunnel** (in `EdgeAccess_proofs`: `CarriedAndBilledHolds`). Chunks in order and
everything billed is inductive with what a session has done by where it is
(`TunnelInv`): nothing is relayed or billed before the listeners are attached
(`Silent`), while the socket is open the last chunk received is the last one
delivered unless it is the payload of the first message (`Latest`), what was
received has been counted and what was counted was delivered (`Counted`), and
the endpoint bills when nothing more can come (`AtTheEnd`). It covers any number
of chunks, up and down.

**Settings** (`TypeCorrect`, `StaleCopyHasCause`, `MaintenanceHolds`,
`SettingsRefineAccess`). The same account, of versions: a copy's age and what is
left of its life fit into `Ttl + MaxDelay`, and whoever took the copy holds it
for `MaxDelay` more. A writer behind the guard has a version without maintenance
of such an age to show for it (`Knows`), and that is what `WritesStop` says of
the step that writes, for every role but one.

**Accounts** (`TypeCorrect`, `NewPasswordShutsOld`, `SecretsProven`,
`SuperStays`, `OneSetup`). `IInv` has what a handler knows by where it is. For
the password: the one session that its change spares is its administrator's own,
so that to rebase it leaves nobody else's behind. For the super_admins: the
deletion of one has counted another, which is still there when the target goes,
or the count was out of date. `SetupOnce` is no longer among the runs'
properties.

**Limits** (in `Accounts_proofs`: `GateTypeCorrect`, `LimiterBounds`,
`GuardBounds`). `Rated` says what a stored window has to do with what was let
through: an open one has counted all since the request that opened it, and what
is older is at most `Limit - 1`, because that request took a place; one that is
over has lost it to age. `Guarded` adds the logins that have passed the guard and
recorded nothing yet to the failures that are counted. The counts by age are
added up by a recursive function (`Total`), about which the lemmas are proved by
induction on the age, from the least counterexample (`LeastOf`, `Induction`).

**SignIn** (in `Accounts_proofs`: `PagesKeptApart`, `RecoveryCodeStays`). Unless
the session has been crossed, whatever the tab holds and whatever is on its way
to it is in one name, the cookie's, or the cookie is gone and the logout on its
way back (`InOneName`); before the setup it is in nobody's (`NotYet`). For the
recovery code it is enough that an answered `setup-status` is asked for again
only by a reconnection, and that a wizard off the screen is at its first step
(`Wizardly`).

**Users** (`TypeCorrect`, `DocumentsKeepToNodes`, `NobodyOffWithoutCause`,
`GrantsAddUp`, `RegeneratedLinksWork`). The four properties compare rows with
what was asked, and each is inductive only together with what the handlers
between two awaits know (`Knows`): an extension has computed the date that is
asked for, an update of nodes is alone or nothing is asked (`OneGap`), outside
such an update the assignments are the nodes asked for without those that are
gone (`Assigned`), whoever the hourly job has selected is not asked to be on,
and a document that falls back on all nodes may name them all.

**Backup** (`TypeCorrect`, `ListedBackupsExist`, `RestoresRoundTrip`,
`RestoresFailForCause`, `AdminsReturn`). `IInv` follows a payload from the
database through R2 to the database. As long as nobody has written, a handler
that copies has copied what there is (`Copied`); an object is all it can be of a
consistent database (`Faithful`); and a restore has restored the tables it has
passed (`Restored`), those ahead of it being empty if it wipes (`Emptied`). The
lemmas on `Order` say that a table refers to earlier ones only, which is why no
foreign key is in the way of a complete payload; a restore that wipes
has nothing to clash with (`Emptied`). `Alone` (nobody else has the id
of a backup that is not listed yet) gives `ListedExists`, `CulpritThere` gives
`AdminsGoneForCause`.

**Deployment** (`NodesStayValid`, `LinksReachScripts`, `ListMatchesAccount`).
`NodesValid` becomes inductive with
`CarriedValid`, a handler about to write carries a row that `validateNode` has
accepted, and `Shape`, rows and locals keep their names. `CreateStep`,
`EditStep`, `RereadStep` and `WriteStep` are the steps that matter; `MoveStep`
disposes of the others, since nothing that happens at Cloudflare, succeeds or
fails there, can make a row invalid. Overlapping edits lose one another's
changes, but each writes a whole row that it has validated: the mutant that
writes only the columns a request gave violates the property.

The other two rest on `CInv`, with one lemma per action. For the links it says
what a handler still knows that nobody has disturbed (`Fresh`): its node is
there, its script is published at the node's path, and the host it is about to
write leads to that script (`Reaches`). A step of one handler either leaves
another all it knows or has disturbed it (`Still`), which is what the history
`clean` and `due` record. `Served` has what a node that is due must have, its row's
`Speaks` included, and `Apt` what a deployment knows of it on the way. For the list it says that at a thing that is not torn
one handler at most has done something (`Late`), and that its program counter
tells whether the thing is there and whether it is listed (`ListedAt`); when
there is none, the list is right. Routes have an invariant of their own
(`RInv`): they are listed by the deployment that added them, and never
taken off the list.

**Network** (in `Deployment_proofs`: `NetworkInvariance`, `PrimaryIsTheOneAsked`,
`BackendsAsAsked`, `RulesStayFit`, `ChainsStaySound`). Four kinds of rows, and
four parts of `NetInv` that never meet: `StepsApart` sorts the actions by the rows
they touch and shows that each leaves the rows, the handlers and the history of
the other kinds as they were, or tells a handler that it is not alone. Each part
then has to be kept by its own actions only. What it adds to its property is what
a handler between two statements knows: one that has cleared the flags and has
been alone finds none (`ServerEdit`), an address that was left out is the row's
(`BackendEdit`), a rule given as a whole fits (`RuleEdit`), and the hops that a
validation has passed are on or have been switched since (`ChainEdit`).

**Panel** (in `Settings_proofs`: `TypingIsKept`, `UneditedFieldsStand`). The
invariant `WebInv` follows a record from D1 into the form and back. A copy, kept
or on its way, is as the record but for what was written since it was read, and
an answer on its way misses nothing that the kept copy does not (`CopiesTrue`);
what has not been typed is shown as in the copy (`FormTrue`); so what a save is
about to write back is what is stored, or it was typed, or the copy missed it
(`SentTrue`). Outside of dialogs nothing is read while a save is under way, so
that what the page itself has written meanwhile was typed on it (`PageTrue`).
`Shows` and `Parses` are the two conversions: a whole amount that is shown and
read again is the same. `OnlyApplies` and `KeepsTyped` find the one action that
can break each property, and `AppliesEdits` shows that Apply does not.

Model-checked only: the two liveness properties, `BusyClears` and
`ToldOfLeaving`, since liveness under fairness is beyond TLAPS here; and the
definitions that state what the documents claim and the code does not do (above,
"Where the code departs from what it says"), which are false and have
counterexamples. No module here declares a RECURSIVE operator, so each of them
can be proved about.

## Not modelled

- Text: URI, YAML, Base64, HTML, the script that is published, the byte layout
  of the VLESS header, the spelling of addresses and sizes beyond what parses.
- Cryptography: fresh values, compared.
- Append-only records (audit, logs, analytics) and pages and commands that only
  read them.
- The table of permissions by role and the origin and CSRF checks: constants and
  comparisons without state.
- The daily traffic counter and tags, which nothing decides on; `pickCandidate`,
  which only tests call.
- Cloudflare's token, accounts and zones, which are only read; a route is
  dropped with its script, as Cloudflare does.
- In the web interface: creation of records, lists and bulk selection, leaving
  and returning to a page, a second save of the settings while one is under way,
  a request that is carried out after its answer was given up.

## Plan

Every module that was planned is written, and every safety property of the runs
is proved. Worth adding when the code changes: creation of records by the forms
(`Panel` has edits only), and the pages of the web interface that list records,
as soon as one of them keeps more than the answer of a query.
