# A formal model of rustypaste

TLA+ modules, TLC configurations and TLAPS proofs for rustypaste, the paste
server in `src/`. The models follow the code (paths below are relative to the
root of this project's parent, so the Rust crate is in `src/src/`);
`PROJECT.json` maps every definition to the lines it stands for.

## The system

rustypaste is one process. Pastes are files in an upload directory; with `[auth]`
configured, a SQLite database holds who owns them, who may log in, and which
public link leads to which file. Nothing locks the two together: handlers run in
parallel on several threads, a cleanup thread removes expired files, two tasks
consume its messages and purge the database, and a start of the process brings
the database in line with whatever the directory contains. Without `[auth]` there
is the directory only, and the configuration changes while the server runs.

| Component | State | Operations | Interacts with | Hard parts |
|---|---|---|---|---|
| Paste table (`store.rs`) | table `pastes`, three unique indexes | insert, insert deduplicated, delete by id or path, reconcile | handlers, consumer, startup | clock read before the transaction; expired links freed by the next insert; rows rewritten from file names |
| Stored names (`paste.rs`, `util.rs`, `ownership.rs`, `password.rs`) | the names themselves | store, split, glob, sidecar name | all readers of the directory | one suffix, four readers with different ideas of it |
| Upload, serve, delete (`server.rs`, `paste.rs`) | the directory, the table | many file and database calls each | each other, cleanup | check-then-act on files and rows, roll-back, one-shot consumption |
| Cleanup thread, consumer (`main.rs`, `util.rs`) | directory, a channel | list, remove, send; receive, delete row | handlers | runs at any time; messages lost in a crash |
| Startup reconciliation (`ownership.rs`, `main.rs`) | directory, table | scan, retain rows, reconcile | cleanup thread, already running | crash at any earlier step; files that go while they are scanned |
| Credentials (`store.rs`, `auth.rs`) | `browser_sessions`, `api_tokens` | issue, authenticate, revoke, prune, purge, provision | every request, startup | authentication is several statements without a transaction |
| CLI device login (`store.rs`, `auth_server.rs`) | `cli_device_flows`, `api_tokens` | start, approve, poll | browser, CLI client | repeated polls, two approvers, clock read before the transaction |
| Browser login (`store.rs`, `auth_server.rs`) | `oauth_flows`, `browser_sessions`, the browser's cookies | login, callback, logout, cookie refresh | OIDC provider, browsers | replayed callbacks, links opened elsewhere, answers that overtake one another |
| OIDC client (`oidc.rs`) | the provider's metadata | exchange, discover, verify, user info | browser login, provider | metadata copied before an await, replaced after it |
| Principals (`store.rs`) | `principals` | upserts, revocation | logins, startup | claims read in one order and written in another |
| Configuration (`config.rs`, `main.rs`) | file, shared configuration, a channel | parse, compare, replace, send, receive | handlers, cleanup thread | stale copies; a thread that takes one message per round |
| Deployment without `[auth]` (`server.rs`, `paste.rs`, `file.rs`, `util.rs`) | the directory only | upload, serve, delete, list | configuration, cleanup | links are names of files, found by pattern; checks before creation |
| Listing with `[auth]`, schema migrations, headers, MIME, random names, middleware, landing page | none | | | read-only, formatting, or before anything runs; not modelled |

What makes them correct, in short: a public link leads to one paste of one owner
and is free as soon as that paste has expired; content leaves the directory only
by right; what was acknowledged is stored, what failed leaves nothing behind; a
one-shot paste is viewed once and a protected one only with its password;
files and rows agree whenever nothing is going on, through crashes as well;
expired pastes go in the end; a revoked credential stays revoked, and use of a
credential never shortens its life; a login flow hands out one token, to the
person who approved it, and its session stays in the browser it was started in; a
configuration comes into use everywhere or nowhere. The hazards behind these are
listed in `PROJECT.json`.

## The modules

| Module | Role |
|---|---|
| `FileNames` | Names as sequences of parts; directories; what each reader takes a name for. |
| `PasteTable` | The statements of the paste table as functions from table to table. |
| `PasteStore` | The table under every order of its transactions. |
| `PasteServer` | Handlers, cleanup, consumer, crash and start over one directory and one table; extends `PasteTable`. |
| `CredentialTable` | The statements on sessions and tokens as functions. |
| `Credentials` | The life of credentials, with restarts; extends `CredentialTable`. |
| `OneTimeGrant` | What a login flow promises, abstractly. |
| `DeviceFlow` | The CLI login; implements `OneTimeGrant`; extends `CredentialTable`. |
| `BrowserLogin` | The OAuth login, its cookies and the provider's keys; implements `OneTimeGrant`; extends `CredentialTable`. |
| `Configuration` | The configuration file, the watcher, the shared copy and the channel. |
| `OpenServer` | Handlers and cleanup without `[auth]`, under changes of the configuration; extends `Configuration`. |
| `MCPasteStore`, `MCPasteServer`, `MCCredentials`, `MCDeviceFlow`, `MCBrowserLogin`, `MCOpenServer` | The values of the constants in the runs. |
| `PasteTableProofs`, `CredentialTableProofs` | Lemmas about the two tables. |
| `PasteStoreProofs`, `PasteServerProofs`, `CredentialsProofs`, `DeviceFlowProofs`, `BrowserLoginProofs`, `OpenServerProofs` | Theorems about the module in the name. |

**Names.** A stored name is a sequence of parts separated by dots, the last one
possibly an expiry stamp. `StoredName` builds it as `store_file` does;
`SplitExpiry` (the scan, ten digits or more), `ExpiredOnDisk` (the cleanup, any
number) and `HasStamp` take it apart. Stamps are clock ticks; `TicksPerSec` ticks
make a second, so that the rounding of milliseconds to seconds is there.

**Table.** `pastes` is a function from paths to rows, `storage_path` being
unique. `InsertPaste` clears expired links (`clear_expired_public_link`), looks
for an active paste of that name, and inserts or reports a conflict, as the code
does inside one transaction. The clock of a transaction is any earlier second,
because `unix_now()` is called before the write lock is held.

**Server.** `req[r]` is a request with its program counter. A step is one
file-system call or one database call with the decisions after it, the grain at
which handlers interleave. The content of a file is the number of the upload that
wrote it; `fate` records who removed it. The scan at startup goes directory by
directory (`ReadDir`) and entry by entry (`ScanEntry`) while the cleanup thread
runs already, as `setup` starts it before `main` scans. An entry whose file that
thread has removed since is skipped, or not returned by `read_dir` at all; both
are allowed. If any was skipped, `RetainExisting` keeps all rows that have not
expired, as `retain_existing_pastes` does, also those of files that are gone; the
scan holds what it found until `Reconcile` writes it. `scan.kept`, the paths whose
rows were retained without a file having been found, stays as history until the
next start, for the properties. `Crash` loses requests, thread and channel.
`DatabaseFails` makes any database write fail, up to `MaxFaults` times.

**Credentials.** One request is `Select`, `ReadClock`, then `Expire` or `Roll`:
the statements of `authenticate_credential`. `Start`, `RevokeManaged`,
`Provision`, `EndProvisioning` and the first `PurgeExpired` are the start of the
server, in the order of `AuthRuntime::initialize` and `main`.

**Device flow.** A call reads the clock when it begins (`Begin`) and runs its
transaction later. SQLite serialises transactions or fails one of them (`Fail`),
so a transaction is one step. The mapping to `OneTimeGrant` takes a flow that has
minted tokens for delivered, one in the table for pending or approved, and one
that was started and is in neither place for lapsed.

**Browser login.** `call[c]` is a request with its program counter: a callback
goes from `consume_flow` over `exchange_code`, perhaps `discover` and
`update_keys`, `verify_hash`, `user_info` and `upsert_principal` to
`create_session`, one step per database statement or provider call, and any of
these may be its last (`Fail`). `jar` holds the two cookies of each browser; an
answer reaches it in a step of its own (`Receive`), so answers overtake one
another. The provider replaces its keys at any time (`RotateKeys`) and publishes
the newest two; `cached` is the generation in the memory that all calls share.
The mapping to `OneTimeGrant` is that of the device flow; the consumption of the
flow by a callback plays the part of the approval.

**Configuration and open server.** `EditFile`, `ParseFile` and `ReplaceConfig`
are the file, the watcher before the write lock, and the watcher under it. The
handlers that store a file keep the read lock from their checks to its creation
(`HoldsReadLock`), so the configuration does not change between `CheckTarget` and
`Create`, but other handlers run. The cleanup thread takes one configuration per
round or, disabled, blocks until there is one. A path is a record of upload
directory, type directory, name and stamp; `GlobMatchFile` and `Lookup` find
files as a download does. A protected paste and its password are one file here;
`PasteServer` takes them apart. `owed` holds the links that were answered and
must still work.

The bodies marked "A mutant" are not used by any specification. Each is a
plausible mistake in the definition below it, and shows that the property it is
listed with in `PROJECT.json` would notice.

## The runs

| Run | Checks | Instance |
|---|---|---|
| `store` | `TypeOK`, `UniqueActiveLink`, `InsertsExactlyFreeLinks`, `DuplicatesAreLasting`, `OwnershipPreserved` | two owners, files and URLs, names without stamps |
| `server` | `TypeOK`, `RemovalIsAuthorised`, `FilesHaveRows`, `RowsHaveFiles`, `OwnersKeepTheirPastes` | two requests, cleanup, one crash and the scan after it, one database failure |
| `concurrent` | `RemovalIsAuthorised`, `AcknowledgedIsStored`, `OneshotIsViewedOnce`, `ProtectedNeedsPassword` | three requests, five types, duplicate suppression, one database failure |
| `expiry` | `ExpiredPastesGo` under `FairSpec` | two requests, one crash, three ticks to the second |
| `credentials` | `TypeOK`, `BoundedCredentials`, `UseExtends`, `AcceptedAsConfigured`, `OldestGoFirst`, `NewCredentialsStay`, `RevocationIsFinal`, `ExpiryNeverMovesBack` | two requests, two principals, a static token that changes hands |
| `device` | `TypeOK`, `BoundedFlows`, `FlowsAreOneTimeGrants` (refinement of `OneTimeGrant`) | two calls, two people, two flows |
| `login` | `TypeOK`, `BoundedFlows`, `SessionsStayInTheirBrowser`, `OneRotationIsHarmless`, `LoginsAreOneTimeGrants` (refinement of `OneTimeGrant`) | two calls, two people, two browsers, two rotations of the keys |
| `open` | `TypeOK`, `LinksLeadToUploads`, `ListingAgrees`, `OvershootIsBounded`, `CleanupGetsTheLatest` | two threads, three uploads of files whose names and contents recur, four configurations |
| `reload` | `LinksLeadToUploads`, `ListingAgrees`, `ReloadTakesEffect`, `ExpiredContentGoes` under `FairSpec` | one thread, a one-shot, a protected and a URL paste, four configurations |
| `orphan_race`, `delete_race`, `startup` | one property each, violated | see Findings |

**Bounds.** Two owners show whose paste it is; a third adds nothing that a
property tells apart. Two requests show every conflict between two handlers, and
with the cleanup thread, the consumer and a crash there are up to five actors.
The third request of `concurrent` is the viewer of what two others fight over.
One crash is enough because a start reads only directory and table, and these
may be in any state the steps before can leave. In `expiry` a second has three
ticks, so that a file can be removed while its row, which has whole seconds, still
counts as unexpired for the scan. Uploads to `PasteServer` expire before `MaxTime`,
within the time that is modelled. In `credentials` two requests and
a timeout of two intervals make both races possible (roll against roll, roll
against expiry); `MaxActive = 1` makes every second login prune. In `device` and
`login` one active flow makes every second start meet the limit, or a consumed
predecessor. In `login` two browsers and two calls let a link be opened
elsewhere, twice at once, or after another login; the second rotation is what
`OneRotationIsHarmless` excludes, and without it the condition would say nothing.
In `open` two edits let a configuration be replaced before the cleanup thread has
taken it; among the four are one with another upload path and one with `[auth]`,
which must be refused. The limit is of one file in a directory itself or of two;
`OvershootIsBounded` counts a directory's own files, and with three uploads only
the limit of one can be exceeded.
`reload` has one thread, as liveness under two is too large; the two edits and
the cleanup thread remain. `MaxTime`, `MaxGen`, `MaxId`, `MaxStarted`,
`MaxRequests`, `MaxCrashes`, `MaxFaults`, `MaxEdits` and `MaxRotations` only end
the state space. All runs switch the deadlock check off: with these bounds the
system ends, and without requests it rests anyway. Symmetry is used where no
liveness is checked.

**Names used once.** The passing server runs have `FreshNames = TRUE`, which is
`random_url`, or users who do not reuse names. With names used again
`RemovalIsAuthorised` is violated (run `delete_race`), and so would
`OneshotIsViewedOnce` and `AcknowledgedIsStored` be: everything that looks up a
path twice may find another upload there. Without `[auth]` the runs use names
again, but each name for one directory and never for two uploads at once, and the
contents of one-shot and protected pastes are nobody else's; see below for what
happens otherwise.

**Fairness.** `FairSpec` of `PasteServer` lets the cleanup thread, the consumer,
the start and the clock go on, and every request that has begun. The code
justifies it: the thread and the tasks are endless loops that sleep for bounded
times, requests wait for nothing but I/O, and no lock is held across an `await`
on another. Nobody has to send a request. Liveness is checked without database
failures, since the consumer does not repeat a failed deletion. `FairSpec` of
`OpenServer` does the same for the watcher, the cleanup thread and the handlers;
nobody has to change the file. A watcher that waits for the write lock gets it,
as Rust's `RwLock` on the platforms used prefers a waiting writer to new readers,
and as readers hold it only while they store one file.

## Findings

1. `orphan_race`: the cleanup thread removes the password of a paste that is just
   being created (`util.rs:134`); the paste is then open.
2. `delete_race`: a deletion authorised by one row removes a file that another
   principal uploaded meanwhile (`server.rs:346`).
3. `startup`: a static token that moves to another principal keeps the server
   from starting (`store.rs:622`), since the revoked row is purged only later.

The following was met as well. No document of the repository says otherwise in so
many words, so there is no run of its own; the runs avoid the case and the
hazards in `PROJECT.json` name it.

- A public name ending in ten digits is taken for an expiry by the scan
  (`ownership.rs:114`): after a restart two pastes share a public name.
- `find_owner_duplicate` (`store.rs:1212`) offers an expiring paste for an upload
  without expiry.
- A credential that was just rolled is revoked by a request that has read it
  before (`store.rs:1557`).
- A one-shot paste with an expiry that is viewed exactly at its stamp is renamed
  onto itself (`server.rs:225`), and a second viewer succeeds.
- After a crash within the second of its view, the scan takes the viewed one-shot
  paste for one that has not expired, and it is shown again.
- If the cleanup thread removes a file while the start is scanning it, the start
  retains every unexpired row (`main.rs:281`), also that of a deletion or view
  which a crash cut off between file and row: it holds its link, and is looked
  up in vain, until the next start. `RowsHaveFiles` and `ExpiredPastesGo` say that
  no other row stays like this.
- Without `[auth]` the duplicate check looks into all directories
  (`server.rs:506`), so an ordinary upload may be answered with the link of a
  one-shot or protected paste of the same content; and a name may be in use in
  two directories, or twice at once with and without expiry, so that one link
  hides the other.

## The proofs

Everything below is proved for all values of the constants, from the assumptions
that the modules state about them and, where it says so, a named condition.

**`PasteStoreProofs`**, with the lemmas of `PasteTableProofs`: for all owners,
names, contents, types, bounds and sets of scanned files:

- `TypeCorrect`: the type invariant.
- `LinkInvariant`: the inductive invariant `LinkIInv`. `UniqueActiveLink` is not
  inductive: a reconciliation rewrites name and expiry of a row from its file, so
  one must know that they agree already (`RowsMatchFiles`), that the link of an
  owned row is its public name, that only expired rows are without it, and that
  links are unique.
- `LinksAreUnique` and `FreeLinksAreGranted` follow from it.
- `OwnershipIsPreserved`: an action property, from the type invariant and what
  each transaction does to owners.
- `DuplicatesLast`: with the invariant that a row with a deduplication key is
  owned, does not expire, and has its category's directory.

Those about links and duplicates assume `CleanNames`: no public name ends in a
stamp. The assumption is needed: with the name `a.1234567890` TLC finds two
pastes of one link. The argument is one lemma per transaction and invariant, and
the lemmas `SplitStored` and `ReconcileEffect` on which the reconciliation rests.

**`PasteServerProofs`**, for all names, types, numbers of requests, crashes and
database failures:

- `TypeCorrect`: the type invariant, from `StateTypes`, which also types the scan,
  the queue and what a request holds. The steps are grouped by what they touch:
  `EveryDiskCall` and `EveryTableCall` say that each of them makes at most one
  call of each kind, and each kind of call has a lemma.
- `OnlyByRight`: `RemovalIsAuthorised` through every interleaving of handlers,
  cleanup, crash and scan, if every upload has a name of its own that ends
  neither in a number nor in the extension of the sidecars (`DistinctNames`; run
  `delete_race` shows that the first part is needed). The invariant `RemovalInv`
  ties each link of the chain to the uploader: content lies at the path of the
  upload that wrote it, or at that of its one view (`GoodFiles`); a row with an
  owner is at a path of that owner's upload (`GoodRows`), and so are the records
  that a deletion read earlier (`GoodRecords`), because names are used once; what
  the cleanup thread listed is expired or a sidecar by its name (`GoodCleaner`);
  and a removal once rightful stays so (`GoodFates`).
- `NoContentWithoutRow`, `NoRowWithoutContent`, `PastesStayWithTheirOwners` and
  `LinksLeadToStoredContent`: `FilesHaveRows`, `RowsHaveFiles`,
  `OwnersKeepTheirPastes` and `AcknowledgedIsStored`, from the invariant
  `StorageInv`, which TLC checked on the runs before it was proved. It relates
  directory, table and handlers between any two calls: only a created content has
  a fate (`FreshFates`); the content of an upload that is about to insert its row,
  or was answered, is where the upload put it, or was rightfully taken away
  (`StoredInPlace`); a row held as a duplicate or a winner is that of an
  acknowledged upload of the same owner and content (`DuplicatesStored`); a row
  with an owner is of an acknowledged upload (`OwnedRows`) and the row of any
  paste of one that is done (`FinishedRows`), with its file unless that has
  expired, the handler that removed it is about to remove the row, or that handler
  was lost in a crash and the row retained by the start (`RowsFiled`, `Retained`);
  every content that is not lost has its row or an upload that goes on
  (`FilesFiled`, `OwnRows`); from its first directory on the scan has found
  every file of a directory it has read, or has it before it, or the file has gone
  by expiry, with no handler running before the table is reconciled
  (`FaithfulScan`, `QuietStart`). That only rows of lost deletions and views are
  retained without a file is an argument over two steps: what a start drops or
  keeps: a request that is about to delete a row is lost in the crash
  (`DroppingRuns`, `DroppingLost`), and its row stays accounted for through the
  start and after it (`RetainedLasts`).
  The argument goes over kinds of calls and not over handlers:
  `DiskEvents` and `TableEvents` say what one step can do to a file and to a row,
  `RequestCases` what it can do to a request, and each part of the invariant has a
  lemma over these.
- `ProtectedContentIsProtected`: `ProtectedNeedsPassword`, from `PasswordInv`. The
  sidecar is there before the content and after it (`SidecarsFirst`,
  `SidecarsLast`), so whoever opens the content has met the sidecar and knows the
  password (`OpenersKnow`, `ViewersKnow`).
- `OneshotsAreViewedOnce`: `OneshotIsViewedOnce`, and `LastingOneshotsAreViewedOnce`,
  which says the same of the one-shot pastes without an expiry where others have
  one, both from `OneshotInv`. A content at its path was not viewed yet
  (`Unviewed`), downloads look up only paths at which uploads stored something
  (`LookupsStored`), so a renamed file is not found again, and of all who have the
  file open one renames it (`Viewers`).

All of these assume `DistinctNames`. The further hypotheses are the exceptions that
the code has:

| theorem | assumes | because |
| --- | --- | --- |
| `NoContentWithoutRow` | `RemoteChecked`: no remote upload meets a failure of its second duplicate check | there the handler returns and leaves the file it has stored (`server.rs:598`) |
| `LinksLeadToStoredContent` | where pastes are deduplicated, none expires | `find_owner_duplicate` offers a paste that expires for one that does not |
| `ProtectedContentIsProtected` | the cleanup thread does not run | it may remove the password of a paste being created (run `orphan_race`) |
| `LastingOneshotsAreViewedOnce` | no crash | the scan may take a viewed one-shot paste for one that has not expired |
| `OneshotsAreViewedOnce` | no crash, and no paste expires | a view at the very millisecond of the stamp renames the file onto itself |

The instances that TLC checks meet them: run `concurrent` has neither crashes,
cleanup nor expiries.

**`CredentialsProofs`**, with the lemmas of `CredentialTableProofs`: all eight
properties of the run. The inductive invariant says that `expires` is the last
use plus the timeout, that secrets are unique (`Types`), that requests exist only
while the server is up, that between revocation and provisioning every valid
static token is one of the configuration (`Configured`), and what a request that
has read a row may still rely on (`GoodRequests`). `BoundedCredentials`,
`OldestGoFirst` and `NewCredentialsStay` rest on what `Pruned` keeps, by
cardinalities.

**`DeviceFlowProofs`** and **`BrowserLoginProofs`**: types, limits, and that both
implement `OneTimeGrant`; for the device flow also `BoundedCredentials`, which run
`credentials` checks for the same statements. For the device flow `FlowsMove`
classes every step as lapse, start, approval or delivery, and `DeliveredOnce` ties the minted tokens to
the rows. For the browser `OneGrantEach` says that a flow is in the table, with
one callback, or spent, never two of these; `OwnCookies`, that cookies in a
browser and on their way to it are of flows started there; `KeysSuffice`, what
each point of a callback knows about the keys while there was at most one
rotation.

**`OpenServerProofs`**: types (with the authentication settings, which never
change); `CleanupIsUpToDate`, which is inductive by itself given the types;
`OvershootBound`, where the handlers between check and creation are counted with
the files (`RoomInAll`), if configurations of one upload path have one limit
(`LimitsAreFixed`; a reload that lowers the limit leaves what is there); and, if
uploads keep out of each other's way (`SeparateUploads`), `LinkInvariant`,
`LinksWork` and `ListingIsExact`. `LinkInv` says that no two unexpired files of an
upload directory have one name, that every file and every handler about to create one
belongs to an upload sent, and that links still owed have their file; that the
greatest stamp of a name exists is proved by well-founded induction on sets
(`MaxIsMember`).

**Only model-checked.** Liveness (`ExpiredPastesGo`, `ReloadTakesEffect`,
`ExpiredContentGoes`) stays with TLC, the prover having no means for it. Every
invariant and every action property of the passing runs is proved, most under the
hypotheses named above.

## What the models leave out

- Uploads of several fields: each field is stored on its own, so a failure in a
  later one leaves the earlier ones; the models have one field.
- Errors of the file system other than a file that is missing (in the scan as
  well) or exists already: entries that are there and cannot be read are only in
  `PasteStore`, whose reconciliation gets any scan and any retained rows. A start
  that fails, at a directory or at the database, is a `Crash`.
- Writes to the configuration that the watcher does not take for one of the data
  in place (`EventKind::Modify(Data)`, `main.rs:112`): after a rename over the file
  the new configuration does not come into use. `EditFile` is an edit in place.
- Contents written in part; the size limit of the directory with `[auth]`; MIME
  checks. Without `[auth]` all files have one size.
- Leading zeros and signs in suffixes; the random part of names; spaces in names
  and their replacement; names of files that equal names of directories.
- The password comparison is one step with the look for the sidecar; Argon2 is
  a fact about the requester (`knows`).
- The check that a row's path lies under the upload directory, which always
  holds when the configuration does not change.
- The age order in `find_owner_duplicate`: any matching row may be returned, or
  none where the newest may be unfit.
- The sessions of the browser and the tokens of the API are one table in
  `Credentials`; `principals.last_seen_at` is left out.
- Timeouts are at least a roll interval; with shorter ones nothing ever rolls.
- The rights of a principal, which claims give or withdraw, the rules on claims
  (they decide either way), the check of the origin of a request, and the choice
  between a bearer token and a cookie.
- What a remote URL delivers: the download succeeds or does not.

Not modelled at all: schema migrations, one transaction before anything else
runs; headers, MIME types, random names, the middleware and the landing page,
which parse or format single values without a state of their own; listings with
`[auth]`, which are queries without effect.

## Plan

Done, in this order: `PasteStore`, `PasteServer`, `Credentials`, `DeviceFlow` with
`OneTimeGrant`, `BrowserLogin`, `Configuration` with `OpenServer`, and the proofs
about each. What would come next: the rights of principals, and the algorithms of
`util.rs` and `header.rs` against reference definitions.
