# TLA+ models of webmanager

code-docker is a container image around code-server. Its own program is
**webmanager** (`src/webmanager`): a Go backend that serves terminals, a
password gate, a WebDAV share, project and tool management over HTTP and
WebSocket; a React frontend; and an extension that shows the frontend's pages
inside code-server. Everything else in the repository is start-up scripts,
service configuration and documentation. These modules model the parts whose
correctness depends on the order in which goroutines, requests, answers,
clicks, restarts and time come, and prove what can be proved of them for any
number of each.

In the sections on the backend paths are relative to `src/webmanager/backend`,
in those on the frontend to `src/webmanager/frontend/src`, unless they start
with `src/`.

## 1. Inventory

### Terminal sessions: `internal/termsession`, `handlers_terminal*.go`

*State.* `Registry` holds a map from names to sessions under one mutex. A
`Session` holds its PTY, its name, its pin, its attached clients (`sinks`), the
scrollback ring and whether it is closed, under a second mutex, and two
goroutines outlive the requests that start them: `pump`, which reads the PTY
until it ends, and `forgetWhenDone`, which takes an ended session out of the
map. *Operations.* `GetOrCreate` (which spawns the shell with no mutex held),
`Rename`, `SetPinned`, `Remove`, `List`, the reaper's `reapIdle`; of a session
`Attach`, detach, `Close`. *Interactions.* Each WebSocket connection has a
handler and a watcher goroutine; the handler looks the session up, attaches,
writes the replay and relays; PATCH and DELETE come from other requests; the
shell ends whenever it likes. *Hard.* Two connections that create one name;
renaming, pinning and closing while the reaper is between its decision and its
act; a chunk that is in the ring and not yet delivered when a client attaches;
a client that stops reading. *Correct when* the map and the sessions agree; no
running shell is lost; what ended is forgotten and reaped; the reaper takes
only idle sessions; every client sees the output without gap or repetition; and
no client can stop another.

The ring (`ringbuffer.go`) is a sequential structure: correct when a snapshot
is the newest output in order, at every size and for every series of writes.
`modes.go` and `oscfilter.go` are byte parsers over the output whose state
crosses chunk boundaries: one remembers the modes that were set, for the
preamble of a replay, the other takes clipboard writes out of what goes into
the ring. They are correct when a client that attaches between any two bytes
gets the modes that were set, and the ring the rest of the output, all of it.

### Password gate: `internal/authgate`

*State.* Failure counts and lockouts by client key under one mutex, a map of
per-key mutexes with reference counts under another, a process-wide pool of
argon2id slots, the configured hash, the secret that signs tokens, and the
sessions revoked so far. *Operations.* `TryUnlock`, `CheckAttempt` with
`RecordFailure`/`RecordSuccess`, `IssueFrom`, `UnlockedUntil`,
`RequirePassword` with `refreshCookie`, `Revoke`. *Hard.* Parallel guesses; a
per-key mutex that is created and dropped by its users; waiting for a slot
while holding it; tokens that are copied, refreshed in flight and revoked;
restarts. *Correct when* attempts of one key are serialized, none is compared
during a lockout, the slots bound the memory, a session ends by its idle
timeout, its cap, its revocation and the age of the last typed password, and
not before.

### Fingerprint unlock: `internal/webauthnunlock`, `handlers_webauthn.go`

*State.* A file with credentials, a tag of the password hash and the time of
the last typed password; ceremonies in progress, in memory. *Hard.* The file
may belong to another password after a restart; saves fail; ceremonies expire,
are capped and are taken once; a wrong assertion is counted after it was
verified, with nothing held meanwhile. *Correct when* a password change revokes
all of it, a fingerprint opens nothing unless the password was typed recently,
a ceremony ends once and as what it was begun for, a deleted credential stays
deleted, and the backoff bounds how often one can try.

### WebDAV share: `internal/webdavshare`

*State.* Settings (in memory and in a file), values pinned by the environment,
the gate built from them, a cache of verified credentials. *Hard.* The
comparison runs with the mutex released while settings change; saves fail.
*Correct when* a change drops everything it invalidates, and a client in use is
not locked out by others' guesses. `fs.go` confines paths to the root.

### The frontend's side of the gate: `api/client.ts`, `UnlockModal.tsx`, `RequiresUnlock.tsx`

*State.* The requests that were refused and wait for the user, whether the
modal is open or has handed over to a card, what each card knows of the gate.
*Operations.* `request()` with its 401 and its retry, `requestUnlock()`, the
modal's submit and cancel, a card's mounting, asking, submitting, leaving.
*Hard.* Several requests refused at once, a card that goes while requests wait,
status answers that overtake each other. *Correct when* who waits has a prompt
on screen, and a card asks only while the gate is locked.

### The terminal tab: `components/Terminal/Terminal.tsx`

*State.* The session shown, the socket and what it was opened for, the retry
timer, whether the gate keeps the page out, the session list; for phones a
hidden field and what of it has been sent. *Operations.* connecting, `onopen`,
`onclose` with its chain of two requests, scheduling, unlocking, coming back to
the foreground, selecting, adding, renaming, closing; for the field every kind
of edit a keyboard makes. *Hard.* The close of an old socket beside the opening
of a new one, a gate that locks meanwhile, a session renamed elsewhere;
keyboards that rewrite what they typed. *Correct when* it retries while it says
so and only then, starts no shell nobody asked for, comes back once it can, and
the shell's line is what was typed.

### The shell of tabs and the extension: `App.tsx`, `src/webmanager/vscode-extension`

*State.* Tab, address, history, what one tab asked another to open; in the
extension the views, the slots they are bound to, the titles by which views
are recognized after a reload of the window. *Hard.* `history.back()` lands
later than it is called; pages report what they show later than they show it.
*Correct when* what is shown is what the address or the binding says, and once.

### The other tabs of the frontend

*State.* Each holds what it read, which request it waits for, which dialog is
open, and often the id of a job on the backend that it polls. *Hard.* A request
is answered after its dialog was closed, its tab was left, a newer request was
answered, the job was forgotten by a restarted backend, or not at all.
*Correct when* nothing waits for what is not under way, a late answer undoes
nothing newer, what was started is followed to its end, and what is replaced or
removed is what the user was asked about. They are the Claude Code tab (the
install job, two ways of signing in, the settings), the mise tab (jobs, search,
the banner that asks for a restart), the files tab with its editors, the lists
(keys, hosts, fonts, extensions, containers, processes, ports, sessions,
worktrees), the logs, and the projects.

### The rest

| part | state, operations | what is hard |
|---|---|---|
| `internal/mise` jobs | jobs by id, start, append, finish, prune | a cap and a TTL while jobs run |
| `internal/projects` | cached project list; scan, rescan, delete, clean | a scan that ends after a deletion |
| `internal/claudecode` login | one login process, its output; start, submit, cancel | process end beside the readers of its pipes |
| `internal/sessionheartbeat` | tabs by id; heartbeat, close request, collection | collected and reborn entries |
| `internal/logstore` | files that vector appends to; read, purge | rewriting a file somebody appends to |
| `internal/restartstatus` | two small files; mark, load | identity of the process that marked |
| `attachcmd.go` | terminal client of a session | detach against session end |
| `internal/atomicfile` | none | crash between write and rename |
| `internal/cgroup`, `procinfo`, `diskusage` | bounded history | none to speak of: reads of `/proc` and `/sys` |
| `internal/supervisor`, `dind` | none | one external call per request |
| `internal/files`, `gitconfig`, `sshkeys`, `projectgit`, `extensions`, `manifestpatch`, preference stores | files, one mutex each | sequential editing and parsing |
| `main.go`, `server.go`, commands | wiring | start-up of the gate is in UnlockSessions |
| the frontend's charts, tables, forms, colours and types | what was read | nothing |
| `src/script`, `src/config` | shell scripts | run once, sequentially |

## 2. Modules

### The backend

| module | models | correspondence |
|---|---|---|
| `SessionRegistry` | `registry.go`, life cycle of `termsession.go`, the terminal handlers | One action per critical section or blocking operation. `sessions` is the map; `life`, `name`, `pinned`, `sinks`, `idle` are a session's fields; `pc`, `held`, `existing`, `arg`, `toReap` are program counters and local variables of handlers, reaper and pumps. `Lookup`, `Spawn`, `Insert` are `GetOrCreate` in its three parts; `ReapScan` and `ReapNext` are `reapIdle`; `Kill` and the steps after it are `Close`. |
| `SessionDirectory` | what the registry promises | A directory in which each operation is one step. |
| `SessionRegistryProps` | properties, refinement mapping | |
| `SessionStream` | `pump`, `Attach`, `Close`, `relayTerminalSession`, `writeScrollback` | Output is a sequence of numbered chunks. `PumpRead`, `PumpFeed`, `PumpDeliver`, `PumpNext`, `PumpEOF` are pump's loop; a connection may be up, stalled, down, ended or hung up on (by its own read loop, when a keystroke meets a shell that is gone), and a write to a stalled one returns at its deadline. |
| `SessionStreamProps` | properties | |
| `RingBuffer` | `ringbuffer.go` | Positions as in the code; a byte is its number in the output, so a snapshot's content can be compared with what was written. |
| `OutputParsers` | `modes.go`, `oscfilter.go`, `feedParsers` | A step is one byte. `modes` and `clip` are the two parsers, `Preamble` the code's; `doing`, `kept` and `meant` are what the application writes and what it asks of a terminal. |
| `PasswordThrottle` | what `authgate` promises of attempts | Whole attempts, one step each; the backoff. |
| `AttemptGate` | `TryUnlock`, `lockKey`, `VerifyPassword`'s slots | One action per mutex taken or released. Lock objects are allocated and dropped as in the code. |
| `AttemptGateProps` | properties | |
| `UnlockSessions` | tokens, sliding, revocation, `IssueFrom`, `Open`, `RecordPasswordUnlock`, restarts | Tokens are records of their signed fields; a response is a step of its own where the code has let go of what it read. |
| `UnlockSessionsProps` | properties | |
| `FingerprintUnlock` | `webauthnunlock.go`, `handlers_webauthn.go` | `handlers` is where a request is between its calls of the gate and of the manager; a ceremony's id is its number; `store.creds` is `m.doc`, `store.saved` the file; a signature is right or wrong. |
| `LogPurge` | purging in `logstore.go` | A purge in the steps in which it touches the file, beside vector, which keeps the file open, comes back to it by name, and appends to what may no longer be there. |
| `ShareCredentials` | `webdavshare/service.go` | `Serve`, `Hit`, `Miss`, `Verified`/`Refused`, `Insert` are `ServeHTTP` and `authenticate` between their critical sections; `Apply` is what `SetUsername` and `SetPassword` share, with a save that succeeds or fails. |
| `...Proofs` | theorems | section 5 |

### The frontend and the extension

In all of them a step of a page runs up to its next `await`, with the React
effects that its state changes trigger; a request is sent in one step,
answered by the backend in a second and its answer read in a third, and
requests that are on their way together are answered and read in any order.
Each module holds as much of the backend as its page can tell: the mise,
Claude, login, file and project handlers are answered as the Go code answers
them, with what else may change (a job that ends, a restart that forgets it,
another window that writes) as actions of their own.

| module | models | correspondence |
|---|---|---|
| `UnlockPrompt` | `api/client.ts`, `UnlockModal.tsx`, `RequiresUnlock.tsx` | `waiters` is `waitersRef`, `pc` where each `request()` is, `asks` the card's status requests in the order they were sent. |
| `TabConnection` | the connection of `Terminal.tsx` | `sock` is `wsRef` with the session it got; `chains` what is left to do of each `onclose`; `op` a rename or close about to be answered. |
| `TerminalInput` | its mobile-input effect | `pad` is the field, `sentRef` and the like, and the shell's line; the keyboard is the environment. |
| `AppShell` | `App.tsx` | `entries`, `pos`, `going` are the browser's history; `pending` what another tab is to open. |
| `ExtensionHost` | `extension.js` | `host` is `host.state` of every view; `binding`, `titles` the two mementos; `reports` the `state` messages under way. |
| `LoginDialog` | `InteractiveLoginDialog.tsx` | Phase, refs, generations, socket, timers and four kinds of requests of one dialog. |
| `ClaudeLogin` | `LoginPanel.tsx`, `LogoutButton`, `claudecode/login.go` | Panels come and go; the manager runs one login. |
| `ClaudePanel` | `ClaudeCode.tsx` | The install job whose id is in `localStorage`; the version check. |
| `MiseJobs`, `ToolSearch`, `RestartBanner` | `Mise.tsx`, `JobPanel.tsx`, `ToolSearchDialog.tsx`, `RestartNeededBanner.tsx`, `mise/jobs.go` | Jobs and polls, and the store of jobs with its cap; request ids; epochs. |
| `FileBrowser` | `FileManager.tsx` and its dialogs, the file handlers | Crumbs, listing, selection, the operations and the conflict dialog. |
| `EditedFiles` | eight editors | One editor with the parameters they differ in: how a save guards what others wrote, what it leaves in the editor. |
| `ResourceLists` | thirteen lists | One list with the parameters they differ in: polling, how a request names its item, what follows it, when the dialog closes. |
| `LogView` | `Logs.tsx`, `LogPanel.tsx` and the sheets of containers | One table with the parameters they differ in; an entry is the filter it was asked for with. |
| `ProjectList` | `Projects.tsx`, its dialogs, `projects.go` | The page, and the scanner with the disk between two holds of its mutex. |

The modules meet at these points. `SessionRegistry` and `SessionStream` split
one session into its life and its output: `Attach`, detach and the end of the
output occur in both, and what `SessionStream` takes for granted of its
surroundings (close may come at any time, a handler attaches once and detaches
when it leaves) is what `SessionRegistry`'s handlers do. `SessionStream`'s
`ring` is `RingBuffer` with chunks for bytes; `OutputParsers` says which bytes go
there, and that they are the output but for clipboard writes, which is what
`SessionStream`'s ring of whole chunks stands for. `UnlockSessions` takes from
`AttemptGate` that an accepted password is one step, and `ShareCredentials`
that a gate may refuse any attempt. `FingerprintUnlock` takes from
`UnlockSessions` that a fingerprint may be refused for the age of the password,
and shares with it `Open` and the document: the time of the password is there,
the credentials are here. `LogView` asks for what `LogPurge` does. `TabConnection` takes from
`SessionRegistry` that a handshake attaches to the session of its name or
creates it, that a rename changes only the name, and that a client is told of
its session's end. `AppShell` hands to the tabs what `ExtensionHost` opens
inside code-server.

`MCPanels` holds the parts that share no state, fifteen of the frontend, the
ring, the parsers of the output, the fingerprint unlock and the purge of logs,
in one specification: TLC takes a part from the initial states and the
behaviour is the part's. Its sixteen registers `x1` to `x16` stand for the
variables of whichever part it is; the parts' own modules know nothing of
them. `BackendPanels`, which it extends, declares them and the nine parts that
follow something the backend runs or keeps. The fingerprint unlock is a part
for every gate of the constant `Gate`. Each property of `MCPanels` is a
question that is asked of all parts that can get it wrong:

| property | of |
|---|---|
| `NothingStuck` | what a page waits for is under way: `NoSilentWait` of the prompt, `NeverStuck` of the login dialog, and the `NothingStuck` of the mise, banner, search, Claude, login, file, editor, list, log and project modules (in `ProjectList` also of the scanner's flag) |
| `ShownIsTrue` | `ShownOnce` and `BindingIsShown` of the extension, `HistoryIsFlat` and `AddressIsShown` of the shell of tabs, `LockedCardIsRight` of the cards, `VectorIsSeen` of the logs |
| `NothingLeftBehind` | `NothingLeftRunning` of the dialog and of the login panel, `EndIsTrue` of the panel, `JobIsKept` of the Claude tab, `StoreIsSound` of the store of jobs, `ClonedIsListed` of the projects, `PurgedIsGone` of the purge |
| `OnlyAsked` | `OnlyNamedIsReplaced` of the files, `OthersAreKept` and `SavedWasStored` of the editors, `ActedIsConfirmed` and `OnceAtATime` of the lists, `VersionsAreOfTool` of the search, `OnceAtATime` of the projects, `CeremonyWinsOnce` and `OverrunIsBounded` of the fingerprint, `OthersSurvive` of the purge |
| `NewestShown` | `NewestStep` of mise, banner and logs, `KeepsStart` of the Claude tab, `NothingComesBack` of the projects, `DeletedStaysDeleted` of the fingerprint |
| `TextIsMeant` | `LineIsMeant` of the phone's field, `RingIsOutput` and `Restored` of the parsers |
| `SnapshotIsRecent` | the ring |

Operators whose comment starts with "Fault:" are variants that a plausible
slip would have produced. They are in no specification and only serve to show
that the properties notice them; every part of `MCPanels` has at least one for
each property it takes part in, of which `PROJECT.json` names one per
property.

`OutputParsers` takes it that applications finish the sequences they begin, and
that no parser panics (`feedParsers` would reset both).

Not in the models: the contents of messages and files, names that
`ValidateName` refuses, terminal sizes, working directories, the formats of
tokens and hashes (a token is the fields it signs, a hash is the password it
accepts), logging, layout and wording.

## 3. Runs

TLC checks each configuration to the end. Deadlock is checked where the system
cannot stop; `CHECK_DEADLOCK FALSE` is set where it can: a session that has
ended with all its handlers gone, the end of the clock or of the bytes, a share
nobody calls, a page whose bounded clicks are spent.

| run | configuration | instance | shows |
|---|---|---|---|
| registry_manage | `MCSessionRegistry` | 2 names, 2 sessions, 1 connection, 1 PATCH/DELETE handler, reaper | Map, names and sessions agree through renames, pins, removals and collections (`KeyIsName`, `DoomedIsUnlisted`); no live session is out of everybody's reach (`NoOrphan`); a session is listed once, by its creator, and when `forgetWhenDone` has finished with it, it is over and under no name (`NeverRelisted`). |
| registry_race | `MCSessionRegistryRace` | 2 names, 2 sessions, 2 connections, reaper | Two connections race to create one name: one session wins, who relays has a sink (`RelayHasSink`), and all of it looks like `SessionDirectory`. |
| registry_live | `MCSessionRegistryLive` | 2 names, 1 session, 1 connection, 1 handler, reaper, fairness | Ended sessions are forgotten, shells reaped, idle sessions go; the directory's own liveness. |
| registry_reap | `MCSessionRegistryReap` | 1 of each | A counterexample: see findings. |
| stream | `MCSessionStream` | 2 connections, ring of 2, 3 chunks, fairness | First live chunk follows the replay, nothing skipped, the end only after the last output, a stalled client stops nobody, handlers leave. |
| stream_replay | `MCSessionStreamReplay` | 1 connection | A counterexample: see findings. |
| attempts | `MCAttemptGate` | 2 attempts, 2 keys, 2 lock objects, 1 slot, lockout after 2 failures, 7 failures, fairness | Exclusion, lockouts, refinement of `PasswordThrottle`; every failure past the threshold locks for between base and maximum; every request is answered. |
| unlock | `MCUnlockSessions` | 2 requests, 2 session ids, 2 passwords; TTL 2, refresh 1, lifetime 3, reauthentication 3, 4 ticks | Revocation, cap, idle timeout, activity, recent password, through restarts, copies and failing saves. |
| share | `MCShareCredentials` | 2 requests, 2 names, 2 passwords, cache of 1, idle 2 ticks, two environments | Changes drop what they invalidate; a client in use is never verified again. |
| share_race | `MCShareCredentialsRace` | 1 request | A counterexample: see findings. |
| tab | `MCTabConnection` | 2 names, 2 sessions, 1 failure of the network, 1 closed socket being looked into, fairness | While the gate keeps the page out no retry is set; an announced retry is real; no stray shell; a dropped connection comes back, also when a gate's answer is read late. |
| panels | `MCPanels` | each part on its own, below | The composed properties of section 2. |

*Why these bounds are enough to meet the cases.* Two sessions and two names
allow a successor under an old name, a lost creation race and a rename onto a
taken name; a third session would be a second successor. Two connections are
one attaching while the other is being delivered to. Three chunks and a ring of
two let the ring drop one. Two attempts are one holding a key's mutex or slot
and one waiting with a reference, or arriving as the entry is dropped; one slot
lets the attempt of another key wait for it; seven failures pass the longest
lockout. The clock of `UnlockSessions` runs past every
deadline of a session begun at its start, and a session begun one tick later
meets the reauthentication deadline before its cap. The share's clock is
relative and never ends. Every bound is a constant: `MaxChunk`, `MaxByte`,
`MaxWrite`, `MaxFailures` (a count as good as any higher one), `MaxNow`, and
`Typed`, the names the owner types. In `share` the owner types one name only,
so that the default name comes back through a restart, and
its cache holds one pair, so that a second insertion, of another pair or of the
same by a concurrent request, finds it full; that two pairs lie in the cache at
once is left to the theorems, which hold for every `MaxCached`, and to
`share_race`.

In `tab` a socket can drop and its close be looked into while the next socket
is tried: one failure and one chain suffice, and the second session is the one
a rename, a close or a restore goes to. Its three safety properties are proved
for all bounds. In `panels` two requests are on their way at most, so that each
can overtake the other; two jobs, logins or searches give an older and a newer
one; three pages of a log are asked for, since a purge asks for one by itself;
two folders and two names allow a conflict, and two operations one that writes
between another's look and write, or one that is confirmed after the one move
to another folder that there is time for; a page may go home twice before it
lands; two editor tabs and two slots a view that is moved onto another's place;
lists have two items, a third that somebody may add, and two actions beside
each other (three were checked alone, 1.2 million states); fields hold three
characters, so that a phrase fills one and the re-anchoring at
`MAX_FIELD_LENGTH` happens; rings hold 0 to 4 bytes, written up to 6 at a time,
14 in all. A page of the extension has one report under way (with two, checked
alone, 4.4 million states): one is enough for a command of another view to
overtake it. The fingerprint unlock has two hosts and two passwords with room
for one ceremony, so that a begin evicts another's and a password change
revokes, and one of each with two ceremonies out of three, so that two requests
are verified around a lockout after two failures; the log gets four lines, one
for each of the windows of a purge. The store of jobs keeps none besides those
that run and two are started, so that the second start drops the first if it is
over and spares it if it runs; the theorem is for every cap. The Claude tab has
one job of its own: it may be started twice at once, but the backend makes one
job of it (with two, checked alone, 4.6 million states). Two sequences are
written to the output, of 35 that take every branch of the two parsers but
their loops: their parsers' states meet at the seam of two, and a setting that
is replayed meets the one that followed it (three sequences were checked alone,
220,000 states). Every button may be pressed at any time it is enabled, every
answer may be a failure, and every dialog, card or tab may be left at any time.
The instances are exhaustive within these bounds (about 4.7 million states).

*Fairness.* Goroutines that can run do run: weak fairness of each handler's,
watcher's, pump's and reaper's steps, of `forgetWhenDone` and of the clock.
`AttemptGate` also assumes strong fairness of acquiring a mutex: Go's mutex
hands itself over to a waiter that has waited for a millisecond, so no waiter
loses forever. Nothing is assumed of the shell, the client, the network or the
requests: they may stop, stall or never come. A write to a stalled connection
ends by its deadline (`terminalWriteTimeout`), which is why its step is fair.
Killing a shell ends it: `SIGKILL` of a process group. In `TabConnection` what
the browser has to do is done: a page becomes ready, a handshake is answered,
`onopen` and `onclose` run, timers fire, the list is read every few seconds
and the requests of a chain are answered. Nothing is assumed of the gate, of
the network beyond that, or of the user.

## 4. Findings

* **registry_reap** (`registry.go:195-215`). The reaper closes what it
  collected without looking again. A client that found the session before it
  was unlisted can attach, or a request pin it and be told it succeeded, and
  the session is closed all the same. The decision itself was right when it
  was made: `ReapScan` collects what is idle and unpinned under the mutex.
* **share_race** (`webdavshare/service.go:356-362`). A request verified by the
  old gate caches its pair after a change has dropped the cache; the old
  password is accepted from there for as long as somebody uses it once a day.
  What does hold is `OnlyOvertakenIsStale`: only such requests can do it.
* **stream_replay** (`termsession.go:345`). A live chunk may reach a new client
  before its replay: the sink is registered before the replay is written. What
  does hold is `LiveFollowsReplay`: no chunk is missing or doubled.

What follows has no run of its own: the models behave as the code does, and
where a property would not hold its statement names the exception.

*Backend.*

* What the filter holds back of a sequence that is not decided, an ESC or the
  start of an OSC, and the rest of a clipboard write, go to a client live: one
  that attaches at that moment is replayed a ring without the beginning, and
  draws the rest as text (`oscfilter.go:91-112`; the comment at 16-18, that the
  screen is the same without what is dropped, holds of a whole replay only). In
  `RingIsOutput` this is `Held`, and the case of `doing.clip`.
* `pruneLocked` runs before the job is inserted (`mise/jobs.go:128`), so the cap
  is exceeded by one: `StoreIsSound` says so.
* `SetPassword` and `SetUsername` change the settings in memory before they
  save; if that fails the gate keeps the old password, and a later `SetEnabled`
  writes the new one to the file (`service.go:266-286`). In `ShareCredentials`
  this is the flag `unsaved`.
* `refreshThreshold`'s comment (`gate.go:64-67`) says that its value leaves the
  sliding of sessions the same, but a request in a token's first half does not
  extend it: `ActiveStaysUnlocked` holds with the threshold subtracted.
* A full scan stores the list it began to collect before a deletion: a deleted
  project is listed again until the next scan (`projects.go:232`); the exception
  in `NothingComesBack`.
* A clone's job is over before its `onDone` starts a scan, and that scan is
  skipped while another runs, so that the comment at
  `CloneProjectDialog.tsx:172`, that the rescan was already triggered, is not
  always so; the exception `missed` in `ClonedIsListed`.
* `WriteTextContent` reads, compares and renames: what is written between is
  lost, as is what is written between the check and the write of the raw
  editors (`RawConfigEditor.tsx:15-18` says so); "during" in `OthersAreKept`.
* A right assertion whose use cannot be saved is answered as failed and counts
  towards the lockout (`handlers_webauthn.go:141-150`, whose comment says that
  only a response that was checked and failed does). A registration that cannot
  be saved is answered as failed, but its credential unlocks until a restart and
  is in the file after the next save (`webauthnunlock.go:425`). `CheckAttempt`
  and `RecordFailure` are apart, so requests on their way when a lockout begins
  are still verified; `OverrunIsBounded` says how many.
* A purge loses lines that vector appends between its last read and its last
  write: those after the truncation are overwritten (`logstore.go:400-403`),
  where the comment at 352-353 has only those before it. They and a failure
  between the two are the exceptions in `OthersSurvive`. A file of five minutes
  is replaced or removed, and vector keeps writing to it unseen if it opened it
  meanwhile, the exception in `VectorIsSeen`.
* A copy, a move to another file system, and anything on a file system without
  `RENAME_NOREPLACE` look at the place and write to it in two steps
  (`internal/files/mutate.go:219` and 223, 171 and 175, 80 and 83), and no mutex
  is held: a file another request made in between is replaced without a question,
  where the comment at 65-68 has that of the file systems only; "raced" in
  `OnlyNamedIsReplaced`.
* A keystroke that is written after the shell has ended makes the read loop close
  the connection (`handlers_terminal.go:378-380`, 396), perhaps before pump has
  delivered the last output: that client misses it ("hungup").
* Known hosts are removed by their place in the list, which may have changed;
  the exception "index" in `ActedIsConfirmed`.

*Frontend.*

* `onForeground` reconnects without waiting for what `onclose` asked
  (`Terminal.tsx:1353-1365`), so a session that has just ended can be created
  again under its name.
* A request handed to a tab that stays locked lingers (`App.tsx:247-264`) and
  is opened when the gate opens.
* The extension recognizes a view after a reload by its title, which two
  sessions may share.
* A slot that a command closes ignores the reports of the page that goes, but
  only those of what it has just closed (`extension.js:462-471`, `758-768`; the
  comment there says that a late report must not bind the slot again). A report
  of something else that the page showed shortly before, which the command
  overtook, binds the closed slot again, and what it names can be shown in two
  places. The extension's properties hold until that happens (`overtaken`).
* The login dialog's timer closes a dialog whose session has been started anew
  (`InteractiveLoginDialog.tsx:485-488`).
* The conflict dialog of the files tab may be answered after the folder was
  left (`FileManager.tsx:84-91`). A rename, a move or a copy acts on the folder
  it was asked for; an upload that was agreed to goes to the folder open by then
  (250-260, 503-510), where it replaces a file of that name that the dialog did
  not speak of, against the comment at 85; "elsewhere" in `OnlyNamedIsReplaced`.
* `onclose` asks whether the gate is locked and reads the answer later
  (`Terminal.tsx:3176-3182`). If the gate was opened meanwhile, the news of it was
  ignored, as the page was not locked out yet (1303-1312): it is locked out by
  the late answer and stays so until the user acts or returns to the page, where the comment at
  1299-1302 has it resume by itself; `missed` in `ComesBack`.
* The extension's "+", the explorer's menu and a new session in a view do not look
  for a view that is for the name already, and the name is new only to the
  backend's list, which has a session when its view has connected, or to no list
  if that cannot be read (`extension.js:566-568`, 609-645, 665-670, 990-993): one
  session can be shown twice. And what opens things in views does not find one
  whose page has gone there and not yet said so. `overtaken` in `ShownOnce`.
* A second click on Home before the first `history.back()` has landed goes back
  once more, beyond home, and may leave the page (`App.tsx:180-193`).
* A cancellation of a login that fails is not repeated
  (`InteractiveLoginDialog.tsx:141-148`, 175), and of a start whose answer is lost
  nobody knows the id: the CLI stays until its time is over; `lost` in
  `NothingLeftRunning`.
* Saving Claude's settings reads them again and drops what was typed meanwhile.
* A dialog that is closed in a `finally` may be the one of another item.
* `Logs.tsx:65-71` and `223-237`: a purge reads the page with the filter of
  the moment it was asked; pages of an older filter join a new table. The two
  streams of a process sheet can overtake each other (the exception in
  `NewestStep`).
* A request that is refused while the gate is being opened shows the prompt
  once more.
* The mise tab and the Claude tab are not busy while a start is on its way: two
  jobs can be started. A start of an earlier visit of the Claude tab can replace the stored
  id of a later one; a login panel left while its start is on its way leaves
  the login to its ten-minute limit (`lost` in `NothingLeftRunning`).

## 5. Proofs

tlapm proves what follows for every value of the constants that satisfies the
assumptions named in the modules that declare them: any number of sessions,
names, connections, requests, jobs, items, pages, keys, and any length of
timeout. The assumptions say that bounds are numbers, that a place to start
from exists (`FirstSlot \in Slot`, `Clone \in Project`, `All \in App`, a gate
has room for a ceremony), that tabs which pass nothing on from others are not
among those that do (`Carry`), that slots are no panels, and that `None`, the models' word for null, is no
value of the code's. Nothing else is assumed.

* `SessionRegistryProofs`: `IndInv` and from it `KeyIsName`, `NoOrphan`,
  `DoomedIsUnlisted`, `RelayHasSink`, `NeverRelisted`. `NoOrphan` is not
  inductive alone: it needs that a session being created is known to its
  creator only (`PrivateWhileStarting`), that locals only point to sessions
  that were started, and that the reaper's list is empty between its rounds.
  `Implements` proves that each step is one step of `SessionDirectory` or none,
  under the mapping `Stage`.
* `SessionStreamProofs`: `StreamInv` and from it `LiveFollowsReplay`,
  `NothingSkipped`, `FinalOutputSent`, and `ReplayIsRecent` (what a client that
  attaches is replayed is the newest output up to where its live stream begins;
  no run checks it apart). The heart is what holds while pump has a
  chunk in hand: whoever attached after it was put in the ring is not among
  pump's targets, and has it in the replay. The end that `FinalOutputSent` speaks
  of is the one a watcher announces.
* `AttemptGateProofs`: `IndInv`, that reference counts are the numbers of users
  and entries exist exactly while used (`EntryWhileUsed`), and from it
  exclusion, lockouts, slots (`SlotsBounded`), `NeverCutShort` and the
  implementation of `PasswordThrottle`. Exclusion depends on it: a waiter keeps
  the entry alive, so a newcomer finds the same mutex.
* `UnlockSessionsProofs`: `IndInv` and from it `RevokedIsDead`,
  `PasswordIsRecent`, `SessionCapped`. Revocation is forgotten when the
  session's lifetime is over, so the proof needs that all tokens of a session
  share one origin, those on their way to a browser included. `UseInv` extends
  it for `IdleIsOver` and `ActiveStaysUnlocked`: no token is newer than its
  session's start or last use, and a session in use has a token that was young
  at that use (`HasYoung`).
* `ShareCredentialsProofs`: `IndInv` and from it `OnlyOvertakenIsStale` and
  `OwnerStaysIn`. The invariant says of every request in flight that what it
  has read is in force or that a change has overtaken it.
* `TabConnectionProofs`: `TabInv` and from it `LockedOutWaits`, `RetryIsReal`
  and `NoStrayShell`. Whatever may become the next tab, a name of the last
  list, of a rename or of a close about to be answered, has been asked for or
  seen, and there is a socket only off Home. What the connect effect,
  `scheduleReconnect` and the following of a renamed session do to the
  connection are lemmas, which the actions that call them cite.

### The panels

`BackendPanelsProofs` and `PanelsProofs` prove the same of the parts of
`MCPanels`. Each part has an invariant `IndInv` in its own module, which TLC
checked on the instance of the run before it was proved, an initial lemma and a
step lemma with one step for each action. `PanelsInvHolds` puts them together:
whichever part the behaviour is of, its `IndInv` holds; and from it come
`NothingStuckAlways`, `NothingLeftBehindAlways`, `OnlyAskedAlways`,
`NewestShownAlways`, `ShownIsTrueAlways` and `PanelsSnapshotIsRecent`, the run's properties as they
stand in its configuration. What each invariant adds to the properties is what
makes them inductive:

* *Ring.* `RingInv`: each byte of the output is where its number says. There is
  no induction over data, as a write's effect is a function on positions.
* *Prompt.* Who waits has the modal open, and a modal that handed over to no
  card asks whether the gate is open (`PromptIsUp`). A card that is shown though
  the gate is open has an answer on its way that will say so, or the unlock is
  still to be announced to it, and of two answers that differ the older is known
  to be overtaken (`CardInv`): it is about the order in which requests were
  made, which is why the invariant is about every position of the sequence.
* *Shell of tabs.* Every entry of the history is a tab with its own parameters,
  the second is marked and off home, and the address names what is shown
  unless the way home has not landed yet; the query of an entry is its own
  tab's (`OwnQuery`).
* *Extension.* While nothing has been overtaken, neither a report by a command nor a name by a
  new session: the last of a page's
  reports on their way, or else what the host believes, is what the page shows
  (`SaidLast`), the reports a closed slot still has are those it ignores
  (`SlotIsSound`), and no thing is claimed by two views, be it that one shows it
  or that it is bound to a slot not resolved yet (`ClaimedOnce`). The exception,
  a flag of the model (`overtaken`), is the one `ShownOnce` names.
* *Login dialog.* At most one start, probe and poll is on its way, of the
  current generation (`OneAtATime`), phases go one way (`OneWay`), and a session
  of the server's is the dialog's, or a start's answer, or about to be cancelled
  (`SessionIsHeld`), or one of those whose start's answer was lost or whose
  cancellation failed.
* *Mise jobs.* A poll that counts is of the job shown, a start's answer is a job
  nobody has yet, and what the cap spares is counted (`RunningAreCounted`).
* *Claude tab.* Every id stored or asked about is a job's (`IdsAreOfJobs`), and
  an answer is what the job it names can have said.
* *Claude login.* Only the newest session runs (`OnlyNewestRuns`), and a request
  on its way knows which (`CallsAreSound`).
* *Logs.* No request is of a later ask than the page's, and a panel that waits
  for its first page has asked once (`OneFirst`).
* *Projects.* A deletion or clone under way keeps its row or dialog busy
  (`SentIsBusy`), the one clone is asked for and made once, and a scan that
  started after the clone has seen it or will (`CloneIsSeen`).
* *Fingerprint, of every gate.* A ceremony that is open was begun with the
  password in force and has no win (`CeremoniesAreBegun`), a credential was
  enrolled by such a ceremony for its password, and requests let in during a
  lockout were let in before it (`LetInAreCounted`).
* *Editors.* What a save compares with is what the editor loaded or stored last,
  and when nobody wrote since, it is what the file holds (`SavesFit`).
* *Purge.* The lines kept are not to be purged and hold all others but those at
  risk, at each of the purge's steps (`KeptIsRight`), and what vector has open
  is fresh (`OpenIsFresh`).
* *Files.* What a request that replaces has still to make was agreed to (`Named`),
  and what it reports as taken is of the files it was to make.
* *Banner, search, lists.* An answer is of the kind its request asks for, and what
  disables a button is one request for each item.

The modules of the parts take what they need of sequences from `Sequences` and
`Functions`, `OutputParsers` apart: each instance of a module that extends
`SequencesExt` would bring all of that library into every proof.

Only model-checked: all liveness (`ImplementsFairDirectory`,
`EndedIsForgotten`, `ShellIsReaped`, `IdleIsCollected`, `NeverFrozen`,
`AllLeave`, `Answered`, `ComesBack`), which needs ENABLED and fairness and is
beyond the prover; `FailureLocks` (a bound on an exponential); `TextIsMeant`,
which is about the contents of sequences of any length, computed by folds, and
would need induction over them; `PanelsTypeOK`, whose parts are proved where an
`IndInv` needs them, but not for the lists (an order is computed by `SelectSeq`,
of which the provers know nothing) and the parsers.

## 6. Plan

In order, most important first:

1. **LoginOutput** (`claudecode/login.go`): the process beside the readers of
   its pipes.
2. **AttachClient** (`attachcmd.go`) over `SessionStream`; heartbeats.
3. Theorems of the parts whose properties are about texts, `TerminalInput` and
   `OutputParsers`, for fields and lists of parameters of a fixed length; and
   that `SessionStream`'s replay is `RingBuffer`'s snapshot.

## 7. Not modelled

Drivers of other programs (supervisor, docker, git, the extension manager),
reads of `/proc` and `/sys`, parsers and writers of configuration files: each
request is one sequential function whose correctness is in its formats. The
rest of the frontend shows what it read: colours, charts, tables, forms with
one request. xterm.js, React, the browser and code-server are environments of
the models. `PROJECT.json` lists every part with the reason.
