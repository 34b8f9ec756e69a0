# mcp-chain: a TLA+ model of the chain store

mcp-chain lets agents wait for one another. An agent registers a *chain entry*
(a pending record with an id), another waits for the id, the first resolves it.
The entries live in one JSON file, `state.json`, that any number of `mcp-chain
serve` processes and CLI commands read and rewrite.

The project models the program from its source. It has seven parts: the data and
the methods of the store as functions, the store as the code runs it (locks,
copies in memory, temporary file, rename, failures, killed processes), the
atomic store it is meant to be, the serve processes and commands that call it,
the monitors that poll it, the scripts that install and run the binary, and what
every program makes of its command line, its environment and the embedded word
list. TLC checks small instances; TLAPS proves the main results for every
instance.

## 1. The system

| Part | State | Operations | Talks to |
|---|---|---|---|
| `internal/idgen` | the word list, parsed and checked at start | `parseAndValidate`, `Allocate(counter)` | called by `Register` |
| `internal/store` data and methods (`store.go`, `schema.go`, `errors.go`) | `state.json`: version, counter, records | `Register`, `RegisterWithID`, `Resolve`, `Get`, `List`, `Purge` | closures run under the locks |
| `internal/store` locking and persistence (`lock.go`, `atomic_*.go`) | `Store.mu` per process, `state.json.lock`, a temporary file | `withLockedState`, `withSharedLock`, `loadState`, `saveState` | other goroutines through the mutex, other processes through the file lock and the file |
| `internal/mcpserver` | the owner token of the process | handlers `register`, `resolve`, `register_with_id` | SDK calls them on goroutines, they call the store |
| `internal/cli` | none | `status`, `list`, `resolve`, `purge`, `serve` | one store call per process, an exit code |
| `plugin/scripts/chain-wait.sh` | duration, budget, start time | read the arguments, poll `status` every second | exit code of `mcp-chain status` |
| `plugin/scripts/install-binary.sh`, `mcp-chain-exec.sh` | the installed binary and a version marker | install, exec | several hooks may run them at once |
| `internal/statepath` | the state directory | choose the path by the environment, create the directory | every process at its start |
| `internal/cli/format` | none | `WriteTable` | `list` calls it |
| `cmd/mcp-chain`, `scripts/internal/seed_pending.go` | none | `--version`, dispatch to one command; one registration | the commands, the store |
| manifests, build scripts | none | tooling | |

What is hard here:

* **Concurrency.** Each store call is a read-modify-write of a whole file by one
  of several goroutines of one of several processes, under two locks of different
  reach.
* **Failure.** A process may be killed between any two system calls, and `serve`
  returns while handlers still run. Any system call may fail, some of them after
  the rename.
* **Order.** Ids must never repeat, across purges, crashes and the step from
  words to hexadecimal ids. An entry that was resolved must stay resolved. Only
  the owner may resolve it, as the record is when the resolve takes effect.
* **Progress.** Calls block on the mutex while its holder blocks on the file
  lock. Overlapping readers can hold off a writer.
* **Sessions.** A serve process that ends takes its token with it, whatever its
  handlers were at. An answer may be lost, and the call made again.
* **Polling.** The wait script sees the store at instants a second apart, while
  entries are resolved, purged and registered again.
* **Installing.** Every start of the server, every slash command and every poll of a
  monitor may find the binary missing or out of date and install it, all at once and
  without a lock, each killed at any moment; an upgrade leaves wrappers of two
  versions at it.
* **Given from outside.** Every process finds the store by its own environment and
  working directory; the shell reads the digits of a timeout in its own way, and the
  wall clock may be set while a monitor waits.

What makes each part correct:

* idgen: `Allocate` is injective, on every word list that a binary starts with.
* store, data: no record changes owner, comes back from resolved to pending, is
  resolved without authority or deleted by a purge that does not select it; a
  file that cannot be decoded is left alone.
* store, locking: a writer is alone; no update is lost; every call takes effect
  at one instant or reports an error; every call returns.
* server and CLI: what a tool or a command reports as done is done; the entries of
  a session are its own, and after its end an operator's.
* wait script: exit 0 only if the entry was resolved, and eventually if it stays so.
  A timeout is the time asked for, if its numeral is plain, and never more; and it comes.
* installer: the binary that runs is a whole one of the version its plugin pins.
* state path and table: processes with the same setting share one store; `list` shows
  all of it, in one order.

## 2. The modules

| Module | Models | Extends |
|---|---|---|
| `WordList` | the embedded text and `parseAndValidate` | |
| `IdGen` | `Allocate` | `WordList` |
| `ChainState` | `state.json`, calls, results, the argument checks and closures of the six methods | `IdGen` |
| `ChainSpec` | the promised store: a call takes effect at one instant | `ChainState` |
| `Store` | the store as it runs; also the properties, the refinement mapping and the inductive invariant | `ChainState`, instance of `ChainSpec` |
| `Session` | `serve` with its token and tools, restarts, lost answers; the CLI commands with their exit codes | `ChainSpec` |
| `Durations` | the duration parser of `chain-wait.sh`, with the arithmetic of bash | |
| `WaitArgs` | the arguments of `chain-wait.sh` | `ChainState`, `Durations` |
| `ChainWait` | `chain-wait.sh`: any number of monitors on top of the atomic store, with two clocks | `ChainSpec`, `WaitArgs` |
| `Installer` | `mcp-chain-exec.sh` and `install-binary.sh`: any number of wrappers that share the binary and its version marker | |
| `StatePath` | `statepath.Resolve` as a function of the environment | |
| `ListTable` | `WriteTable` as a function of the records | |
| `Startup` | every program from its start to the store and back: word list, command line, state path, exit code, table; `chain-wait.sh` up to its first poll | `WordList`, `StatePath`, `ListTable`, `Durations`, instance of `ChainState` |
| `MCStore`, `MCSession`, `MCWait`, `MCInstall`, `MCStartup` | small instances for TLC | `Store`, `Session`, `ChainWait`, `Installer`, `Startup` |
| `ChainProofs` | lemmas and proofs about `WordList`, `IdGen` and `ChainState` | `ChainState` |
| `StoreProofs` | the inductive invariant of `Store` and the safety theorems | `Store`, `ChainProofs` |
| `CommitProofs` | what may happen to a record; `Store` implements `ChainSpec` | `StoreProofs` |
| `SpecProofs` | the inductive invariant and the safety theorems of `ChainSpec` | `ChainSpec`, `ChainProofs` |
| `SessionProofs` | the same of `Session` | `Session`, `SpecProofs` |
| `WaitProofs` | the inductive invariant and the safety theorems of `ChainWait` | `ChainWait`, `SpecProofs` |
| `InstallProofs` | the same of `Installer` | `Installer` |
| `StartupProofs` | the word list, the durations, the table and the state path; then the inductive invariant and the safety theorems of `Startup` | `Startup`, instance of `ChainProofs` |

### How state and actions correspond to the code

`Store` has, for the file, `file` (missing, corrupt, of a foreign version, or a
state), for each process `mu`, and for each thread (a goroutine, or the one
thread of a CLI command) `flock`, `pc`, `call`, `buf` (the `*state` of the
closure) and `out` (the result). `issued` is a history variable: the ids that
`Register` has returned.

| Action | Code |
|---|---|
| `Invoke`, `Refuse` | a handler or command calls a method; `validateID` and the target count of `Purge` refuse before any lock |
| `LockMutex`, `UnlockMutex` | `s.mu.Lock()` and its deferred unlock |
| `AcquireFlock`, `FlockFails`, `Unlock` | `fl.Lock` or `fl.RLock`, its error return, the deferred `fl.Unlock` with its error |
| `Load`, `LoadFails` | `loadState` |
| `RunClosure` | the closure of the method; its error return; for a reader the end |
| `WriteTemp`, `Rename`, `SaveFails` | `saveState` and `writeStateAtomic` |
| `Return` | the method returns to its caller |
| `Crash` | a process is killed, or `serve` returns while handlers run |

`Session` composes `ChainSpec` with those who call it; that the store is the atomic
one is sound by the refinement. A process in `Servers` is the place of serve
processes, one after another; `token` is that of the one that runs. Every other
process is the place of commands, one after another, and has no token. Three history
variables: `ended` (the tokens of serve processes that have ended), `removed` (the
ids that purges have removed) and `told` (what answers that were heard said of
entries not removed: *registered* by whom, *resolved*, *purged*).

| Action | Code |
|---|---|
| `Serve`, `Stop` | `ServeCmd.Run` draws a token and serves; it ends, its handlers with it |
| `CallTool` | a handler of `register`, `resolve` or `register_with_id` calls the store with the token |
| `RunCommand`, `Kill` | `status` (`get`), `list`, `resolve`, `purge`; the command is killed |
| `Work` | the store decides a call, with or without a failure of the operating system |
| `Reply` | `mapStoreError` or the exit code; heard, or not (`Note`) |

`ChainWait` composes `ChainSpec` with monitors. A monitor is a thread of `ChainSpec` that stands for
the status processes it runs, one after another, so it shares no process with
anyone. It has `at` (its place in the script), `code` (`$CODE`), `duration` and `budget`
(`$DURATION`, `$BUDGET`), `frac`, `age` and `shift`
(what `START` and `NOW` are made of: how far into a second it started, how long
ago, and by how much the wall clock has been set since) and `nap` (what is left of
`sleep 1`). `seen` is a history variable: what the
entry was at each moment since the last status that counts was launched.

| Action | Code |
|---|---|
| `Start` | the arguments, the duration parser, `START=$(date +%s)` at any point of a second; or the usage or an error |
| `Launch`, `StatusExits` | `"$BIN" status "$ID"` as a call of `Get`, and `CODE=$?` by way of `runStatus` |
| `StatusBreaks`, `StatusDies` | status fails before it calls the store: its state path or the binary (1, 126, 127), or the installer that `mcp-chain-exec.sh` runs first (the code of the command that failed); it is killed within its call (137); it panics (2), before its call or within it |
| `Continue`, `TimeOut`, `Sleep`, `Wake` | the arms 0 and 2 of the case, the test of the budget, `sleep 1` |
| `Recheck`, `GiveUp` | any other code: the second status, and `exit 1` |
| `Client`, `Serve` | the other processes, and the store at work for all |
| `Tick`, `SetClock` | time passes, for `date +%s` and for `sleep 1`; the wall clock is set, for `date` only |

A status whose own process fails (`StatusBreaks` at the second call) ends in the
same place as one that comes back: the script looks only at its text.

`WaitArgs` sees a word of the command line as the id it would name and the duration it
would last. `Durations` has what bash does with a duration, found by running it: a number of seconds
is read in decimal by `[`, and from 2^63 on both tests of it fail, so that there is no
timeout; minutes and hours are multiplied by `$(( ))`, which takes a zero in front for
octal, wraps around at 64 bits (307445734561825861m are 44 seconds) and, given an 8 or
a 9 in an octal numeral, ends the whole `if`, so that there is no timeout either.
`--timeout=` means none, the last `--timeout` counts, and `--help` ends the script
with 0 wherever it comes before an error.

`Installer` has, for each wrapper, `at`, `pinned` (the version of its plugin) and `ran` (the binary its `exec` found), and
shared by all `bin` (missing, whole or in part, of a version) and `marker` (missing
or empty, or a version). `rename` says whether `$TMPDIR` is in the filesystem of the
binary, so that `mv` renames, or in another, so that it removes the old file, makes
a new one and copies; the latter is how GNU `mv` does it.

| Action | Code |
|---|---|
| `Start`, `Test`, `Read` | the wrapper runs `install-binary.sh`; `[ -x "$BIN_PATH" ]`; the marker against the pinned version |
| `Fetch` | download, unpack and check, in a directory of its own |
| `Move`, `Create`, `Copy` | `mv` |
| `Truncate`, `Write` | `printf '%s' "$VERSION" > "$VERSION_FILE"` |
| `Exec` | `exec "$PLUGIN_DATA/bin/mcp-chain"` |
| `Stop` | a command fails (`set -eu`), the process is killed, the binary ends |

`Startup` has, for each place where processes come one after another, `at`, `cmd`,
`env` (both of the process that is there), `code` (the exit code of the last one),
`listing` (the table it has printed, with the records it is of) and `wait` (`$DURATION`
and `$BUDGET`); shared by all `disk` (for each state directory its file, conditions
and times included) and `raw` (the embedded text). `told` is a history variable: what
registrations were reported, to whom, of which directory, and whether they are still there. A call of the
store is one step, which `Store` shows that it may be.

| Action | Code |
|---|---|
| `Launch` | `init` of `idgen`, which may panic; `main` up to the dispatch; `statepath.Resolve`, `store.Open`, `NewOwnerToken` |
| `CallStore` | one call of the store, and for a command its exit code and, for `list`, its table; `serve` goes on |
| `StopServe`, `Kill` | stdin is closed or a signal comes; the process is killed |
| `LaunchWait` | `chain-wait.sh` up to its first poll |

`StatePath` has a path as a sequence of names, absolute or not. `ListTable` sorts
by counting what comes before, which needs no recursion; that the records come from
a Go map is `Orders`, all the orders a range may yield. Of the ids it knows their order
as strings only: `IdBefore`, some strict total order on `Ids`.

A hexadecimal id is the pair of the four low digits and the number above them,
which is what `%04x` prints. Words are opaque values. In the store conditions and
timestamps are left out, since no branch of it reads them; `Startup` has them, for the
table. A purge's count is kept as the records
it removed.

**What is assumed of code outside the repository.** `gofrs/flock` is taken to
exclude only goroutines of *different* processes, the reading the comment of
`lock.go` gives. On Linux it also separates descriptors of one process; a lock
that excludes more has fewer behaviours, so all safety results hold there too.
The write by `renameio` replaces the file as a whole, and may fail before the
rename or, as the comment of `atomic_unix.go` describes a directory fsync, after
it. The kernel frees the file locks of a dead process. A file lock whose release
fails is taken to be free at once; in the code it goes when the descriptor is
collected. `kong` ends with 80 when it refuses a command line (version 1.15; the
comment in `purge.go:31` says 1) and with 0 after `--help`. Bash is version 5 on Linux.

## 3. The properties

Of `Store`:

* `TypeOK`: types; above all that `state.json` is always a well-formed state or as
  damaged as it was found.
* `Exclusive`: a writer is alone between `fl.Lock` and `fl.Unlock`.
* `NoLostUpdate`: what is renamed into place is the file *as it now is* with the
  call applied.
* `IssuedUnique`: no id is returned twice, whatever is purged and whoever crashes.
* `ReportedIsCommitted`: when a call that ends without an error lets go of the
  file lock, the file says what the caller will be told.
* `RecordsPersist`, `ResolveAuthority`, `DeletedOnlyByPurge`,
  `RegisterKeepsRecords`: what one replacement of the file may do to a record, in
  terms of the record as it was in the file at that moment. `store_every` registers
  only slugs that the counter never yields, so there `RegisterKeepsRecords` says no
  more than that the counter moves on; the clash shows in `store_clash`.
* `FailClosed`: a file that cannot be decoded, or is of another version, is never
  written over.
* `Linearizable`: `Store` implements `ChainSpec`. A call takes effect at the
  rename, or, when it writes nothing, at the load or the closure. A call that
  reports an error other than an internal one has no effect.
* `CallsReturn`: every call returns, or its process dies.
* `CallsReturnIfReadersDrain`: the same with readers in several processes, on
  condition that the file lock keeps coming free.

`ChainSpec` has its own `TypeOK` and `IssuedUnique`.

Of `Session`:

* `SessionTypeOK`: types.
* `AnswersStand`: whatever a tool's *ok* or exit code 0 has said of an entry is true
  until a purge removes it. A session that was told it registered an entry owns it;
  one said to be resolved, by `resolve` or by `status`, never turns pending; one
  that `purge` reported was there. This goes through crashes, lost answers, retries
  and other sessions, and would fail if a handler drew a token of its own, an error
  came out as a success, or a taken slug were registered again. An id that a purge has
  removed is dropped from the history for good; and that the entry of a lost answer
  stays pending, with nobody to resolve it, is not forbidden.
* `OrphansNeedForce`: once a serve process has ended, what it registered is resolved
  only by `mcp-chain resolve --force`.

Both suppose that slugs and allocated ids are kept apart (`SlugsApart`), which the
code does not see to (section 5).

Of `ChainWait`:

* `WaitTypeOK`: types.
* `VerdictWasTrue`: a monitor ends with *continue*, *timeout* or, without faults,
  *error* only if the entry was resolved, pending, or gone or unreadable at some
  moment after the deciding status was launched. It is the most a poller can
  promise: a moment later the entry may be anything.
* `TimeoutInTime`: a timeout comes less than a second early, by the wall clock, and
  never to a monitor without one.
* `TimedWaitEnds`: a monitor with a timeout ends, whatever happens, and however the
  wall clock is set (as long as it goes on).
* `AskedWaitEnds`: a monitor that was given a duration and has gone on with it ends;
  false for `08m` (section 5).
* `BudgetAsNamed` (of `Durations`, proved, not run): a plain duration, one without a zero
  in front and within 64 bits, is kept to the second or refused, and refused exactly
  when it is nothing or more than a week.
* `SettledWaitEnds`: a monitor ends, timeout or not, if its entry is from some
  moment on never pending. This holds only while the installer does not fail and
  status does not panic: either may end with 2, and then `PollsOnlyPending` is false
  and a monitor without a timeout may poll for ever.
* `PollsOnlyPending`: a monitor polls again only for an entry it has found pending;
  false if the installer may fail or status panic (section 5). For the same reason the
  part of `VerdictWasTrue` about timeouts supposes that neither happens
  (`OnlyPendingIsTwo`).

Of `Installer`:

* `RenamedRunsWhole`: where `mv` renames, no wrapper runs a binary that is missing or
  not complete, even among wrappers of several versions. It says nothing of the
  version: that of another plugin passes.
* `RenamedRunsPinned`: where `mv` renames and all plugins are of one version, what a
  wrapper runs is a whole binary of that version.
* `MarkerTrue`: with plugins of one version the marker never names another version than
  the one that is there.
* `SelfHealing`: when no wrapper is at work, the fast path is open only to a whole
  binary; false where `mv` copies (section 5).

With plugins of two versions a wrapper may run what the other has just installed, each
installs its own again, and `SelfHealing` fails even where `mv` renames: one moves its
binary between the move and the marker of the other. Nothing in the scripts provides
for two versions, so the last three properties suppose one.

Of `Startup`:

* `StartupTypeOK`: types; every file of every directory is a well-formed state.
* `NoIdTwice`: no two registrations in one store got the same id, whatever text the
  binary was built with and wherever the processes were started. It would fail if
  `parseAndValidate` let a bad list through.
* `ListIsComplete`: a `list` that ends with 0 shows every entry that was registered in
  the same store and not purged since, from whichever directories the two were started.
  It would fail if an empty variable were taken for one that is set.
* `TablesAgree`: two lists of the same records print the same table, in whatever order
  the map yields them, also when records share their time of creation.
* `TimeoutAsAsked`: of plain durations, those without a zero in front and within 64 bits: a
  monitor that goes on has the timeout it was asked for, to the second, and is refused
  exactly when asked for none or more than a week. Of other numerals (`08m`, `010m`, those
  that wrap around) it says nothing, and for them it would be false.
* `TimeoutAtMostAsked`: of all durations: a monitor that was given one and goes on has a
  timeout, of no more than was asked for, or it has none, and then the numeral has a zero
  in front or is a number of seconds beyond 64 bits. So `010m` may be eight minutes and
  307445734561825861m 44 seconds, but no numeral makes a longer timeout, and no
  other loses it. That `08m` loses it is the finding of `wait_timeout`.

In `NoIdTwice` and `ListIsComplete` two processes share a store if they have the same absolute setting, or if
they work on the same file, by whatever setting (`SameStore`). Two with the same
relative setting need not share one (section 5).

## 4. The runs

| Run | Instance | Shows |
|---|---|---|
| `store_refines` | 2 goroutines of one process and 1 of another; register, register a slug, purge and read it; missing and damaged file; I/O errors and crashes | mutual exclusion, no lost update, unique ids; the locking and writing implement the atomic store, on every error path |
| `store_every` | 2 processes; 11 calls, which succeed and fail in every way; 4 initial files; I/O errors and crashes | reports are true, what may happen to a record, fail-closed |
| `store_progress` | 2 goroutines and 1; a writer and a reader for ever; missing and corrupt file; crashes | every call returns |
| `store_readers` | 3 processes of one goroutine; as above | every call returns if readers drain |
| `store_clash` | 2 processes; a slug that is a word | **violation**: see the finding |
| `session` | 2 serve processes, 2 tokens (so one restart), and commands; a slug both register and resolve; counter from 65535; I/O errors, kills, lost answers | answers stand, orphans need force, unique ids across `hex-ffff`, `hex-10000` |
| `wait` | a monitor given every form of command line, good and bad, with a timeout of a second or none; a client that registers, resolves, purges and makes a call that is refused; pending, corrupt or missing at first; a wall clock that may be set by a second; I/O errors and crashes | verdicts true, timeouts in time; a monitor with a timeout ends, one without ends once its entry is settled, as long as the installer works and no status panics |
| `wait_install` | a monitor whose installer fails, or whose status panics; no entry | **violation**: it polls on |
| `wait_timeout` | a monitor given `08m`, an entry that stays pending | **violation**: it waits for ever |
| `install` | 3 wrappers, all of one version or one of an older; 5 disks to start from; `mv` renames or copies; stops anywhere | whole binaries run, with one version the pinned one; marker and binary agree |
| `install_copies` | 2 wrappers; an empty disk; `mv` copies | **violation**: half a binary under a valid marker |
| `startup` | 2 processes at a time; 8 embedded texts, one of them good; 10 commands; 5 environments that agree on the store or not; 10 durations; kills, failing system calls, a clock that may be set | no id twice, lists complete, tables agree, plain timeouts as asked and no timeout longer than asked |

**Bounds.** `MaxCounter` stops new registers once the counter has reached it;
calls already under way still register, so with one word every run passes from
the word to hexadecimal ids. Two goroutines that share a mutex and a third that
does not are the least that tells the two locks apart. Every entry of a record map
is treated alike, so one slug and two or three allocated ids suffice for each way
one call can affect the record of another. `store_refines` uses the symmetry of
the two goroutines of the first process; it checks safety only. The theorems lift
the bounds for the properties they name.

In `session` each serve process runs one handler at a time: what handlers of one
process do to each other is the matter of `Store`, and `SessionProofs` has any
number. The two servers are symmetric, each with its thread; the run checks safety
only. After a restart no token is left, so there are at most two serve processes
after or beside each other, the least in which one outlives another.

In the install runs three wrappers are one that installs, one that overtakes it and
one that only runs the binary; a fourth would do what one of these does. Any one of
them may be of the older version.

In `startup` two registrations and two processes are the least that repeat an id, or
a list and what it should show; a clock of two readings, within one second, is the
least that has times equal, in order and out of order. The word list has two words, so
that no run leaves it; `session` has the step beyond. Every way a text may be refused
has a text. The five environments are `$HOME` from two directories, an absolute
`$XDG_STATE_HOME`, a relative one in the root directory, which leads to the same file
as the absolute one, and none set; the durations are the two sides of a week in seconds and in hours,
minutes plain, zero, with a zero in front (octal or not), and a number that wraps around, and
a number of seconds that cannot be read.

In the wait runs a second has two ticks, the least that lets a monitor start off the
boundary of a second; the timeout is one second, so that a monitor polls, sleeps and
polls again before it; `AgeBound` stops the age so far past the timeout that the
test of the budget can no longer change, wherever the wall clock is; `MaxShift` bounds
how far that may be set, a second forward and back. `Half` is 2^20 and not 2^63, as
TLC has integers of 32 bits: a week in seconds fits, and what is beyond wraps around
as it does at 64 bits. `MaxCounter` is 0: all calls concern one
slug, the entry waited for, since an id of the counter is treated no differently.
One client suffices, as the steps of several interleave in the same file;
`WaitProofs` has any number.

**Fairness** (`Store!Fairness`). Weak fairness of `Proceed(t)`: a goroutine that
can go on does. Strong fairness of `LockMutex(t)`: `sync.Mutex` has a starvation
mode that hands the mutex to the longest waiter after a millisecond. Strong
fairness of `AcquireFlock(t)`: the kernel wakes every waiter of a file lock when it
comes free; that it does not pass over the same one for ever is an assumption. No
fairness is asked of failures, crashes or new calls. In `store_readers`
`CallsReturn` without its condition is false: two readers of different processes
can overlap so that the lock never comes free, and a writer waits for ever.

`ChainWait!WaitFairness` is weak fairness of the script of each monitor once it has
started, of the answer to its status calls, and of the clock. The second is what
`CallsReturn` of `Store` gives: a status call is a reader, which neither another
reader nor, as writers always let go, a writer holds up for ever. Nothing is asked
of the clients, nor that a monitor starts, nor that the wall clock is ever set.

## 5. The findings

**A name may be replaced.** `Register` writes `st.Records[id]` without looking (`store.go:74`). The comment of
`RegisterWithID` says that the wordlist allocation space is independent of the
slug namespace (`store.go:95-96`), but `validateID` admits every word and every
`hex-NNNN`. On a fresh file `register_with_id("acid")` followed by `register`
replaces the first entry, with another owner, and a resolved one turns pending
again. `store_clash` shows it. The other runs register slugs that the counter
never yields, and `CommitProofs` proves that under this condition every
register leaves all other records as they are.

**A failed installation looks like a pending entry** (`wait_install`). The status
command of the monitor in `commands/wait.md` is `mcp-chain-exec.sh`, which runs
`install-binary.sh` first. Under `set -e` that ends with the code of the command
that failed, and `tar` ends with 2 on a fatal error. For `chain-wait.sh` 2 is
*pending*: the monitor polls on, without a timeout for ever, where the comment of
the case (`chain-wait.sh:116`) has any code but 0 and 2 end it, and `status.go` keeps 2
for pending entries. A panic of the binary looks the same, as the Go runtime ends with 2.

**A timeout may get lost** (`wait_timeout`). `$(( n * 60 ))` takes `08` for octal and
fails: bash says *value too great for base*, drops the `if` from line 61 to 91 and goes
on after it, with a budget of 0. The monitor says *waiting for* its id, without the
timeout, and waits for ever. The parser accepts digits and one suffix, as its comment
says (`chain-wait.sh:58`); 010m, which it takes for eight minutes, is the milder case.

**Half a binary may stay** (`install_copies`). If `$TMPDIR` is in another filesystem,
`mv` copies. Two wrappers find nothing installed. The first installs and writes the
marker; the second, which passed the check before, replaces the binary by its own
copy and is stopped half way. The marker matches and the file can be executed, so
every later wrapper takes the fast path and fails. `mcp-chain-exec.sh` calls the
plugin self-healing, which it is where `mv` renames (`RenamedRunsPinned`).

**Exit codes.** The repository's `README.md:128` gives `mcp-chain list` the code `0`
*always*; `list.go` returns 1 when the file cannot be loaded, as its own comment says.
`ExitCode` follows the code.

**Settings and tables.** Not counted as faults of the code either: `Resolve` returns what
its comment calls an absolute path (`resolve.go:41`) only if the variable is absolute; a
relative one is taken from the working directory, so that two sessions with the same
setting may not share a store, and two with different settings may. What is promised
then goes by the file. `WriteTable` prints a condition with its line breaks, which break a row.

**What polling cannot see.** Not counted as a fault of the code: an entry resolved and
purged within the second between two polls ends the wait with an error, and one purged
and registered again keeps it waiting. What holds of every wait is `VerdictWasTrue`
and `SettledWaitEnds`. A timeout may come up to a second early, since `date +%s` cuts
off fractions; `TimeoutInTime` says how early.

## 6. The proofs

All theorems hold for every number of processes and threads, every word list that
`parseAndValidate` admits, every menu of calls and every bound, with all faults.
They assume what the `ASSUME`s of the modules say: distinct words none of which is
a hexadecimal id, names apart from the missing id, registrations that carry a
token, well-formed initial files.

* `StartupProofs!AcceptedIsWordList`: the first of these assumptions is what
  `parseAndValidate` sees to, on any text: equal words would be at one place, and a
  hexadecimal id is refused for its digits or for its `hex-`.

* `ChainProofs!AllocateInjective`: two counters never share an id. The two cases
  are distinct words and distinct hexadecimal ids (a number is its high part times
  65536 plus its low part); the mixed case is excluded by the check for `hex-`.
* `ChainProofs!ApplyTypes`: whatever the call, the closure leaves a state; only
  `Register` moves the counter, and by one.
* `StoreProofs`: `IndInv` is inductive. `Exclusive`, `NoLostUpdate` and
  `IssuedUnique` are not inductive by themselves; what is missing is who holds
  which lock where (`LocksOK`), that a call under way passed its checks and a
  reader never writes (`CallOK`), that the result in hand is that of the closure
  on the present file (`CopiesOK`), and that every id handed out is that of a
  counter already passed (`IdsOK`). It is proved in three layers, each on the ones
  before; `ReportedIsCommitted` is a fourth, on the first two: the result of a closure
  is true of the state it leaves (`ClosureTells`), which is the file from the rename
  until the lock is let go, as no writer can come between. Two goroutines of a process are kept apart by `mu` (both hold it: they
  are the same), of two processes by the file lock. From it: `TypeCorrect`,
  `MutualExclusion`, `UpdatesKept`, `IdsUnique`, `ReportsCommitted`, `DamageKept`.
* `CommitProofs`: every replacement of the file is the effect of the committing
  call on the file as it is (`CommitIs`), whence the three record properties;
  `RegisterKeepsRecords` and `RecordsPersist` when no slug is ever allocated.
* `CommitProofs!StoreImplementsChainSpec`: `Store` implements `ChainSpec`.
  A thread is *called* until the step that decides its call and *done* from then
  on; its result shows only then.

* `SpecProofs`: `ChainSpec!IndInv` adds to `IssuedUnique` that every id handed out,
  or about to be, is that of a counter already passed. What the effect of a call may
  be on the counter is `ChainProofs!ApplyTypes`; a call that reports an error yields
  no id. From it: `SpecTypeCorrect`, `SpecIdsUnique`.
* `SessionProofs!SessionsAreClients`: `Session` implements `ChainSpec`, so `IndInv`
  carries over.
* `SessionProofs`: to `AnswersStand` belongs that what a decided call is about to
  report stands as well, or was purged since (`Promised`), and to `OrphansNeedForce`
  that a call under way has the token of the process that runs (`CallsOK`) and no
  two processes share one (`TokensOK`). `Rewrites` says how a call turns the records
  into others, and `RecordStep` that a record goes, stays, or is resolved by its owner
  or by force, if no allocated id is there ahead of the counter (`Behind`). From it:
  `SessionTypeCorrect`, and, if slugs and allocated ids are kept apart,
  `AnswersHold` and `OrphansForced`.
* `WaitProofs!MonitorsAreClients`: `ChainWait` implements `ChainSpec`, so what holds
  of the atomic store holds with monitors, and `IndInv` carries over.
* `WaitProofs`: `WaitInv` is inductive. `VerdictWasTrue` speaks of monitors that have
  ended; the strengthening `MonitorOK` follows a verdict back to the code it comes
  from, the code to the result of the status call, and that to the entry at the
  moment the call took effect, which the history has seen (`StatusTells`). A verdict
  is kept since the history only grows until the next status (`Unmoved`).
  `ElapsedBound` is the arithmetic of whole seconds, for any length of a tick and any
  setting of the clock. From it: `WaitTypeCorrect`, `VerdictsTrue`, `TimeoutsInTime`.
* `InstallProofs`: `InstallInv` adds to the properties what makes them inductive: where
  `mv` renames, a binary once there stays there; and with plugins of one version, once
  a wrapper has removed the binary it found, no older one is there again
  (`WrapperOK`). It holds if at first there is no part of a binary and the marker is
  true (`TrueAtFirst`). From it: `WrappersRunWhole`, `WrappersRunPinned`, `MarkersTrue`.

* `StartupProofs!DurationsKept`: `BudgetAsNamed`, for every `Half` beyond a week and
  every number of digits. A numeral below `Half` does not wrap, and its product is the
  number of seconds. That `Reads` of digits is a natural number is an induction over
  the digits (`ReadsNumber`), by way of the least number at which it would fail
  (`SetInduction`), and so needs no theorem with an operator parameter.
* `StartupProofs!TableSorted`: the place of a record is the number of those with a
  smaller key (`Rank`). On a finite set of records with ids of their own that is a
  bijection with `0 .. Cardinality - 1` (`RankGrows`, `RankOnto`), and what the sort
  counts ahead of a record is its rank in whatever order the records come
  (`AheadCounts`). Hence `SortedSame`: two orders, one table.
* `StartupProofs!SettingSaysWhere`: `StateDir` of an environment with an absolute setting
  is a function of the setting (`DirOf`).
* `StartupProofs`: `StartupInv` is inductive. `NoIdTwice` speaks of settings and ids; what
  carries it is that every registration reported is, in the directory it went to, of a
  counter which that file has passed (`IsReport`), in terms of the text the binary was
  built with. `ListIsComplete` needs that what was reported and not struck out is a
  record of the file there, `TablesAgree` that what was printed is the table of a
  listing in some order, and both properties of timeouts that a monitor which goes on was not
  refused and has the budget of its text. Of plain texts `DurationsKept` then gives
  `TimeoutAsAsked`. Of all texts `AmountAtMost` gives `TimeoutAtMostAsked`: digits are no more
  in base 8 than in base 10 (`OctalIsLess`), and a number that wraps around does not
  become a greater one (`WrappedAtMost`). Who gets to the store at all has a valid word
  list (`CallerOK`): the theorems of `ChainProofs` are then cited through an instance
  with the words of the text, and `DataGiven` discharges its assumptions. From it:
  `StartupTypes`, `UniqueFromStart`, `ListShowsAll`, `TablesSame`, `TimeoutKept`, `TimeoutBounded`. TLC
  has checked `StartupInv` on the instance of `startup`, with the sets it draws from
  cut down to finite ones.

The last of these assume that ids are strictly and totally ordered as strings, that
commands call the methods their program calls, with a token where it has one, and that
the clock shows a number.

Model-checked only: `CallsReturn`, `CallsReturnIfReadersDrain`, `TimedWaitEnds` and
`SettledWaitEnds`, as liveness under fairness is out of the prover's reach. `BudgetAsNamed`
is the reverse: `TimeoutAsAsked` is what of it TLC checks, on the plain durations of its
instance.

## 7. Not modelled

* The letters of words and slugs: `validateID` is the set of names it accepts, and of a
  word the text keeps only what `parseAndValidate` admits. Line endings of the text.
* JSON, the wire protocol of the MCP SDK, the wording of messages, the widths of the
  columns: formats, about which no property is.
* What the code does not provide for: a power failure that undoes a completed rename, an
  operator who edits or removes `state.json` (after which ids start again), more
  than 2^64 registrations.
* In the installer: which directory, archive and download tool; Windows. All failures
  there are `Stop`, since `set -eu` ends the script.
* Manifests, slash commands, build, release and check scripts: prompts and tooling. What
  `commands/wait.md` makes of the wrapper and the wait script is in `ChainWait`.

Monitors, sessions and wrappers are composed with the atomic store and not with each
other: they meet in `state.json` and in exit codes only, and `SessionsAreClients` and
`MonitorsAreClients` show that each uses the store by its calls and nothing else.
