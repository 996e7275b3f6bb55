# Pulith, verified

TLA+ models of Pulith (the Rust library of this repository and its examples), TLC
configurations that check them on small instances, and TLAPS proofs of their
properties for every value of the constants. Paths below are relative to the
repository's root.

Pulith is a library of narrow operations on external resources: acquire, verify,
prepare, publish, inspect, reconcile, link, unlink, remove, run a process. Each
operation is one call; what makes it hard is that other programs, other threads and
crashes act between its system calls. The models keep those calls apart and let
everything else happen in between.

## 1. Inventory

| Component | State | Operations | Hard behaviours | What makes it correct |
| --- | --- | --- | --- | --- |
| Record store (`src/local/record.rs`, `record/native.rs`) | a root directory: one file per record, `stage/`, `lock`; the flock | `edit`, `create_from`, `replace_from`, `remove`, `inspect` | lock-free readers beside editors, death between two calls, power loss between rename and sync, failures after the commit | a record is whole or absent, a confirmed change is durable, sessions are isolated, errors tell the truth |
| Staging, publication, removal (`src/local/apply.rs`) | the target, private workspaces beside it or elsewhere | `stage`, `write_file`, `copy_file`, `copy_tree`, `publish`, `remove` | racing publishers, copies across parents, a removal that empties a tree while others publish, best-effort clean-up | nothing partial is visible, no predecessor is replaced, outcomes are those of the rename, workspaces are dropped |
| Views (`src/local/view.rs`, `observe_path` in `src/local.rs`) | a directory symlink, staged links `.pulith-switch-{pid}-{n}` | `link`, `link_root`, `unlink` | observe-then-act on a shared path, litter of dead processes, reuse of process ids, trees that vanish | a switch has no gap, foreign entries stay, staged names neither collide nor run out, answers are truthful |
| vtool example (`examples/vtool`) | published versions, one view, `snapshot.json` | `install`, `activate`, `deactivate`, `repair` | effects before commits, a non-blocking lock, retries, deactivation racing repair | records never run ahead of trees, no commit is lost, repair stays within its mandate |
| Process execution (`src/process.rs`, sync and tokio) | child, process tree, pipes, cancel token, scratch worktree | `acquire`, `wait`, `poll`, `stop`, `stop_within`, cancellation, drop | timeout, cancellation and exit racing; descendants that keep pipes open; stop errors; drop | the tree never outlives the session, diagnostics are bounded, every wait has an end |
| Remote acquisition (`src/net.rs`, ureq and reqwest) | the staged download, validators, the retry counter, rate state | `inspect`, `acquire`, range resume, rate admission, pacing | interrupted bodies, changed representations, 200 to a range request, retry budgets | bytes are those of one representation, limits hold, retries end |
| Archive preparation (`src/archive.rs`) | the extraction root, the path index, decoded counters | `prepare`, `extract_*`, `sniff` | collisions by case and by file against directory, limits at their boundary, failure in clean-up | no two entries collide, limits hold, no partial root stays |
| Local sources and preparation (`src/local.rs`, `src/local/materialize.rs`) | a material: a caller's path or an adapter-owned file | `acquire`, `prepare` | the path is opened once per call and may change in between | what is prepared is what was verified |
| Exact artifact inspection (`src/hash.rs`) | none | `verify`, `inspect`, `reconcile` | verify-then-reopen | the digest is of what is used |
| toolhost service commands (`examples/toolhost/service`) | the definition, the manager's registration, the granted access and its journal | `install`, `enable`, `rebind`, `disable`, `start`, `stop`, `restart`, `remove` on systemd and Windows | a command cut short between the manager, the tree and the access lists; a reboot; a service that exits by itself | what runs is what is bound, a removal leaves nothing, every grant is accounted for |
| toolhost host, recipe, shim (`examples/toolhost`) | a published tool, a managed session | build recipe, host loop, shim | a stop that times out | partial outcomes are told |
| Windows native halves | as above, by Win32 calls | the same operations | sharing violations, missing capabilities | as above |
| Behaviour traits (`src/lib.rs`), manifest and CLI parsing | none | declarations, parsing, formatting | none | no state |

Components interact through the file system only: `Prepare` and the examples
populate a stage that `publish` consumes, `link` exposes what was published,
records say what was done, and the applications decide the order. There are no
callbacks and no shared memory between operations, except the threads of one
process that share its id (staged names of views) and the readers of a child's
pipes.

## 2. Plan

The order of work, the most important behaviour first, and what of it is here.

| Step | Modules | State |
| --- | --- | --- |
| 1. Durability and atomicity of records | `RecordStore`, implementing `AtomicRecord` | done, proved |
| 2. The commit boundary of trees | `Publication`, implementing `AtomicTarget` | done, proved |
| 3. Switching and withdrawing | `View`, implementing `AtomicView` | done, proved; an observation is one step |
| 4. The composition of 1 to 3 in an application | `Vtool` | done, proved |
| 5. Exit, timeout, cancellation, stop and drop of process trees | `ProcessTree`, `Process` | done, proved |
| 6. Retries and resumption of a download | `RemoteAcquire` | done, proved, with the HEAD inspection; rate admission and pacing are left |
| 7. From a source to a prepared tree | `Archive`, `Material` | done, proved |
| 8. Commands over a service manager | `Service` | done, proved; the host loop and the recipe are left |

What is left, in this order: the three system calls of an observation in `View` as steps of
their own; two operators in `Service`; the loop of `service_host.rs` over `Process`; the
delays, rate admission and the byte pacer as operators over bounded inputs, checked
against a reference definition.

## 3. The modules

Each component has a module of state and actions (one action per system call or per
step of a handler), a module of properties (`...Props`), an `MC...` module with the
instances TLC uses and a module of proofs (`...Proofs`). `ProcessTree` and `Archive` are
parts that `Process` and `Material` extend. Each has one type invariant, `TypeOK`, which is
proved and not run. Definitions named
`Action_Something` are seeded faults: the action as a plausible bug would have it.
They are not part of any specification; each shows that a property notices the bug.

### 3.1 RecordStore

A record (`entry[n]`) is missing, foreign (`Other`) or a file: a payload, how many of
its bytes are there, and whether they were synced. `pending[n]` is the set of entries a
power loss now may leave at the name. `SetEntry` (a rename or unlink) adds to it,
`SyncParent` reduces it to what is visible, for every name of the root at once.
`PowerLoss` picks one of them and cuts unsynced data anywhere.

An editor walks `idle -> session` (`edit`: classify, open, flock, one step that either
fails, is Busy or acquires), then through the calls of `write` or `remove` in the
order of the source: admit the name against the entry, `ensure_stage` and `reclaim`,
`create_new`, copy (byte by byte up to the limit, then the probe for one byte more),
`sync_all`, rename (without replacement for a create), `sync_parent`, the second
`inspect`. Every call may fail (`WriteFails`, `UnlinkFails`, `SyncParentFails`,
`VerifyFails`), the editor may die after any of them (`Die`), and nothing it left on
disk goes away with it. The history variables `before`, `seen`, `confirmed` and
`window` record what a call found, what a session has read or written, whether an
entry was returned as done, and what a name held during a read.

A reader without the lock makes its three looks (`InspectCall`, `InspectKind`,
`InspectOpen`) and reads the file it has opened.

`AtomicRecord` is what the store promises: a register that changes in one step and
whose confirmed values survive a power loss. The refinement maps an entry to its
payload when it is whole and synced; a torn entry maps to a value that is no payload,
so an implementation that ever showed one would not refine.

Properties: `NoTornRecord`, `SessionIsolated`, `OutcomeTruthful`, `ConfirmedSurvives`,
`ReadLinearizable`, `CallsReturn` (liveness), `AtomicSpec` (refinement). `CallsShorten`
(what is left of a call never grows, whoever takes a step) and `NobodyBars` (the next step of
a call is never barred) are proved and not run: together they are why `CallsReturn` holds.

Unreachable and kept because the code has them are `create_new` over an existing stage and
every answer of the second look but success: `LookedAt` compares the length alone, as the
code does, so a missing entry would pass for an empty payload and a longer one be TooLarge.
`SessionIsolated` is exactly why neither can happen.

### 3.2 Publication

A tree is the set of its first-level entries. Each publisher is one chain of calls on
one `StagedTree`, each remover one call of `remove`; more calls are more members of the
constants. A publisher whose stage was placed beside another target (`Elsewhere`) copies
it entry by entry into a second workspace first. `Rename` is renameat2 with NOREPLACE.
`Discard` is the destructor of a temporary directory, which may fail and says nothing.
A remover reads the kind of the entry, then removes the file or opens the directory;
an opened directory is emptied one entry at a time wherever it is by now, and the
directory is removed by its path. `absent` records the removers during whose call the
target was missing.

`AtomicTarget` is what callers may rely on: a place that is taken in one step, whole, when it
is empty, taken apart by removals that are under way, and emptied in one step; publishers and
removers are told only what happened within their calls. The refinement shows the tree at the
target, whether all of it is there, and the answers; stages, copies and workspaces map to
nothing. `Rename` is Publish or Lose, the failures Refuse, `RemoveItem` is TakeApart,
`RemoveFile` and `RemoveDir` are Remove or Return.

Properties: `WholeUntilRemoved`, `PublishTruthful`, `NoResidue`, `RemovalTruthful`,
`AtomicTargetSpec` (refinement). `NeverReplaces` (a published tree is never replaced, only
removed) is proved and not run, because the refinement contains it.

A removal may delete a tree published after it started: `RemovalTruthful` says what its
answer still means, namely that the target was missing at some moment of the call. The
code promises no more.

### 3.3 View

The entry at the view is missing, a foreign file or directory, or a symlink to a tree,
valid while the tree exists. `link_view` is `ObserveSource`, `ObserveView`, then
`Create` or `ReadPrevious`, `StageLink` (one exclusive symlink per attempt, names by
process id and attempt), `Replace`, `PostObserve`; a failed rename goes through
`CleanUp`. `Unlink` is `UnlinkObserve`, `UnlinkRemove`. A process dies with all its
threads; `litter` records the staged links left by that or by a failed clean-up;
`Reuse` gives its id to a later process. Trees are published and removed at any time.
`disturbed` records the linkers since whose call somebody else has created, turned or
withdrawn the view, or a tree was removed.

An observation (lstat, read_link, stat of one path) is one step. What an interleaving
inside it adds are answers that reject the view; no effect follows such an answer.

`AtomicView` is what callers may rely on: an entry that a link sets where there is none or
turns to another tree in one step, that an unlink takes away in one step, and that stays when
it is foreign. Each call changes it at most once, and an answer that claims no change made
none. The refinement keeps the entry, the calls under way, what each call's change took the
place of, and the answers: `Create` is Create, `Replace` is Turn, `UnlinkRemove` is Unlink,
the death of a process ends all its calls at once, observations and staged links are stutters.

Properties: `StagedIsOwn`, `StagesReclaimed`, `NamesSuffice`, `LinkTruthful`,
`AtomicViewSpec` (refinement). `NoGap` (only an unlink makes a view disappear) and
`ForeignStays` (an entry that is no view is never replaced or removed) are proved and not
run, because the refinement contains them.

`LinkTruthful` is about what the refinement does not see, the trees behind the view and what
the documentation says of an answer: of a call that nobody disturbs, Replaced means that a
valid view was replaced, Created and Replaced that the view leads to the wanted tree, and a
conflict that nothing was replaced. Of a disturbed call the code keeps none of the three
(section 4, milder disagreements), and the property leaves it open. What the refinement still
says of such a call is that it changed the view at most once, in one step. `StagesReclaimed`
excepts deaths and failed removals; what their litter may cost is `NamesSuffice`.

### 3.4 Vtool

The composition. Publication is one step that never replaces (3.2), the snapshot is
read and replaced atomically under a lock that is tried once (3.1), the view is observed
in one step and changed in another (3.3). The commands follow `realize.rs`:
`install` = `Publish`, commit; `activate` = `LinkObserve`, `LinkCreate` or `LinkSwitch`
and `LinkCheck`, commit; `deactivate` = `UnlinkObserve`, `UnlinkRemove`, commit; `repair`
= `ReadRecord` without the lock, `CheckTarget`, `CheckView`, then up to `Attempts`
attempts. `Fail` is the error path of every step: a command reports it, a repair counts
the attempt and starts another. `Failing` is the set of steps whose calls may fail.
Versions and the view may disappear outside of vtool (`LoseVersion`, `LoseView`).

Properties: `InstalledIsPublished`, `ViewIsPublished`, `NoLostCommit`,
`CommandsReturn` (liveness). Proved and not run: `NothingUninvited` (a repair touches nothing
that was never installed) and `NoCircles` (each step of a command, a failed one too, is a later
one of it or begins the next of its attempts, and nobody sets another's command back). The
disagreement of `vtool_resurrect` is delimited by `NotOvertaken`: no deactivation of a version
is committed while a repair of it is between its first read and its own commit.

### 3.5 RemoteAcquire

One `acquire` of a `PreparedRemote`, blocking or asynchronous: both run the same steps
and share the admission of responses. Or one `inspect` of a `RemoteUrl` (`pc = "heading"`),
the same loop without a body: a request that fails is retried (`HeadFails`), so is a 503
within the policy, any other status and the last 503 are what the inspection has observed
(`HeadAnswered`), and an answer from an address that is no URL ends it, whatever its status
(`HeadUnplaced`, in the blocking client). A representation is a sequence of numbered bytes,
the stage a function from positions to bytes, so that a mixture is visible; `Zero` is
what `set_len` puts beyond the end of the file. `PrepareRestart` and `PrepareResume`
freeze the policy and the partial bytes. Each round of the loop is a request that fails
(`SendFails`) or is answered (`Respond`): 416 to a range restarts once, 503 stands for the
statuses the policy retries and 404 for the others, 200 transfers the whole of whatever
representation is current, 206 is admitted only if it continues the partial bytes of the
validator's representation to their end, and everything else is a protocol error.
`Reset`, `Copy` and `Succeed` are the transfer, `BodyBreaks` the cut that is reported and
`BodyEnded` the end that may be premature when a body ends with its connection.
`RetryOrFail` and `Again` are the loop's counter; `fallen` is its `unreachable!()`.

Properties: `OneRepresentation`, `WithinLimit`, `AttemptsAccounted`,
`ResumeEvidenceTruthful`, `AcquireReturns` (liveness), `Shrinks` (every step leaves less to
do: fewer attempts, or a later stage of the same attempt, or fewer bytes of its response).

A 416 restart uses up one of the retries: `max_attempts` grows by one for it (net.rs:1358),
but `will_retry` still compares the loop's index with `max_retries` (net.rs:1387), so what
the larger bound allows is the restarted request itself and no further retry.
`AttemptsAccounted` holds either way. It also says that no failure the policy would retry
(`Transient`) is reported while retries are left, for downloads and inspections alike.

### 3.6 Process

`ProcessTree` is what the code asks of the operating system: a child that leads a
process group, the descendants it forks (`Fork`), some of which leave the group
(`Detach`), what they write (`Write`), how they end (`Exit`), the status that `Reap` hands
over once, and the signal that reaches the group (`KillGroup`). A killed process is
`doomed`: it does nothing more and dies when the kernel lets it. The number of a child that
was waited for may come to name another group (`Reuse`); `struck` records that it was
signalled then. `hostReaps` is a program around the adapter that reaps children itself.

`Process` is one call over that tree: `private` (`realize` in a scratch workspace),
`async` (the same on tokio), `worktree` (a run in the caller's directory) or `session`.
`Prepare` admits and copies the inputs one by one; `Enter` passes the look at the token;
`Spawn` starts. The blocking loop is `CheckCancel`, then `PollExited`, `PollRunning` or
`PollFails`; a timeout or cancellation goes to `Stop` and `Stopped`. The asynchronous
call is the `select!` (`AwaitExit`, `AwaitTimeout`, `AwaitCancel`, `AwaitFails`), the
readers of the pipe (`ReadChunk`, `ReaderEnds`, `ReaderFails`), the join (`Drained`), and
the guard, which is dropped armed in `Unwind` and `DropFuture`. `Finish` looks at the
output, `Clean` closes the workspace. The blocking calls capture into a file and read it back
when the outcome is decided (`ReadBack`): only a file that cannot be opened is None; one whose
metadata or whose single read fails, or that is read short, is presented like any other
(`reader = "short"`). A session is `Observe`, `Wait`, `StopWithin`,
`StopPoll`, `DropSession`, `Drop`. The token and the clock act at any moment (`Cancel`,
`Elapse`).

Properties: `RunTruthful`, `StoppedTreeIsGone`, `CustodyTruthful`, `SignalsOwnTree`,
`DiagnosticsTruthful`, `CallsEnd` (liveness). `DiagnosticsTruthful` asks completeness up to the
cap of asynchronous runs and of files that were read as they were; of a short one only that it
stays within the cap and claims no cut that was none. `InterruptedAwaitsDying` delimits the
disagreement of `process_drain` and is proved, not run: a run that was interrupted waits at its
pipe for nobody but the killed and the detached.

What the properties except, because the code does so: a natural exit leaves descendants
running; a failed wait leaves the tree as it is; after `StopTimedOut` the drop of the
session waits for the child without a bound (`DropWaited`); the guard of an asynchronous
run, and a `stop_within` after an `observe` that saw the exit, signal a number that may
have been given to somebody else (`SignalsOwnTree`).

### 3.7 Archive and Material

`Archive` is `ArchiveKind::prepare`. A container is what its decoder hands over: entries
with a path, a kind, a declared size and the bytes they turn out to hold. `ResetRoot`
empties the root. Each entry is one step: `Verdict` is the checks in the order of the
code, `Refuse` the first that fails, `Skip` a path that is stripped away, `MakeDir`,
`CopyFile` and `CopyFails` the rest; `Moves` says how far a copy that reads one byte past a
limit gets, `CopyVerdict` what is made of it. `Draw` is the counting reader around a TAR
stream. `Complete` reads to the end, `Breaks` is any failing call, `CleanUp` resets
the root and keeps both errors. `entered` and `above` are the two maps of
`ArchivePathIndex`, on folded names; `OnDisk` is the disk's own comparison, which may
ignore case or not.

`Material` is the chain around it: `Acquire` (follows links), `Verify` (does not, and
digests what it opened), `Sniff`, then `AdmitCopy` and `Copy` or `Open` and `Extract`,
and `Drop`. The owner of the path gives it another entry at any moment (`Replace`), except
where the material is an adapter's own staged file.

Properties: `TreeIsArchive`, `LimitsHold`, `RootReclaimed`, `VerifiedIsPrepared`.

A look at the root that fails is taken for absence, and what is in the root stays
(`blind`): the properties say what remains true then.

### 3.8 Service

The commands of `lifecycle.rs`, given one after the other. Each is an observation that
decides (`Install`, `Enable`, `Rebind`, ..., `Remove`; `Refuse` where the state is not
accepted) and the chain of steps it begins, on systemd (`WriteUnit`, `Link`,
`DaemonReload`, `RemoveUnit`, ...) or on Windows (`CreateService`, `ConfigureSecurity`,
`Switch`, `DeleteService`, ...). `registration`, `boot` and `runtime` of the code are the
operators `Registration`, `Boot` and `Runtime` over what the manager holds. On Windows the
service's account is granted access to the release and the declaration, and a journal in
the service's own directory tells grants it made from access that was there before: `Apply`
writes the stable receipt, `BeginRebind` the intent, `Grant` one grant at a time, `Settle`
revokes what the source does not share with the target, `ReplaceReceipt` and `RemoveIntent`
close the journal, `Revoke` is the removal's. Between any two steps the command may fail or
die (`Abandon`), the computer start anew (`Reboot`), the service come up, go down or exit
(`Transition`), the active release change (`Activate`) and the manager carry out a deletion
(`Deleted`).

Properties: `RunsWhatIsBound`, `RemovedLeavesNothing`, `GrantsAccounted`.

What a reader of the model should know of the code, all reachable in it and none against a
document of the repository:

- A Windows rebind cut short after the switch leaves receipt and binding apart. The
  registration is then Broken: `rebind`, `enable`, `disable` and `start` are refused,
  `repair` refuses the pending intent, and `remove` wants the service stopped and disabled.
  While it is enabled no command works, although the journal itself would admit the retry
  (`access.rs:109`). A cut between the new receipt and the removal of the intent, and a
  change of the active release while an intent is pending, refuse every rebind until the
  service is removed.
- A rebind to the same release records the service's own grants as preexisting: a later
  rebind or removal leaves that release's grant. `CreatedBy` excepts it.
- A directory removal interrupted after the journal went cannot be finished on Windows.
- A systemd rebind cut short after the unit went makes the registration Missing; a removal
  then skips `disable` and leaves the manager's link. `RemovedLeavesNothing` excepts it.
  Cut short inside the directory's removal it leaves an empty directory that the next
  `WriteUnit` will not write into.
- After a failed `daemon-reload` a start may run the old release (`stale`).
- A service that failed by itself on Windows can neither be started, stopped nor restarted
  by a command.
- `AcceptedEffect::BindingChangeRequested` is never produced.

## 4. The runs

State counts are distinct states.

| Run | Instance | What it shows | States |
| --- | --- | --- | --- |
| record_editors | two editors, two names, payloads at and above the limit, every failure, death and power loss | all safety properties of editing and the refinement; syncing one name settles both and loses neither | 131 thousand |
| record_reader | one editor, one lock-free reader, payloads of 0 and 2 bytes, limits 1 and 2, fairness | reads are linearizable, calls return | 213 thousand |
| publication_race | a tree beside the target, one staged elsewhere, a plain file, two removers | all publication properties and the refinement | 1.03 million |
| view_callers | two threads exposing different trees, an unlinker, two staged names, deaths and reuse of the id | all view properties and the refinement | 1.39 million |
| vtool_commands | two processes, three commands, two trees sharing the view and a file without one, two attempts, any step may fail, fairness | all safety properties, commands return | 408 thousand |
| material_prepare | containers of up to two of eleven entries, six policies, both families, both kinds of disk, two contents, a path that is replaced at any moment | trees are the container's, limits hold, roots are reclaimed, what is prepared was verified | 1.53 million |
| process_calls | every kind of call, a child with one descendant, two bytes of output, caps 0 and 1, a pipe of one byte, five lists of inputs, fairness | all process properties | 591 thousand |
| remote_calls | two representations of 3 and 2 bytes, partial files of every length, 0 to 2 retries, no limit and limits of 1 and 2; inspections under the same retries; fairness | all properties of acquisition | 110 thousand |
| service_commands | both platforms, two releases, any of them readable beforehand, any sequence of commands | all service properties | 444 thousand |

Three runs end in a violation; each is a disagreement between the code and what its own
documentation says:

| Run | Disagreement |
| --- | --- |
| vtool_resurrect | a repair that read the record before a deactivation records `Installed` over it (`realize.rs:113`) |
| process_drain | a descendant that inherited the output keeps an asynchronous run waiting after the child has ended, past its timeout, where the guard's comment has it end like the blocking one (`process.rs:1798`, 1882) |
| remote_mixed | a range answered 200, cut and asked again is appended to what the restart left, and returned as a success (`net.rs:1434`) |

Milder disagreements, which the models contain and no run is spent on:

- `BeforeCommit` ("failed to ... before commit", `record.rs:131`) is also returned by the
  verification after the commit (`record.rs:305`, 259).
- `copy_tree` of an empty directory copies nothing, so the stage cannot be published
  (`apply.rs:93`, 325); `PublishersAreTold` holds for such a source too.
- `ViewConflict` ("nothing replaced", `local.rs:106`) is also returned after the replacement
  (`view.rs:333`), when the view was withdrawn or its tree removed before the last observation;
  and `BeforeLink` when that observation itself fails (`view.rs:337`).
- "A read failure yields `(None, false)`" (`process.rs:2075`; "or `None` when unavailable", 788)
  holds of opening the file. A failing `metadata` gives `(Some([]), false)`, a failing or short
  `read` the part that was read and the flag of the whole (`process.rs:2082-2087`).
  `DiagnosticsTruthful` says what such a capture still keeps.
- `repair` of an installed plain file is never satisfied and realizes it again in vain, where
  the example's README lets it perform only what is required (`realize.rs:122`).
- `RemoveEvidence::Removed` ("changed the filesystem") can be returned by the second of two
  concurrent removals, which removed nothing (`apply.rs:308`), and `LinkChange::Replaced`
  ("replaced an existing valid view") by a switch whose view was unlinked before its rename
  (`view.rs:327`).

### Bounds and why they are enough

- Record store: editors exclude each other by the lock, so two show every interaction of
  a session with a rival and a predecessor's residue; two names show that the root's
  sync is shared. Payload sizes 0, 1, 2 against limits 1 and 2 lie below, at and above
  each limit. The reader's calls do not change the store, so one reader is as good as any.
- Publication: the target is one place; the race is decided between a winner, a loser and
  a later winner after a removal, hence three publishers and two removers. Two entries per
  tree are the least that can be half there.
- View: two linkers and an unlinker give every pair of overlapping steps on one path; two
  staged names make the search run to its end. The code's bound is 128 and appears as the
  constant `Attempts`.
- Vtool: two processes and three commands allow a repair beside a deactivation and two
  commits beside each other, after an installation; `MaxRuns` bounds the number of commands and with it the
  generations.
- Remote: two representations of different lengths show a change in either direction; three
  bytes allow a partial file, a continuation and a cut inside each; two retries are the
  ignored range, its repetition and one more. The violation needs one retry.
- Material: two entries are what a collision, an ancestor conflict and a sum over a limit
  need; two names and one fold give every relation of two paths; the sizes 0, 1, 2 and a
  declared 8 against limits of 1 to 5 and a largest integer (`U64`) of 8 lie below, at and
  above each limit and past the integers; entries lie about their size in both directions.
- Process: one descendant can share the group or leave it, and hold the pipe or not; two
  bytes against caps of 0 and 1 and a pipe of 1 give output below, at and above the cap and
  a writer that blocks. The tree is followed until the call has returned.
- Service: two releases are a source and a target, or the same twice; the number of
  commands, deaths and reboots is not bounded.
- Symmetry is used over editors, removers and releases, and never in a run with a liveness
  property.

The proofs remove these bounds for every safety property, the action property and the three
refinements. Properties that are proved and not run were checked on the same instances before
they were proved.

### Fairness

`FairSpec` of RemoteAcquire assumes weak fairness of its one call: a request is answered
or fails, and a body goes on, ends or breaks. The policy's `timeout` makes it so; without
one (the default) a server that stays silent keeps the call waiting, and `AcquireReturns`
says nothing of it.

`FairSpec` of RecordStore and Vtool assumes weak fairness of a process's next call, and
nothing else: a thread that has made a call keeps running. Nothing obliges a program to
make another call or to end its session, and no failure is bound to happen. It is
justified because no call of these components waits for another process: the flock is
tried without blocking (`native.rs:126`), the sleeps of repair are bounded.

`FairSpec` of Process assumes weak fairness of the adapter's own thread or task, of its
readers, of the clock and of the death of a killed process. Nothing makes a program end by
itself, so `CallsEnd` excepts a caller that waits for a session, and an asynchronous run
whose pipe a descendant holds. Service and Material state no fairness: their steps are
calls that return, and what may stay undone after a death is the subject of their safety
properties.

Runs of Publication, Vtool, RemoteAcquire, Material and Process switch deadlock checking off
because their systems stop: each publisher, remover, acquisition, preparation and run is one
call, and `MaxRuns` ends the commands. RecordStore, View and Service never stop, and are
checked for it.

## 5. The proofs

Eight modules hold theorems. In each, an inductive invariant is stated and proved by one
lemma per action (or per family of actions that change the same variables), the named
theorems follow from it, and the last step combines them with PTL.

- `RecordStoreProofs`. `StoreInv` adds to the properties where a write stands on its stage
  file (`StageInv`: absent, growing, complete, synced), where an operation stands on the
  entry (`EntryInv`: as it was before the rename, as asked after it) and that what is
  confirmed is all a power loss can leave (`PendingInv`). Without `StageInv` a rename could
  put anything under the name; without `EntryInv` outcomes would not follow. The step that
  carries the weight is `Commit`: the stage is whole and synced there, so nothing torn is
  ever pending. The readers' invariant says that what a reader holds is in its window.
  `StoreIsAtomic` is the refinement: `Commit` maps to Create or Replace, `Unlink` to Remove,
  `SyncParent` to Settle, `Verify` to Confirm, `PowerLoss` to PowerLoss, all else to a stutter.
  `CallsAreShortened` rests on the lock: while a call is under way every other editor can only
  be refused, so its place, its operation and its stage are its own; each of its steps, a
  failure, a death and a power loss included, has a smaller rank or, in the copy, fewer bytes
  left. `CallsAreNotBarred` is `StageInv` and `EntryInv` read as guards.
- `PublicationProofs`. `Visible`: only renamed trees are at the target or held by a remover,
  and each is whole or touched. `Prepared`: a publisher's tree is complete before its rename.
  `Watched`: while the target is missing, every removal under way has seen it.
  `TargetIsAtomic` needs `Contained` besides: what a publisher has put together is part of its
  source, and it is told nothing before its call is decided; without it an entry taken away
  could map to a tree that becomes whole again, and an answer could be given twice. One lemma
  per action names the abstract step or the stutter it maps to.
- `ViewProofs`. `NotForeign`: a caller past its observation knows that the view is not foreign,
  and nobody makes it so. `Undisturbed`: what a caller found (its source, a valid view or none)
  holds until it returns or somebody disturbs it, and every disturbance is recorded; that is
  what `LinksAreTruthful` rests on. Ownership of staged names and their reclamation are inductive
  only together. `NamesAreEnough` is a counting argument over finite sets: every name a
  search has passed over is litter or belongs to a sibling thread, at most one each.
  `ViewIsAtomic` has one lemma per family of steps; the switch maps to Turn because `NotForeign`
  holds where it renames, whatever has become of the view since it was observed.
- `VtoolProofs`. `Known` (published or lost), `Supported` (a process past its observation has a
  version that is known), `Locked` (between lock and write the copy is the snapshot),
  `Invited` (a repair past its first read found a record). `CommandsMakeProgress` orders the
  steps of a command by a rank below its count of attempts. `OnlyOvertakenRepairsResurrect` and
  `AloneNothingResurrects` are the boundary of `vtool_resurrect`: a repair that nobody overtakes
  commits over an Installed record (`Current`), and one process alone overtakes nobody.
- `RemoteAcquireProofs`. `Budget`: while a restart is still possible the counter has not
  passed the retries, which is why the loop's one extra attempt suffices. `Accounted`: one
  entry per attempt. `Kept`: when a range may be asked again, the stage begins with the
  partial bytes unless the body of a 200 broke; this exception is exactly what
  `remote_mixed` exploits. `Copied`: a transfer continues what is in the stage.
  `CallsShrink` is a lexicographic measure over attempts, stages of an attempt and bytes of its
  response, which needs `Budget` (the 416 restart has an attempt left) and `Unspent` (no
  transfer is past its end). `MixtureNeedsBrokenRetry` is the boundary of `remote_mixed`: where
  the appended bytes are not the validator's, a full body broke and the policy allows a retry.
- `ProcessProofs`. `TreeInv`: once the group was killed it stays doomed, because its members
  can no longer fork and those that left never come back; a number is reused only when the
  group is empty. `PlaceInv` and `KindInv`: where a call is decides whether the child is
  gone and which outcome is pending. `StopInv`: every interrupted outcome has been through
  the kill and the wait; `OutcomeInv`: every natural one through neither. `CustodyInv` is
  the workspace; `CaptureInv` says that what a pipe's reader retains is the smaller of the cap
  and what was read, that a pipe ends only when all was read, and what a file read back keeps. Without `TreeInv` the claim that
  nothing of a stopped tree is at work would be lost by the next fork.
  `InterruptionsAwaitTheDying` is the boundary of `process_drain`: only the drain after a natural
  exit can wait for a process that nobody stopped.
- `MaterialProofs`. `IndexInv`: the index knows every file below the root by its folded name,
  and all that is above it, so a name it admits is under no other on any disk. `TreeInv`:
  while nothing has failed the files are exactly the file entries read, each whole; the step
  that carries the weight is `CopyFile`, where a copy that stopped short stopped past a limit
  and is refused. `LimitInv` is the counts, `FailureTruthful` what a refusal may name,
  `PhaseInv` and `StepInv` the phases, `VerifyInv` that only a replaced entry can differ from
  what was verified.
- `ServiceProofs`. `PlatformInv` and `StepInv`: a step finds what an earlier step of its
  command left. `JournalInv`: no entry owns what was borrowed, and an intent goes from or to
  the stable receipt; `finish` and `cleanup_removed` are sound only because of that.
  `HeldInv`: what may be started, by a command or at boot, has a definition and access.
  `QuietInv`: a command that switches or removes finds the service down, and nothing but a
  command or a boot brings it up. `RemoveInv`: what a removal has achieved stays.

Assumptions are those of the modules that declare the constants (`ConstantsOK`,
`TreeConstants`, `CapsOK`, `ArchiveConstants`, `MaterialConstants`, `ServiceConstants`,
`NoneIsNoRecord`): the model values differ from each other, limits and bounds are numbers of
the right sign, the source of a plain file is not empty, linkers are finitely many, folding a
name twice is folding it once. TLC evaluates them in every run. `AloneNothingResurrects`
states its own hypothesis, that there is at most one process.

Only model-checked: the liveness properties (`CallsReturn`, `CommandsReturn`,
`AcquireReturns`, `CallsEnd`) and the violations. Liveness under fairness and ENABLED are
beyond the prover. What is proved of the first three is their non-temporal core, a measure that
every step lowers (`Shrinks`) or that no step raises (`CallsShorten`, `NoCircles`): a call that
does not end is one the scheduler has left alone. `CallsEnd` has no such measure, since the
loop that waits for a program goes round until time passes. Induction over data and anything
computed by a RECURSIVE operator are beyond the prover too, which is why the modules declare
none.

## 6. Assumptions about the environment

- rename, renameat2 with NOREPLACE, symlink, unlink and rmdir are atomic for every observer;
  an opened file keeps its content whatever happens to its name.
- A directory change that was not synced may or may not survive a power loss, independently
  of others; data that was not synced survives as any prefix; after `sync_all` both survive.
- flock belongs to the open file and is released when the process dies.
- `remove_dir_all` is that of the Rust standard library on Unix (the crate requires 1.88): open
  the directory, remove what it lists, ignore entries that are gone, remove the directory by path.
- Only Pulith's callers write below a store's root, a stage and a view's parent; foreign
  entries may be there from the start.
- A caller's partial file is a prefix of the representation its validator names; a partial
  response that names no validator is of the representation If-Range asked for.
- A signal to a process group reaches all its members at once, and a killed process makes no
  further system call; a status is handed out once; a process number is not reused while its
  group has a member or its status was not collected.
- A digest names one content. A decoder hands over entries and bytes, or fails; a ZIP entry
  may hold more or fewer bytes than it declares, a TAR entry only fewer.
- Nobody but the extraction works below its root, and nobody but toolhost registers, starts
  or stops a service under its id; one operator gives one command at a time. Published
  releases stay. systemctl and the Windows service manager do what they answer.
- Windows has the same operations with other primitives; the models of the library take the
  Unix branch. `Service` has both platforms.

## 7. Not modelled

- Delays, rate admission and pacing of `net.rs`: planned (section 2). They decide when a
  request goes out and nothing else; the limiter itself is a library.
- Power loss for publication, views, extraction and services: the code syncs nothing there, or
  leaves it to the manager, and promises nothing.
- The Windows native halves of the library: their guarantees are those of Win32 calls the
  sources name but do not describe. The Job Object is abstracted by the process group; its
  refusal is one more failure to start. Names that are equal or invalid on Windows only.
- `Process`: the second output stream, which is treated like the first; command line and
  environment.
- `Archive`: directories that a path implies under names that differ in case, which no limit
  or property tells apart; the codecs.
- `Service`: two operators at once (no lock excludes them), a second declaration under the same
  id, starting and stopping outside toolhost, and with them every Conflict but the boot state
  of a unit without its link; the entries of access lists (membership in one set); the checks
  that inputs are not writable by others (a refusal). `service_host.rs` composes operations of
  `Process` and is seen as `Transition`.
- The reconcilers of `local.rs` and `hash.rs`, and vtool's plan: tables over one observation.
- toolhost's recipe and shim: one sequential composition of operations modelled above.
- Parsing of manifests and command lines, formatting of reports and errors: no state.
- Digests, codecs, TLS and HTTP framing: third-party code.
