# Confinery: TLA+ models, checks and proofs

Confinery runs a command inside a sandbox that a TOML profile describes. This
directory holds TLA+ modules of the parts of it where processes, threads and the
kernel meet, and of the command from its profile file to its exit status; the TLC
configurations that check them on small instances; and proofs, checked by TLAPS, that
hold for every value of the constants.

`PROJECT.json` is the machine-readable index: components, runs, the lines of
source each definition stands for, findings, hazards, and theorems. Line numbers
below are of the sources at the commit modelled; `mod.rs` is
`crates/confinery-sandbox/src/linux/mod.rs`.

## 1. The system

Three crates: `confinery-core` (the profile, its validation, units and the audit
trail: pure data and file formats), `confinery-sandbox` (the engine: one backend
per platform behind the trait `Sandbox`), `confinery` (the command line).

| Component | State it keeps | Operations | Interacts with | Hard part |
|---|---|---|---|---|
| Linux run (`linux/mod.rs`) | the plan, the report's layers, three channels, the child | `run`, `ExecPlan::apply` | child by fork, pipe, pipe, socket; audit trail; cgroup | two processes, failure at any step, ten ways out |
| Wait (`wait_with_timeout`) | `done`, the killer thread | wait, poll, kill, join | the kernel's process table | two threads and a pid number that is reused |
| Connect supervisor (`linux/connect_filter.rs`) | the refusal list | `receive_and_supervise`, `supervise` | kernel notifications; `run()` through a mutex | reads of another process's memory, notifications that vanish |
| Mounts and Landlock rules (`mounts.rs`, `landlock.rs`) | the new root, the rules | `setup`, `bind_path`, `mask_path`, `from_policy` | the host file system; one step of the child each | later mounts hide earlier ones; setup runs on the host's files |
| Setup steps (`namespaces`, `mounts`, `caps`, `landlock`, `rlimits`, `seccomp`) | the child's own kernel state | `enter`, `setup`, `apply`, `install` | the order in `apply_inner` | each step takes what another gives up |
| Cgroups (`linux/cgroups.rs`) | a directory | `create`, `add_process`, `cleanup` | `run()` before, during and after the child | best effort; early returns |
| Host detection (`detect.rs`) | none | `detect`, `has` | read by `run()` and by the CLI | probes, with a fork to try a user namespace |
| Environment (`common.rs`) | none | `apply_env`, `resolved_env_vars` | `Command` | duplicates, case of `PATH` |
| Windows Job Object (`windows/mod.rs`) | the job handle | `run`, `assign`, `terminate` | the child | assignment after the spawn, clamped timeout |
| Windows wslc (`windows/wslc.rs`) | none | `run`, `build_wslc_args` | the `wslc` client | kills a client, not the container |
| Policy (`confinery-core/src/policy.rs`) | none | `validate` | the CLI refuses invalid profiles | agreement with what the backends do |
| Profile, units, syscalls, network, ... | the profile | parse, resolve, display | everything | rounding, expansion of paths |
| Audit (`audit.rs`) | an append-only file | `record` | every backend | order of events against what happened |
| Command line (`confinery/src`) | none | `run`, `profile`, `init`, `doctor` | validate, detect, `Sandbox::run` | exit codes |

What makes each of them correct:

* **Linux run.** The command executes only behind every boundary the profile and
  the host call for; the report and the trail claim only what is enforced; every
  way out leaves the direct child unstarted or reaped; the answer blames the right
  step; a run with a timeout returns.
* **Wait.** It returns with the child reaped and its thread joined; it reports a
  kill that happened; it does not report a timeout for a child it was done with before the
  deadline.
* **Connect supervisor.** A verdict is a verdict on the address the call was made
  with; a refusal in the audit trail was a real attempt, and the child's refusals
  are all there; no connect hangs.
* **Setup steps.** No step of the order defeats a later one.
* **Cgroups.** Claimed limits hold for the child; the directory goes away.
* **Mounts.** What the command sees and may write is what the four lists say, deny
  first; Landlock agrees; setup leaves the host as it was.
* **Capabilities.** What is dropped stays dropped; what is kept is in effect.
* **Windows backends.** Members of the job end with the run; a timeout is genuine and
  kept; the trail agrees with the answer.
* **Environment, units, policy.** Each variable of the command comes from where the
  policy says; what `profile show` writes reads back as the same profile; what the
  validator accepts the backend can plan.
* **Syscall filter.** What is listed decides; the clone guard and the connect filter
  weaken nothing.
* **Command line.** A status of 0 means success; a required isolation is had; an invalid
  profile is never run.

## 2. The modules

```
RunContract            what Sandbox::run promises (abstract)
   ^ refined by
LinuxRun  --EXTENDS-->  WaitTimeout  <--EXTENDS--  WaitTimeout_proofs (theorems)
   ^ EXTENDS
   |-- MCLinuxRun       the requests TLC explores
   |-- LinuxRun_proofs  theorems

ConnectSupervisor      the allowlist network mode while the command runs
                                                   <--EXTENDS-- ConnectSupervisor_proofs (theorems)
CapDrop                inside the capability step   <--EXTENDS-- CapDrop_proofs (theorems)
MountPlan              inside the mount step, with Landlock's rules
   ^ EXTENDS
   |-- MCMountPlan      the paths, plans and hosts TLC explores
   |-- MountPlan_proofs  theorems
WindowsRun             both Windows backends       <--EXTENDS-- WindowsRun_proofs (theorems)

Units, EnvPolicy, Seccomp   sizes and durations; the environment; the syscall filter
   |                                               EnvPolicy <--EXTENDS-- EnvPolicy_proofs (theorems)
   ^ EXTENDS
Profile                a profile file: reading, defaults, writing
   ^ EXTENDS
Policy                 validate()
   ^ EXTENDS
RunCommand  --INSTANCE-->  RunContract   the whole command, over the promise of run()
   ^ EXTENDS
   |-- MCRunCommand       the command lines, profiles and hosts TLC explores
   |-- RunCommand_proofs  theorems, with those of EnvPolicy_proofs
```

### WaitTimeout

The main thread (`waiter`) and the killer thread (`killer`) of
`wait_with_timeout` (mod.rs:594-624), one action per statement that another
thread or process can tell apart: the spawn of the killer, the computation of its
deadline when it first runs, its turn of the loop (clock first, then flag), its
last look at `done`, its `kill`; `waitpid`, the store to `done`, the join. Beside
them stands the kernel: the child's entry in the process table (`proc`), what
ended it (`ended`, a history variable), and what its pid number names (`owner`).
Once the child is reaped its number is free and `PidRecycled` may give it away.
`doneAt` records when `done` was stored, not when `waitpid` returned: a main thread that
is preempted between the two (mod.rs:620-621) until the deadline has passed is reported
as timed out though its child was reaped in time, and NoFalseTimeout says so. LinuxRun
extends the module, so that all of this is checked inside a whole run; on its own
(`WSpec`) it has the run of the race.

### LinuxRun

`LinuxSandbox::run` (mod.rs:69-430) and `ExecPlan::apply` (453-505). The parent
is a program counter, `parent`, with one action for each call that can fail, block
or be seen by the child. The child is `child` and `step`, its place in the nine
setup steps of `apply_inner`; `inForce` are the boundaries it has put on itself.
`errOpen`, `errMsg` and `errno` are the diagnostics pipe and std's own pipe.
`req` is the request: profile and host reduced to what `run()` branches on. It
ranges over profiles that keep no capability and whose syscall filter is off, a
denylist, or an allowlist like the presets (without `seccomp` and the Landlock
calls), answering with errno or kill. `Faults` says which failures of the
environment may happen; each is possible wherever the code can meet it.

What the environment does is modelled by what the code can see of it:
`Command::spawn` returns Ok on end of file without an errno, so also for a child
that died silently (`SpawnOk`); `recvmsg` on a datagram socket does not return
when its peer is gone (`ReceiveListener`); a filter judges the steps after it
(`Filtered`); mounts take a user namespace and capabilities, Landlock and seccomp
take `no_new_privs` (`Permitted`).

### RunContract

The promise of `Sandbox::run` whatever the backend: one answer, a command only
inside an open trail and behind the boundaries asked for, no answer while the
command is live. LinuxRun refines it under the mapping at its end. The Windows
backend does not: when the assignment to the job fails it answers while the child
runs, and what the command forked before its assignment outlives it in any case
(TreeEndsWithRun).

### ConnectSupervisor

The tasks that carry the notify filter, their pending notifications, the
supervisor thread with its local variables (`notif`, `decision`, `addr`), and
`run()` from its wait on. Between the receipt, the read of the caller's memory,
the validity check, the entry in the refusal list and the answer, callers may be
interrupted, exit, fork, rewrite their argument or call again. A read by a pid
number whose owner is gone returns any address. Any read may fail, of a live caller too
(one that is not dumpable, a descendant that ptrace's rules keep from the supervisor), or
return an address that does not parse (an IPv6 one of 24 bytes, which the kernel takes):
the call is then let through (connect_filter.rs:301-303), and `unread` remembers it. `wakeups` is the kernel's
count of notifications to receive: an interrupted call withdraws its notification
but not its wakeup, which is how the receive comes to fail with ENOENT.

### CapDrop

`CapPlan::apply` (caps.rs:37-79) with one action per request to the kernel, the
`no_new_privs` latch after it, and the execve of the command and of any file the
command executes later. `cred` holds the five sets; `at` is the next statement.
The conditions of `capset(2)` and what `execve(2)` makes of the sets are the
kernel's (external); that each call of the `caps` crate reads the credentials,
replaces one set and writes it back is the crate's (external, version 0.5). The
loops over hash sets take their elements in any order. The initial states are
all credentials a caller can have, a fresh user namespace among them. A request
fails here only when the kernel's rules refuse it; in LinuxRun the whole step may
fail for other reasons as well. Capabilities the crate knows and an older kernel
does not are left out.

### MountPlan

`MountPlan::setup` (mounts.rs:33-96), one action per list entry and per later
step. A path is the sequence of its names. The state is the list of mounts made so
far, the nodes made in those that do not show the host, and the host file system
itself, which `setup` can change. What a path names is decided by the last mount at
or above it (`Top`), so that a mount hides what was there before. `host` starts as
any tree over the paths and `plan` as any plan. `create_dir_all`, `File::create`
and `symlink_metadata` are modelled by what they do to that state: the first makes
every missing ancestor, fails at a file and in a read-only mount; the second
truncates what is there already and has its error ignored; the third tells
NotFound from ENOTDIR. The host is what the caller can reach of it, a path that cannot be
looked up is absent; an absent path beneath a bind mount may be one the caller cannot look
up or make (`Refusable`, EACCES), and then a tmpfs or a denied path there fails the run. A
denied directory is masked by a read-only tmpfs and a denied file by a plain bind of
/dev/null, which can be written to (`Mask`). A listed file is taken to be one its caller
may truncate. What `setup_dev` puts below /dev (device nodes of the host, links, /dev/shm)
is left out, so `Paths` has nothing there and no property speaks of it. A source under /tmp is absent, for the staging tmpfs covers it
(mounts.rs:39-46, tests/cli.rs:16-24). Landlock's rules (landlock.rs:36-53) are two
sets over the same plan, compared with the mounts in LayersAgree. Failures of `mount`
itself are in LinuxRun, as a failure of the step.

### WindowsRun

`WindowsSandbox::run` and `JobObject` (windows/mod.rs), with `WslcSandbox::run`
(windows/wslc.rs) as its other branch: a program counter for the parent, the job
handle, the child and its membership, and the processes it forked inside and
outside the job. `Return` closes the job's handle on every way out, as Drop does. The
deadline is `Millis`, with the clamp that makes a timeout of `u32::MAX`
milliseconds INFINITE. A `TerminateJobObject` that fails is ignored, as in the code, and
`child.wait()` then waits for a command that still runs. For wslc the child is the client, ended by the killer thread
of common.rs:97-127, whose two threads are those of WaitTimeout except that the
child's handle keeps its pid from being reused.

### Units, EnvPolicy, Seccomp, Profile, Policy

The pure parts of `confinery-core` and of the backend, as operators.

*Units* (units.rs). A size in a text is a count of halves and a unit, so that fractions
exist; the product is rounded to an f64, truncated and saturated, as `(value * mult) as
u64` does (units.rs:57). The f64 is an integer up to `Exact` and a multiple of its
spacing above. A duration is the counts of its segments, each read as an f64 and
multiplied by its unit in f64 (units.rs:153-161), and neither a segment nor the sum may
pass the longest Duration; the seconds of a minute, an hour and a day are constants, so
that they can be scaled down with the integers. Both are written as `human()`
writes them: a size in the largest binary unit that divides it, a duration without its
part of a second ("500ms" is written "0s"). The scan of a text into numbers and units is
abstracted to `unit`, `halves` and `form`; a segment's fraction, a unit written twice and
a million milliseconds or more in one segment are left out. A text whose number is too
great for an f64 (`Measured` and `Timed` say which are not) is left out too: in the code
it is infinite, and saturates like any other too great size or is out of range like any
other too long duration.

*EnvPolicy* (env.rs, common.rs:22-86). The allow list is a sequence, for it may repeat a
name; a value of the host is text or raw; a variable of the command is its origin. The
vector of pairs that `resolved_env_vars` fills is a set of pairs with their places, for
its order matters only among the pairs of one name: the first is overridden
(`FirstOf`), the last is the one `Command::env` leaves (`LastOf`).

*Seccomp* (seccomp.rs, syscall_table.rs). The curated lists are abstracted to one name
for each group of syscalls that no rule, no setup step and no other list tells apart. A
clone with CLONE_NEWUSER is a call of its own.

*Profile* (profile.rs and the sections). The file is the record of its fields, each
absent, null or given, with the two formats' own rules: TOML has no null, so the default
of `preset` cannot be taken away in it; JSON has no NaN; an integer of TOML is an i64
(`Fits`), so `profile show` fails on a greater one (`Serializes`). *Policy* (policy.rs) is
`validate()`, check by check, as a set of findings.

### RunCommand

`confinery run`, `profile validate` and `profile show` (main.rs, commands/run.rs,
commands/profile.rs), with `stage` as the program counter. `detect()` is called by the
command line and again by the backend; `probed` is the memo of
`userns_actually_works` (detect.rs:193), and `HostChanges` switches the host's user
namespaces once at any point between. The backend is the contract of `Sandbox::run`,
by `INSTANCE`: RunCommand takes RunContract's actions for what LinuxRun is shown to
implement, and adds what the contract leaves open, the plan's errors, which filter and
which environment the command has. A command whose filter refuses what std still calls
after it (`Needed`) does not start: with an errno the start fails, when it is killed, or
cannot write its errno, std sees the end of its pipe and `spawn` is Ok (`StartLost`).

## 3. The runs

| Run | Module | Expect | States | Question |
|---|---|---|---|---|
| wait_timeout_race | WaitTimeout | violation | | does a reported timeout mean the timeout ended it? |
| linux_run | MCLinuxRun | pass | 1,067,320 | the whole run with its timer, all requests, all faults |
| linux_run_lost_listener | MCLinuxRun | violation | | does losing the listener end the run? |
| connect_supervisor | ConnectSupervisor | pass | 469,576 | verdicts, audit, no hang |
| connect_supervisor_enoent | ConnectSupervisor | violation | | does the thread end only when nothing is left? |
| cap_drop | CapDrop | pass | 622,914 | what is left, when it works, what returns |
| cap_drop_keep | CapDrop | violation | | can a profile keep a capability? |
| windows_run | WindowsRun | pass | 7,957 | job, wait, answer and trail of both Windows backends |
| windows_tree | WindowsRun | violation | | is the whole tree terminated on exit? |
| mount_plan | MCMountPlan | pass | 593,962 | access as listed, deny, Landlock, failures, the host |
| mount_read_only | MCMountPlan | violation | | is a read_only path read-only? |
| run_command | MCRunCommand | pass | 209,873 | validator and backend, filter, environment, show, isolation, status |

**Bounds.** WaitTimeout on its own: timeouts of 0, 1 and 2 ticks on a clock that stops at 3.
LinuxRun: 280 requests (of `AllRequests`, without pairs `run()` treats
alike), no timeout or one of a tick on a clock that stops at 2, so that a child may end
before the deadline, at it and never, and be reaped or flagged later; one
descendant, which is enough for the cgroup to be non-empty or escaped.
ConnectSupervisor: the child and one descendant, one listed and one unlisted
address, two calls. Two calls are the shortest way to a stale address, a
notification of an earlier call, and a wakeup left over from another; the
properties are about one call against one other. CapDrop: three capabilities,
CAP_SETPCAP and two more, so that one can be kept, one dropped, and CAP_SETPCAP be
either; all keep-sets and all credentials. WindowsRun: all 160 requests over timeouts
of 0 to 3 ticks with INFINITE at 2, so that there are timeouts below, at and above the
clamp; a wait is watched for 3 ticks. MountPlan: a chain of three paths, a path under /tmp, /tmp, /dev and /proc; every
plan with up to three entries in all (any list, any order, repeated or not, a path in
several lists or not) or one in each list; every kind of node the chain can be. An access is decided by the entries at
or above one path, and two that nest and a third between, above or below them are the
ways they can hide one another. RunCommand: 7,394 inputs, in which one section of the
profile is varied at a time together with what it meets (the limits with the two formats
and `show`; the filter with the network modes; the environment with the network modes,
the platforms and the host's variables; the rest with the hosts and the options). f64 is
scaled down, exact up to 16 with a largest u64 of 255, a minute of 3 seconds, an hour of 9
and a day of 27, so that rounding, truncation, saturation and a duration out of range each
happen with numbers of two or three digits; a TOML integer goes to 2000; the host changes
at most once.

**Deadlock** is checked except in CapDrop, which ends where apply() fails, in
RunCommand, which ends when confinery exits, and in
LinuxRun, where the system really stops: a parent in `recvmsg` whose child is gone (the finding of
linux_run_lost_listener) has no step left.

**Fairness.** WaitTimeout and LinuxRun: weak fairness of each thread of
confinery, of the child's setup code (which is straight-line code that does not
block), of time, and of the kernel's delivery of SIGKILL. None for the command:
it may run for ever, and only the timeout ends it. ConnectSupervisor: weak
fairness of the supervisor and of `run()`; none for the tasks. WindowsRun: weak fairness
of the parent, the killer thread and time; none for the command. CapDrop, MountPlan and
RunCommand state no liveness.

**Type invariants** are part of the passing runs; the invariants used by the
proofs were checked with TLC on the same instances first.

### What the violations show

1. **TimeoutEndedIt** (error.rs:28). The child exits after the killer's last look at
   `done` (mod.rs:613) and before its `kill` (616): the run answers with a timeout
   although the child ended by itself. In the same window the signal may reach a
   process that has been given the pid number since.
2. **LostListenerIsFatal** (mod.rs:330-335). A child killed by its own filter before it
   sends the listener leaves the parent in `recvmsg`, before the timeout is armed.
3. **NothingLeftToSupervise** (connect_filter.rs:292-294). ENOENT also follows an
   interrupted connect; the supervisor ends while filtered tasks live, and their
   later connects fail with ENOSYS.
4. **KeepWorksInNamespace** (docs/profiles.md:85). With a keep-set, the permitted set
   is shrunk (caps.rs:73) while everything is still effective, which `capset(2)`
   refuses: every run of a profile that keeps a capability, in a namespace of its
   own, ends with a setup error.
5. **TreeEndsWithRun** (windows/mod.rs:3-4, docs/platform-support.md:41,
   docs/security-model.md:65). The command runs before it is assigned to its job
   (windows/mod.rs:157): what it has forked by then outlives the run, and so does the
   command itself when the assignment fails.
6. **ReadOnlyHolds** (docs/profiles.md:26, mounts.rs:153-155). A read_write path above a
   read_only one is mounted after it and over it (mounts.rs:58-63), and the inner one is
   writable.

### What the passing properties name as exceptions

A property that holds only with an exception names it in its formula. Where the
exception contradicts a text of the repository the formula states what the code does
there, exactly, and PROJECT.json lists the disagreement as a finding of that run
(marked F):

* CgroupRemoved: the errors between the creation of the cgroup (mod.rs:237) and the
  wait return past the cleanup (363), and leave the directory.
* DiagnosisMatches: a child that is killed between its failure and its errno is taken for
  one that executed the command.
* AccessAsListed: where a read_only entry lies below a read_write one it says nothing of
  writing, which is ReadOnlyHolds' case.
* HostChangesNamed: a file listed in read_write after a directory above it is truncated
  on the host by `File::create` on its mount point (mounts.rs:140), before the command
  runs.
* OnlyFreshMountsFail (F): a denied path below a file fails the run with ENOTDIR
  (mounts.rs:227-228), where the comment at 221-222 calls an absent path a no-op; and so
  may an absent path beneath a listed one, when the caller lacks the permission to look it
  up or make it.
* VerdictFitsCall (F): a call whose address could not be read or parsed is let through
  (connect_filter.rs:301-303), where the comment at 365-367 has that for other families
  only.
* TimeoutsHonoured: a command that `TerminateJobObject` failed to end is waited for.
* FilterDecides (F): `deny = ["clone"]` makes a rule without conditions, which the guard on
  CLONE_NEWUSER then replaces (seccomp.rs:132-153): an ordinary clone stays allowed, where
  syscalls.rs:62 and docs/profiles.md:72 say that extra syscalls are blocked.
* AcceptedIsPlannable: unknown syscalls, `block_action = "allow"` and names without an
  address are found only by the plan. `syscalls.empty_allowlist` (policy.rs:299) asks
  for no preset, and TOML cannot say that: `default = "errno"` alone is an allowlist under
  the hardened preset, which adds nothing to it, and passes.
* EnvAsListed (F): of a name listed twice in `allow` only the first entry is overridden
  (common.rs:77) and the second is applied last, where env.rs:30 says "unconditionally";
  no other variable of `set` loses. A container gets text only.
* ShownIsTheSame (F): units.rs:3-5 promises the round trip of sizes and durations. A part of
  a second is dropped ("500ms" is shown "0s"), a size that no f64 holds is rounded, and a
  duration of more than 2^53 seconds may be rounded or not be read at all (a timeout of
  "18446744073709551615" is shown as "5124095576030431h15s", which is out of range).
* StepsCanSucceed: an allowlist filter without `seccomp` refuses the notify filter
  installed after it (mod.rs:501).

## 4. The proofs

Every theorem holds for every value of the constants that meets their
assumptions: any subset of `AllRequests` and of `FaultKinds`, any finite or
infinite choice of timeouts up to any clock bound, pid numbers reused or not,
commands that fork or not (`RequestsAssumption`, `FaultsAssumption`,
`ForksAssumption`, `TimeAssumption`, `PidReuseAssumption`, each in the module that declares the constants). No fairness is used.

**WaitTimeout_proofs.** `WTypeCorrect` (types), then one inductive invariant,
`WaitInv`, in three parts: `SignalInv` (what the killer's state says of its signal
and of what ended the child), `JoinInv` (a waiter past the join has a reaped child
and a finished killer) and `DeadlineInv` (a killer that has passed its first look
is past the deadline, and if `done` came before its signal, it came no earlier
than the deadline). The last is why NoFalseTimeout is not inductive alone: the
decision is taken at the last look and reported at the join, and the clock may
move in between. From it follow

* `KillsAreReported`: a child our SIGKILL ended is reported as timed out;
* `ReturnsJoined`: the function returns joined, with the child reaped;
* `NoTimeoutBeforeDeadline`: a wait whose `done` was stored before the deadline is not
  reported as timed out, whatever the scheduling of the killer.

**LinuxRun_proofs.** The argument is layered, each invariant resting on those
before it:

| Theorem | Property | Invariant behind it |
|---|---|---|
| `TypeCorrect` | TypeOK | itself |
| `RunFailsClosed` | FailClosed | `SetupInv`: every step behind the child's position was passed. FailClosed speaks of a command that runs and says nothing of the eight positions before |
| `NoProcessLeftBehind`, `FailureMeansNeverRan` | ReturnedMeansReaped, FailedMeansNeverRan | `RunInv`: where parent, child and process table can be relative to one another |
| `ClaimsAreKept` | ClaimsHold | `ClaimInv` and FailClosed: what is claimed is what is required |
| `SignalsStayHome` | OnlyTheTimerStrays | `SignalInv`: the parent holds an unreaped child from the fork to the wait, so the pid number is the child's |
| `DiagnosisIsRight` | DiagnosisMatches | `DiagnosisInv`: what failed in the child, against what its two pipes say |
| `TrailIsRight` | TrailTellsOutcome | `TrailInv`: the trail of a run that has not answered yet |
| `EveryChildAccountedFor` | ChildAccountedFor | NoProcessLeftBehind and SignalsStayHome |
| `AnswersAreRight` | AnswerIsRight | FailureMeansNeverRan and DiagnosisIsRight |
| `CgroupIsRemoved` | CgroupRemoved | `CgroupInv`: there is no cgroup before it is created |
| `StepsDoNotCollide` | StepsCanSucceed | `StepInv`: what is still ahead is not in force. A step fails for good where it is at that moment, so one must know that the capabilities are still there when the mounts are made, and the filter is not when namespaces, mounts and Landlock are |
| `LinuxRunKeepsContract` | ContractSpec | all of them: each step maps to a step of RunContract or to a stutter |

The refinement needs the invariants where the contract has guards: `Launch` asks
that the boundaries are up, which is `SetupInv`; `Fail` and `Finish` ask that no
command is live, which is `RunInv`; and each asks for an open trail, which is
`TrailInv`.

**CapDrop_proofs**, for every set of capabilities that contains CAP_SETPCAP
(`SetpcapAssumption`). `CapTypeCorrect` carries the kernel's own invariant of
credentials. `CutInv` says which sets have been cut down at each statement and
gives `OnlyKeptIsLeft` and `DroppedForGood` (nothing returns across any number of
execs). `WorkInv` adds what each statement can still count on of the caller's
credentials and gives `KeepableDecides` (success exactly for a keep-set that is
Keepable: empty, or holding all that is effective and nothing that cannot be made
inheritable) and `KeptAreInEffect`.

**WindowsRun_proofs.** `JobInv` says where the job's handle is at each statement and
whom the job holds; it gives `JobEnds`, and `UnassignedAtMost` (`OnlyUnassignedSurvives`: the command itself
outlives run() after a failed assignment only, which is what JobEndsWithRun leaves open). `VerdictInv` carries the verdict from the wait to the answer (the
deadline had passed, and a command that has ended since ended later) and gives
`WinTimeoutGenuine`. `WinTrailIsRight` rests on the trail of a run that has not
returned.

**ConnectSupervisor_proofs**, for any tasks, addresses and number of calls.
`CallInv` says that a pending call has a number of its own, below the next one, and that
its argument is in its caller's memory unless rewritten; an unread call is one that was let
through. `VerdictInv` carries what was
read: at the check it is about a call that is *still* valid, and after the check it is
about its call whatever becomes of that, since a number that has lost its validity never
has it again. It gives `VerdictsFit` and `RefusalsWereMade`. `ChildsRefusalsKept` adds
that a refusal is noted before it is answered, and that a direct child that is gone when
the list is read can be refused nothing more.

**MountPlan_proofs**, for every plan, host file system and set of paths (`PathsAssumption`,
`PlansAssumption`, `HostsAssumption`). `PlanInv` (`PlanIsFollowed`) is in five parts. What
a path names is a tree at every moment (`VisibleTree`, with what the host and each mount
hold), without which a missing directory could have children. The mounts come in the
order of the steps (`InOrder`, by `MountRank`), so that the mount on top of a path, the
last at or above it, tells the strongest list the path is in. Each mount is one the plan
asks for (`AsListed`). Each step done has left its mount or had no source (`Served`), and
a denied path that was absent stays so, since nothing is made after the first mask
(`Covered`). What the host has gained lies below a writable bind mount (`HostGrown`): an
entry skipped for want of a source can come to have one, made as a mount point on the
host, but only where the command may write anyhow, and that is what AccessAsListed needs
of it. From these follow `MountTypeCorrect`, `DeniedIsMasked`, `RootShowsTheLists` and
`LandlockAgrees`. The long part of the module is `MakingKeepsWorld`: what
`create_dir_all` and `File::create` make through whatever is mounted keeps the tree.

PlanInv forgets two things that `HostIsSpared` and `FailuresAreNamed` need, and
`SetupInv` (`SetupIsFollowed`) adds them. `HostInv` compares the host with the one
`setup()` was given: a node that was there is there still and of its kind, and what was
gained are directories (`HostKept`); a file that can be seen is a file of the host that
the lists bind (`FilesShared`); and while the lists are being bound, what has been made
inside the new root repeats the host (`Mirrored`), which is why `bind_path` never finds a
file where it needs a directory. `Placed` says that a writable bind mount comes from a
step behind the present one, so that a file emptied through it stands later in
`read_write` than the path above it.

**EnvPolicy_proofs**, for every policy and host environment, with `PATH` among the names
that are PATH but for case and none of those named like a credential (`PathsAssumption`,
`SecretsAssumption`). `ResolvedAsListed` and `AppliedAsListed` say of each variable of
the command where its value comes from; the work is in the pairs of one name, of which
the first is overridden and the last stands.

**RunCommand_proofs**, for every set of inputs, environments and units that meets the
assumptions. `RunInv` says what each stage knows (a started command was loaded,
validated without errors, detected, planned); `FindingsInv` that the findings in hand
are `Validate` of the profile in hand; `ZeroInv` where a status of 0 comes from;
`IsolationInv` that the plan's isolation is the host's unless the host was switched,
which needs the memo's value to be the host's until then; `PlanInv` that the plan's error
is PlanError of the profile. From them `TypeCorrect`, `StatusIsRight`,
`IsolationIsAsAsked`, `AcceptedPlans` and `FilterIsRight`, the last by cases on the kind
of filter. `EnvInv` says that the policy in hand is a typed one and that the environment
of a started command is what `apply_env` or, for a container, `resolved_env_vars` makes
of it; with EnvPolicy_proofs it gives `EnvironmentIsRight`, and with FindingsInv, for the
warnings, `SecretsAreFlagged`.

`DurationRoundTrip` and `SizeRoundTrip` are facts about Units alone. The second is about
f64: `F64Is` says where the rounded number lies, `F64Again` that rounding twice is
rounding once, `F64Scales` that rounding commutes with multiplication by a power of two.
So the three roundings of a size written in its unit and read back (of the number, of
the product, of the half) come down to one. They need of `Spacings` what holds of powers
of two, up to one that lets an f64 reach the largest u64 (`SpacingAssumption`), and that
the binary units are among them. `ShowInv` says that the profile's size is a u64 and its
timeout a Duration, at most one of each (`SizedLoaded`, which is about reading and takes
the inputs to be such that can be, `InputsAssumption`, and the default to be a u64,
`DefaultMemoryAssumption`), and that what was shown is what the profile in hand is
written as; `WrittenReadsBack` follows from it and the two round trips.

## 5. Only model-checked

Every invariant of the passing runs is stated by a theorem, and so is the refinement of
RunContract by LinuxRun. Liveness (BoundedWaitReturns, BoundedRunReturns,
EveryCallReturns, TimeoutsHonoured) is out of the proof system's reach, as is ENABLED,
and stays with TLC; so do the six violations of section 3, which are counterexamples
and have no proof. The proofs of RunCommand take the contract of `Sandbox::run` where
the code calls it: that LinuxRun keeps it is a theorem about LinuxRun.

## 6. Not modelled

* Text: messages, the JSON of the trail and of reports, `--help`, tables of `doctor`, the
  scan of sizes, durations and endpoints into their parts.
* `init`, `doctor`, `completions`, `profile list` and logging: they print or write a fixed
  text.
* The audit file beyond its opening: its permissions and its writes, whose errors are
  ignored.
* In the setup steps: the uid map, the hostname, the loopback interface, the numbers of
  the rlimits and of the cgroup, `~` and relative paths, symbolic links in mount plans.
* What is outside the code: the container service behind `wslc`, a panic of
  `thread::spawn` on a host without threads, errors of `waitpid`.
* Windows' case-insensitive variable names, and what the Windows list of `detect` says
  (nothing reads it but `doctor`).
* RunCommand takes one start of the command for all of LinuxRun's; the two meet in
  RunContract, and their product is not explored.

What is left to prove: that RunCommand's own steps keep RunContract on the platforms that
promise it; that the waits of the liveness properties have a measure which each fair step
lowers, as an action property, since the temporal step itself is out of reach; and what
WindowsRun keeps of RunContract when the assignment to the job succeeds.
