------------------------------- MODULE LinuxRun -------------------------------
(***************************************************************************)
(* LinuxSandbox::run (linux/mod.rs): the parent plans a run, records its   *)
(* layers, forks a child that puts the isolation layers on itself and then *)
(* executes the command, and waits for it.  Parent and child talk over     *)
(* three channels: the pipe on which std's Command::spawn learns of a      *)
(* failed exec, the diagnostics pipe that carries the text of a setup      *)
(* error, and, for the allowlist network mode, a datagram socket that      *)
(* hands the seccomp listener to the parent.                               *)
(*                                                                         *)
(* `req` is the run's profile and host reduced to what run() branches on;  *)
(* it is chosen in Init and never changes.                                 *)
(***************************************************************************)
EXTENDS WaitTimeout, Sequences

CONSTANTS
  Requests,   \* the requests explored, a subset of AllRequests
  Faults,     \* the failures of the environment that may happen
  Forks       \* may the command leave a descendant behind?

Modes   == {"none", "loopback", "allowlist", "full"}

\* The syscall filter: off; a denylist; an allowlist that lacks `seccomp` and
\* the landlock calls, as both presets do, answering with errno or with kill.
Filters == {"off", "deny", "errno", "kill"}

AllRequests ==
  [isolate : BOOLEAN,      \* namespaces allowed, user and mount ones available
   netns : BOOLEAN,        \* the host has network namespaces
   landlock : BOOLEAN,     \* the kernel enforces Landlock
   mode : Modes, filter : Filters,
   timeout : {{}} \cup {{t} : t \in Timeouts},
   limits : BOOLEAN,       \* the profile sets a cgroup limit
   dry : BOOLEAN]

FaultKinds ==
  {"plan", "channel", "fork", "setup", "exec", "kill", "receive", "limits", "attach"}

ASSUME RequestsAssumption == Requests \subseteq AllRequests
ASSUME FaultsAssumption == Faults \subseteq FaultKinds
ASSUME ForksAssumption == Forks \in BOOLEAN

VARIABLES
  req,
  parent,     \* where the parent is in run()
  spawned,    \* what Command::spawn returned
  result,     \* what run() returned
  events,     \* the lifecycle events in the audit trail
  applied,    \* the layers the audit trail calls applied
  child,      \* where the child is
  step,       \* its next setup step, an index into SetupOrder
  inForce,    \* the boundaries it has put on itself
  failed,     \* history: what failed in the child: a setup step that could
              \* not work, one the environment failed, or exec
  ran,        \* history: the command was executed
  errOpen,    \* the parent's copy of the diagnostics pipe's write end is open
  errMsg,     \* the diagnostics pipe holds a message
  errno,      \* std's pipe holds the child's errno
  cgroup,     \* the run's cgroup directory
  cgLimits,   \* its limits were written
  member,     \* the child was attached to it
  descendant  \* a process the command forked

parentVars == <<parent, spawned, result, events, applied>>
childVars  == <<child, step, inForce, failed, ran>>
pipes      == <<errOpen, errMsg, errno>>
cgVars     == <<cgroup, cgLimits, member, descendant>>
vars == <<req, parentVars, childVars, pipes, cgVars, kernel, timer>>

-----------------------------------------------------------------------------
(* What the request asks for. *)

NetIsolate == req.isolate /\ req.mode \in {"none", "loopback"} /\ req.netns

\* Mutant: the capabilities are dropped before the mounts are made.
SetupOrderCapsFirst ==
  <<"namespaces", "caps", "mounts", "no_new_privs", "landlock", "rlimits",
    "seccomp", "notify", "listener">>

SetupOrder ==
  <<"namespaces", "mounts", "caps", "no_new_privs", "landlock", "rlimits",
    "seccomp", "notify", "listener">>

\* The steps apply_inner takes for this request.
Planned(s) ==
  /\ s \in {"namespaces", "mounts"} => req.isolate
  /\ s = "seccomp" => req.filter # "off"
  /\ s \in {"notify", "listener"} => req.mode = "allowlist"

\* The kernel's side: mounting takes the new user namespace's privileges,
\* Landlock and seccomp take no_new_privs, and once the syscall filter is on
\* it judges the remaining steps too.
Permitted(s) ==
  /\ s = "mounts" => "namespaces" \in inForce /\ "caps" \notin inForce
  /\ s \in {"landlock", "seccomp", "notify"} => "no_new_privs" \in inForce

Filtered(s) ==
  /\ "seccomp" \in inForce
  /\ \/ s \in {"namespaces", "mounts"}
     \/ s \in {"landlock", "notify"} /\ req.filter \in {"errno", "kill"}

Effect(s) == IF s = "namespaces" /\ NetIsolate THEN {s, "netns"} ELSE {s}

\* Landlock is a backstop when namespaces isolate, the boundary when not.
Unsupported(s) == s = "landlock" /\ ~req.landlock

\* Mutant: the network layer is recorded whenever namespaces are, network
\* namespaces or not.
ClaimedWithoutNetns ==
  {"filesystem", "capabilities", "rlimits"}
    \cup {l \in {"namespaces", "network"} : req.isolate}
    \cup {l \in {"seccomp"} : req.filter # "off"}

\* The layers run() records as applied, before it applies any of them.
Claimed ==
  {"filesystem", "capabilities", "rlimits"}
    \cup {l \in {"namespaces"} : req.isolate}
    \cup {l \in {"network"} : NetIsolate \/ req.mode \in {"full", "allowlist"}}
    \cup {l \in {"seccomp"} : req.filter # "off"}

Return(answer) == parent' = "returned" /\ result' = answer

-----------------------------------------------------------------------------
(* The parent, up to the fork. *)

\* An empty command or a tool the profile does not allow is refused before
\* anything is recorded.
Begin ==
  /\ parent = "check"
  /\ \/ Return("refused") /\ UNCHANGED events
     \/ parent' = "plan" /\ events' = <<"start">> /\ UNCHANGED result
  /\ UNCHANGED <<req, spawned, applied, childVars, pipes, cgVars, kernel, timer>>

\* An unknown capability or syscall, a filter that does not build, an
\* allowlist entry that does not resolve.
PlanFails ==
  /\ parent = "plan" /\ "plan" \in Faults
  /\ Return("bad_plan")
  /\ UNCHANGED <<req, spawned, events, applied, childVars, pipes, cgVars, kernel, timer>>

RecordLayers ==
  /\ parent = "plan"
  /\ IF req.dry
       THEN Return("planned") /\ applied' = Claimed \cup {"cgroups"}
       ELSE parent' = "cgroup" /\ applied' = Claimed /\ UNCHANGED result
  /\ UNCHANGED <<req, spawned, events, childVars, pipes, cgVars, kernel, timer>>

\* A cgroup that cannot be made is no error; neither is a limit that cannot
\* be written into one that was made.
CreateCgroup ==
  /\ parent = "cgroup"
  /\ parent' = "channels"
  /\ \/ /\ req.limits
        /\ cgroup' = "made"
        /\ cgLimits' \in {TRUE} \cup {b \in {FALSE} : "limits" \in Faults}
        /\ applied' = applied \cup {"cgroups"}
     \/ UNCHANGED <<cgroup, cgLimits, applied>>
  /\ UNCHANGED <<req, spawned, result, events, childVars, pipes, member, descendant,
                 kernel, timer>>

OpenChannels ==
  /\ parent = "channels"
  /\ \/ parent' = "spawn" /\ errOpen' = TRUE /\ UNCHANGED result
     \/ "channel" \in Faults /\ Return("no_channel") /\ UNCHANGED errOpen
  /\ UNCHANGED <<req, spawned, events, applied, childVars, errMsg, errno, cgVars,
                 kernel, timer>>

-----------------------------------------------------------------------------
(* Command::spawn: fork, then block until the child has executed the      *)
(* command or reported why it could not.                                   *)

Fork ==
  /\ parent = "spawn"
  /\ ChildStarts
  /\ parent' = "spawning"
  /\ child' = "setup"
  /\ UNCHANGED <<req, spawned, result, events, applied, step, inForce, failed, ran, pipes,
                 cgVars, timer>>

ForkFails ==
  /\ parent = "spawn" /\ "fork" \in Faults
  /\ parent' = "drop" /\ spawned' = "err"
  /\ UNCHANGED <<req, result, events, applied, childVars, pipes, cgVars, kernel, timer>>

\* The child's ends of the two pipes close when it executes the command and
\* when it is gone.
BeforeExec == child \in {"setup", "report", "give_up"}

\* End of file without an errno: the child executed the command, or died
\* without a word; std cannot tell the two apart.
SpawnOk ==
  /\ parent = "spawning" /\ ~errno /\ ~BeforeExec
  /\ parent' = "drop" /\ spawned' = "ok"
  /\ UNCHANGED <<req, result, events, applied, childVars, pipes, cgVars, kernel, timer>>

SpawnErr ==
  /\ parent = "spawning" /\ errno
  /\ ReapChild
  /\ parent' = "drop" /\ spawned' = "err"
  /\ UNCHANGED <<req, result, events, applied, childVars, pipes, cgVars, timer>>

\* Mutant: without drop(cmd) the write end stays open.
DropCommandMissing ==
  /\ parent = "drop"
  /\ parent' = "read_error"
  /\ UNCHANGED <<req, spawned, result, events, applied, childVars, pipes, cgVars, kernel, timer>>

\* drop(cmd) closes the parent's copy of the diagnostics pipe's write end.
DropCommand ==
  /\ parent = "drop"
  /\ parent' = "read_error" /\ errOpen' = FALSE
  /\ UNCHANGED <<req, spawned, result, events, applied, childVars, errMsg, errno, cgVars,
                 kernel, timer>>

ReadSetupError ==
  /\ parent = "read_error"
  /\ errMsg \/ (~errOpen /\ ~BeforeExec)
  /\ IF spawned = "err"
       THEN Return(IF errMsg THEN "setup" ELSE "spawn")
       ELSE /\ parent' = IF req.mode = "allowlist" THEN "receive" ELSE "attach"
            /\ UNCHANGED result
  /\ UNCHANGED <<req, spawned, events, applied, childVars, pipes, cgVars, kernel, timer>>

-----------------------------------------------------------------------------
(* The parent, after the spawn. *)

\* recvmsg on a datagram socket: it returns when a message is there, never
\* because the other end is gone.
ReceiveListener ==
  /\ parent = "receive" /\ "listener" \in inForce
  /\ parent' \in {"attach"} \cup {p \in {"abort"} : "receive" \in Faults}
  /\ UNCHANGED <<req, spawned, result, events, applied, childVars, pipes, cgVars, kernel,
                 timer>>

\* Mutant: the listener is lost and the error returned at once.
AbortWithoutKill ==
  /\ parent = "abort"
  /\ Return("network")
  /\ UNCHANGED <<req, spawned, events, applied, childVars, pipes, cgVars, kernel, timer>>

AbortKill ==
  /\ parent = "abort"
  /\ SendSigkill
  /\ parent' = "abort_wait"
  /\ UNCHANGED <<req, spawned, result, events, applied, childVars, pipes, cgVars, timer>>

\* Mutant: killed, but never waited for.
AbortWaitMissing ==
  /\ parent = "abort_wait"
  /\ Return("network")
  /\ UNCHANGED <<req, spawned, events, applied, childVars, pipes, cgVars, kernel, timer>>

AbortWait ==
  /\ parent = "abort_wait"
  /\ ReapChild
  /\ Return("network")
  /\ UNCHANGED <<req, spawned, events, applied, childVars, pipes, cgVars, timer>>

\* A process that is gone, or a hierarchy that refuses, only costs a warning.
Attach ==
  /\ parent = "attach"
  /\ parent' = "wait"
  /\ \/ cgroup = "made" /\ proc = "alive" /\ member' = TRUE
     \/ /\ cgroup = "none" \/ proc # "alive" \/ "attach" \in Faults
        /\ UNCHANGED member
  /\ UNCHANGED <<req, spawned, result, events, applied, childVars, pipes, cgroup,
                 cgLimits, descendant, kernel, timer>>

CallWait ==
  /\ parent = "wait"
  /\ StartWait(req.timeout)
  /\ parent' = "waiting"
  /\ UNCHANGED <<req, spawned, result, events, applied, childVars, pipes, cgVars>>

\* Mutant: the cgroup stays.
FinishWithoutCleanup ==
  /\ parent = "waiting" /\ waiter = "returned"
  /\ IF timed_out
       THEN Return("timeout") /\ events' = Append(Append(events, "timeout"), "exit")
       ELSE Return("report") /\ events' = Append(events, "exit")
  /\ UNCHANGED <<req, spawned, applied, childVars, pipes, cgVars, kernel, timer>>

\* Mutant: the timeout is not recorded.
FinishUnrecorded ==
  /\ parent = "waiting" /\ waiter = "returned"
  /\ cgroup' = IF cgroup = "made" /\ descendant # "inside" THEN "removed" ELSE cgroup
  /\ Return(IF timed_out THEN "timeout" ELSE "report") /\ events' = Append(events, "exit")
  /\ UNCHANGED <<req, spawned, applied, childVars, pipes, cgLimits, member, descendant,
                 kernel, timer>>

\* After the wait: remove the cgroup, which works once it is empty, and write
\* the rest of the trail.
Finish ==
  /\ parent = "waiting" /\ waiter = "returned"
  /\ cgroup' = IF cgroup = "made" /\ descendant # "inside" THEN "removed" ELSE cgroup
  /\ IF timed_out
       THEN Return("timeout") /\ events' = Append(Append(events, "timeout"), "exit")
       ELSE Return("report") /\ events' = Append(events, "exit")
  /\ UNCHANGED <<req, spawned, applied, childVars, pipes, cgLimits, member, descendant,
                 kernel, timer>>

-----------------------------------------------------------------------------
(* The child between fork and exec: ExecPlan::apply. *)

NextStep == SetupOrder[step]

AtStep == child = "setup" /\ step <= Len(SetupOrder)

\* Mutant: a kernel without Landlock never matters.
SkipStepLenient ==
  /\ AtStep
  /\ ~Planned(NextStep) \/ Unsupported(NextStep)
  /\ step' = step + 1
  /\ UNCHANGED <<req, parentVars, child, inForce, failed, ran, pipes, cgVars, kernel, timer>>

\* Mutant: skipping one step skips the next one too.
SkipStepTwice ==
  /\ AtStep
  /\ ~Planned(NextStep) \/ (Unsupported(NextStep) /\ req.isolate)
  /\ step' = step + 2
  /\ UNCHANGED <<req, parentVars, child, inForce, failed, ran, pipes, cgVars, kernel, timer>>

\* A step this request does not take, or the backstop on a kernel without it.
SkipStep ==
  /\ AtStep
  /\ \/ ~Planned(NextStep)
     \/ Unsupported(NextStep) /\ req.isolate
  /\ step' = step + 1
  /\ UNCHANGED <<req, parentVars, child, inForce, failed, ran, pipes, cgVars, kernel, timer>>

ApplyStep ==
  /\ AtStep
  /\ Planned(NextStep) /\ ~Unsupported(NextStep)
  /\ Permitted(NextStep) /\ ~Filtered(NextStep)
  /\ inForce' = inForce \cup Effect(NextStep)
  /\ step' = step + 1
  /\ UNCHANGED <<req, parentVars, child, failed, ran, pipes, cgVars, kernel, timer>>

Hopeless(s) ==
  \/ Unsupported(s) /\ ~req.isolate
  \/ ~Permitted(s)
  \/ Filtered(s) /\ req.filter # "kill"

\* Mutant: the error is returned without its text being written.
FailStepSilently ==
  /\ AtStep /\ Planned(NextStep)
  /\ \/ Hopeless(NextStep) /\ failed' = "step"
     \/ "setup" \in Faults /\ failed' = "environment"
  /\ child' = "give_up"
  /\ UNCHANGED <<req, parentVars, step, inForce, ran, pipes, cgVars, kernel, timer>>

FailStep ==
  /\ AtStep /\ Planned(NextStep)
  /\ \/ Hopeless(NextStep) /\ failed' = "step"
     \/ "setup" \in Faults /\ failed' = "environment"
  /\ child' = "report"
  /\ UNCHANGED <<req, parentVars, step, inForce, ran, pipes, cgVars, kernel, timer>>

\* The text of the error goes to the diagnostics pipe ...
ReportError ==
  /\ child = "report"
  /\ child' = "give_up" /\ errMsg' = TRUE
  /\ UNCHANGED <<req, parentVars, step, inForce, failed, ran, errOpen, errno, cgVars,
                 kernel, timer>>

\* ... and std writes the errno to its own pipe and exits.
GiveUp ==
  /\ child = "give_up"
  /\ ChildExits
  /\ child' = "gone" /\ errno' = TRUE
  /\ UNCHANGED <<req, parentVars, step, inForce, failed, ran, errOpen, errMsg, cgVars, timer>>

Exec ==
  /\ child = "setup" /\ step > Len(SetupOrder)
  /\ child' = "command" /\ ran' = TRUE
  /\ UNCHANGED <<req, parentVars, step, inForce, failed, pipes, cgVars, kernel, timer>>

ExecFails ==
  /\ child = "setup" /\ step > Len(SetupOrder) /\ "exec" \in Faults
  /\ child' = "give_up" /\ failed' = "exec"
  /\ UNCHANGED <<req, parentVars, step, inForce, ran, pipes, cgVars, kernel, timer>>

\* Killed without a word before exec: by its own syscall filter, or by
\* somebody else (the OOM killer, a user).
DieInSetup ==
  /\ BeforeExec
  /\ \/ "kill" \in Faults
     \/ AtStep /\ Planned(NextStep) /\ Filtered(NextStep) /\ req.filter = "kill"
  /\ ChildExits
  /\ child' = "gone"
  /\ UNCHANGED <<req, parentVars, step, inForce, failed, ran, pipes, cgVars, timer>>

-----------------------------------------------------------------------------
(* The command, its descendants and the kernel. *)

CommandExits ==
  /\ child = "command"
  /\ ChildExits
  /\ child' = "gone"
  /\ UNCHANGED <<req, parentVars, step, inForce, failed, ran, pipes, cgVars, timer>>

SigkillDelivered ==
  /\ ChildDies
  /\ child' = "gone"
  /\ UNCHANGED <<req, parentVars, step, inForce, failed, ran, pipes, cgVars, timer>>

\* A descendant is born into the cgroup its parent is in.
CommandForks ==
  /\ Forks /\ child = "command" /\ descendant = "none"
  /\ descendant' = IF member THEN "inside" ELSE "outside"
  /\ UNCHANGED <<req, parentVars, childVars, pipes, cgroup, cgLimits, member, kernel, timer>>

DescendantExits ==
  /\ descendant \in {"inside", "outside"}
  /\ descendant' = "ended"
  /\ UNCHANGED <<req, parentVars, childVars, pipes, cgroup, cgLimits, member, kernel, timer>>

-----------------------------------------------------------------------------

Init ==
  /\ req \in Requests
  /\ parent = "check" /\ spawned = "no" /\ result = "none"
  /\ events = <<>> /\ applied = {}
  /\ child = "none" /\ step = 1 /\ inForce = {} /\ failed = "no" /\ ran = FALSE
  /\ errOpen = FALSE /\ errMsg = FALSE /\ errno = FALSE
  /\ cgroup = "none" /\ cgLimits = FALSE /\ member = FALSE /\ descendant = "none"
  /\ proc = "absent" /\ owner = "none"
  /\ Fresh /\ NoTimer

Plan    == Begin \/ PlanFails \/ RecordLayers \/ CreateCgroup \/ OpenChannels
Spawn   == Fork \/ ForkFails \/ SpawnOk \/ SpawnErr \/ DropCommand \/ ReadSetupError
Handoff == ReceiveListener \/ AbortKill \/ AbortWait \/ Attach \/ CallWait
Parent  == Plan \/ Spawn \/ Handoff \/ Finish

Child == SkipStep \/ ApplyStep \/ FailStep \/ ReportError \/ GiveUp
           \/ Exec \/ ExecFails \/ DieInSetup

\* The steps of wait_with_timeout, the rest of the run unchanged.
Rest      == <<req, parentVars, childVars, pipes, cgVars>>
WaitStep  == Waiting /\ UNCHANGED Rest
KillStep  == Killing /\ UNCHANGED Rest
ClockStep == Tick /\ UNCHANGED Rest
Recycle   == PidRecycled /\ UNCHANGED Rest

Returned == parent = "returned" /\ UNCHANGED vars

Next ==
  \/ Parent \/ Child
  \/ WaitStep \/ KillStep \/ ClockStep \/ Recycle
  \/ CommandExits \/ SigkillDelivered \/ CommandForks \/ DescendantExits
  \/ Returned

\* confinery's threads and the child's setup code are scheduled, time passes
\* and the kernel delivers SIGKILL.  The command owes nobody an exit.
Fairness ==
  /\ WF_vars(Parent) /\ WF_vars(Child)
  /\ WF_vars(WaitStep) /\ WF_vars(KillStep) /\ WF_vars(ClockStep)
  /\ WF_vars(SigkillDelivered)

Spec == Init /\ [][Next]_vars /\ Fairness

-----------------------------------------------------------------------------
(* Type invariant. *)

ParentStates ==
  {"check", "plan", "cgroup", "channels", "spawn", "spawning", "drop", "read_error",
   "receive", "abort", "abort_wait", "attach", "wait", "waiting", "returned"}

Answers ==
  {"refused", "planned", "bad_plan", "no_channel", "setup", "spawn", "network",
   "timeout", "report"}

Layers ==
  {"namespaces", "filesystem", "network", "seccomp", "capabilities", "rlimits", "cgroups"}

Boundaries ==
  {"namespaces", "mounts", "caps", "no_new_privs", "landlock", "rlimits",
   "seccomp", "notify", "listener", "netns"}

RunTypeOK ==
  /\ req \in Requests
  /\ parent \in ParentStates /\ spawned \in {"no", "ok", "err"}
  /\ result \in Answers \cup {"none"}
  /\ events \in Seq({"start", "timeout", "exit"}) /\ applied \subseteq Layers
  /\ child \in {"none", "setup", "report", "give_up", "command", "gone"}
  /\ step \in 1..(Len(SetupOrder) + 1) /\ inForce \subseteq Boundaries
  /\ failed \in {"no", "step", "environment", "exec"} /\ ran \in BOOLEAN
  /\ errOpen \in BOOLEAN /\ errMsg \in BOOLEAN /\ errno \in BOOLEAN
  /\ cgroup \in {"none", "made", "removed"} /\ cgLimits \in BOOLEAN
  /\ member \in BOOLEAN /\ descendant \in {"none", "inside", "outside", "ended"}

TypeOK == RunTypeOK /\ WTypeOK

-----------------------------------------------------------------------------
(* Safety. *)

\* The boundaries a command must not run without, from the policy alone:
\* always the capability drop, no_new_privs and the rlimits; the mount
\* namespace or, without it, Landlock; the filter and the connect listener
\* when the profile names them.
Required ==
  {"caps", "no_new_privs", "rlimits"}
    \cup (IF req.isolate THEN {"namespaces", "mounts"} ELSE {"landlock"})
    \cup {b \in {"netns"} : NetIsolate}
    \cup {b \in {"landlock"} : req.landlock}
    \cup {b \in {"seccomp"} : req.filter # "off"}
    \cup {b \in {"notify", "listener"} : req.mode = "allowlist"}

\* Confinery fails closed: whatever step of the setup fails, is not supported,
\* is refused by the filter or is cut short by a kill, the command is never
\* executed behind fewer boundaries than its request requires.
FailClosed == child = "command" => Required \subseteq inForce

\* What enforces a layer of the report.
Enforced(l) ==
  CASE l = "namespaces"   -> "namespaces" \in inForce
    [] l = "filesystem"   -> (IF req.isolate THEN "mounts" ELSE "landlock") \in inForce
    [] l = "network"      -> CASE req.mode = "full"      -> TRUE
                               [] req.mode = "allowlist" -> {"notify", "listener"} \subseteq inForce
                               [] OTHER                  -> "netns" \in inForce
    [] l = "seccomp"      -> "seccomp" \in inForce
    [] l = "capabilities" -> "caps" \in inForce
    [] l = "rlimits"      -> "rlimits" \in inForce
    [] l = "cgroups"      -> cgLimits /\ member

\* The layers are recorded before any of them is applied; a command that runs
\* nevertheless runs behind each one the trail and the report call applied
\* (cgroups excepted: its limits are best effort).
ClaimsHold ==
  child = "command" => \A l \in applied \ {"cgroups"} : Enforced(l)

\* Every way out of run() leaves no process of its own behind: the direct
\* child was never started or it has been reaped.
ReturnedMeansReaped == parent = "returned" => proc \in {"absent", "reaped"}

\* A SIGKILL of ours that reaches another process comes from the timer, which
\* may find its pid number recycled after its last look at `done`; the kill on
\* the abort path cannot miss, for the child is not reaped before it.
OnlyTheTimerStrays == stray => timed_out

\* run() leaves no process of its own behind, and on the way there it signals
\* none but its own, on every way out but the timer's.
ChildAccountedFor == ReturnedMeansReaped /\ OnlyTheTimerStrays

\* An answer that blames the planning, the channels, the setup or the spawn
\* means that the command never ran, not even for a moment.
FailedMeansNeverRan ==
  result \in {"refused", "planned", "bad_plan", "no_channel", "setup", "spawn"} => ~ran

\* The diagnostics pipe tells a failed setup step from a failed exec, which
\* std's errno alone does not (the comment at linux/mod.rs:258).  The blame is
\* never wrong, and it is given whenever the child lived to write its errno: a
\* step fails or exec does, and the answer is "setup" or "spawn".  A child that
\* is killed between its failure and its errno is taken for one that executed
\* the command.
DiagnosisMatches ==
  /\ result = "setup" => failed \in {"step", "environment"}
  /\ result = "spawn" => failed \in {"no", "exec"}
  /\ parent = "returned" /\ errno => result = IF failed = "exec" THEN "spawn" ELSE "setup"

\* The answer is right about the command and about who is to blame.
AnswerIsRight == FailedMeansNeverRan /\ DiagnosisMatches

\* "A live cgroup that processes can be attached to and cleaned up afterwards"
\* (cgroups.rs:71): once the run is over its cgroup is gone, unless a
\* descendant lives in it, or did when the run ended.  The errors between its
\* creation and the wait are the exception, they all return past the cleanup.
CgroupRemoved ==
  parent = "returned" /\ cgroup = "made" =>
    descendant \in {"inside", "ended"} \/ result \in {"no_channel", "setup", "spawn", "network"}

\* The trail agrees with the answer: a run that was not refused has a start,
\* a run that answers with an outcome has its exit last, and the timeout
\* violation is in it exactly when the answer is a timeout.
TrailTellsOutcome ==
  parent = "returned" =>
    events = CASE result = "refused" -> <<>>
               [] result = "timeout" -> <<"start", "timeout", "exit">>
               [] result = "report"  -> <<"start", "exit">>
               [] OTHER              -> <<"start">>

\* Nothing in the order of the setup steps defeats a later step: on a host
\* that can confine, a step fails only when the environment fails it.  The
\* exception is the listener under a syscall allowlist that lacks `seccomp`.
StepsCanSucceed ==
  (req.isolate \/ req.landlock) /\ ~(req.mode = "allowlist" /\ req.filter = "errno")
    => failed # "step"

-----------------------------------------------------------------------------
(* Liveness. *)

\* A run with a timeout returns, whatever the command does and whatever
\* fails; the one place where it can stick is the receive of the listener
\* from a child that died before it sent it.
StuckOnReceive == parent = "receive" /\ child = "gone" /\ "listener" \notin inForce

BoundedRunReturns ==
  req.timeout # {} => <>(parent = "returned" \/ StuckOnReceive)

-----------------------------------------------------------------------------
(* Refinement: a run keeps the contract of Sandbox::run. *)

Trail ==
  IF events = <<>> THEN "none" ELSE IF events[Len(events)] = "exit" THEN "closed" ELSE "open"

CommandState == IF ~ran THEN "never" ELSE IF child = "command" THEN "live" ELSE "dead"

Confined == Required \subseteq inForce

Answer == CASE result = "none" -> "pending"
            [] result \in {"refused", "planned", "timeout", "report"} -> result
            [] OTHER -> "failed"

Contract == INSTANCE RunContract WITH
  trail <- Trail, command <- CommandState, confined <- Confined, answer <- Answer

ContractSpec == Contract!CSpec

-----------------------------------------------------------------------------
(* What the documentation says and the code does not do. *)

\* "If this fails ... allowlist mode must not silently run unfiltered, so this
\* is fatal" (linux/mod.rs:330-335): a child that dies before it hands over
\* its listener ends the run.
LostListenerIsFatal == StuckOnReceive ~> parent = "returned"
=============================================================================
