------------------------------ MODULE RunCommand ------------------------------
(***************************************************************************)
(* The confinery command from its arguments to its exit status             *)
(* (confinery/src/main.rs and commands/): a profile is read, defaulted,    *)
(* validated, and shown or run.  A run detects the host twice, once for    *)
(* the command line and once in the backend, plans, gives the command its  *)
(* filter and its environment, and turns the answer into a status.         *)
(*                                                                         *)
(* What the backend does to the command is the contract of Sandbox::run,   *)
(* which LinuxRun implements; the Windows backends, which promise less,    *)
(* start the command without it.                                           *)
(***************************************************************************)
EXTENDS Policy

CONSTANTS
  Inputs,    \* the command lines, profiles and hosts explored
  Environments,  \* the environments a host can have
  Changes    \* may the host's user namespaces be switched on or off meanwhile?

ASSUME ChangesAssumption == Changes \in BOOLEAN

AllHosts ==
  [platform : {"linux", "windows", "other"}, sysctl : BOOLEAN, mapping : BOOLEAN,
   mnt : BOOLEAN, net : BOOLEAN, landlock : BOOLEAN, wslc : BOOLEAN,
   names : SUBSET {"web", "gone"}, env : Environments]

Optional(S) == {{}} \cup {{x} : x \in S}

ASSUME InputsAssumption ==
  \A i \in Inputs :
    /\ i.host \in AllHosts
    /\ i.text.memory.val \in Optional({m \in i.text.memory.val : Measured(m)})
    /\ i.text.timeout.val \in Optional(i.text.timeout.val)
    /\ \A d \in i.text.timeout.val : Timed(d)
    /\ i.text.preset.val \in Optional(Presets)
    /\ {i.text.rest.filter.default, i.text.rest.filter.block_action} \subseteq Actions
    /\ i.text.rest.env.mode \in EnvModes
    /\ i.text.rest.env.allow \in Seq(ToSet(i.text.rest.env.allow))

VARIABLES
  cmd,       \* [sub, profile, isolation, dry, audit, json, program]
  text,      \* the profile file
  host,      \* [platform, sysctl, mapping, mnt, net, landlock, wslc, names, env]
  switched,  \* history: the host was changed on the way
  stage,     \* where the command is
  profile,   \* the profile in force
  findings,  \* what validate found
  probed,    \* the memo of userns_actually_works
  allow_namespaces,
  plan,      \* [isolate, net_isolate, error]
  childEnv,  \* the environment of the command
  ended,     \* how the command ended: [code, signal]
  shown,     \* what `profile show` wrote
  status     \* confinery's exit status

VARIABLES trail, command, confined, answer
Contract == INSTANCE RunContract

inputs  == <<cmd, text>>
cli     == <<profile, findings, allow_namespaces, shown>>
backend == <<trail, command, confined, answer>>
outcome == <<childEnv, ended>>
vars == <<inputs, host, switched, stage, cli, probed, plan, outcome, status, backend>>

Exit(s) == stage' = "exited" /\ status' = s

Proceed(next) == stage' = next /\ UNCHANGED status

-----------------------------------------------------------------------------
(* main and the subcommands. *)

Load ==
  /\ stage = "load"
  /\ \/ cmd.sub = "run" /\ ~cmd.profile /\ Proceed("loaded") /\ UNCHANGED profile
     \/ cmd.profile /\ Loads(text) /\ Proceed("loaded") /\ profile' = Loaded(text)
     \/ cmd.profile /\ ~Loads(text) /\ Exit(1) /\ UNCHANGED profile
  /\ UNCHANGED <<inputs, host, switched, findings, allow_namespaces, shown, probed, plan,
                 outcome, backend>>

ValidateProfile ==
  /\ stage = "loaded" /\ cmd.sub = "validate"
  /\ findings' = Validate(profile)
  /\ Exit(IF IsValid(findings') THEN 0 ELSE 1)
  /\ UNCHANGED <<inputs, host, switched, profile, allow_namespaces, shown, probed, plan,
                 outcome, backend>>

ShowProfile ==
  /\ stage = "loaded" /\ cmd.sub = "show"
  /\ LET format == IF cmd.json THEN "json" ELSE "toml"
     IN  IF Serializes(profile, format)
         THEN shown' = {Shown(profile, format)} /\ Exit(0)
         ELSE UNCHANGED shown /\ Exit(1)
  /\ UNCHANGED <<inputs, host, switched, profile, findings, allow_namespaces, probed, plan,
                 outcome, backend>>

\* Refuse to run an invalid profile.
CheckProfile ==
  /\ stage = "loaded" /\ cmd.sub = "run"
  /\ findings' = Validate(profile)
  /\ IF IsValid(findings') THEN Proceed("detect") ELSE Exit(1)
  /\ UNCHANGED <<inputs, host, switched, profile, allow_namespaces, shown, probed, plan,
                 outcome, backend>>

-----------------------------------------------------------------------------
(* detect(): the sysctls are read each time, the attempt is made once. *)

UserNamespaces ==
  /\ host.platform = "linux" /\ host.sysctl
  /\ IF probed = {} THEN host.mapping ELSE TRUE \in probed

Remember ==
  probed' = IF host.platform = "linux" /\ host.sysctl /\ probed = {}
            THEN {host.mapping} ELSE probed

\* Mutant: only the user namespaces are asked for.
ChooseIsolationUserOnly ==
  /\ stage = "detect"
  /\ Remember
  /\ IF cmd.isolation = "namespaces" /\ ~UserNamespaces
       THEN Exit(1) /\ UNCHANGED allow_namespaces
       ELSE Proceed("audit") /\ allow_namespaces' = (cmd.isolation # "confine")
  /\ UNCHANGED <<inputs, host, switched, profile, findings, shown, plan, outcome, backend>>

ChooseIsolation ==
  /\ stage = "detect"
  /\ Remember
  /\ IF cmd.isolation = "namespaces" /\ ~(UserNamespaces /\ host.mnt)
       THEN Exit(1) /\ UNCHANGED allow_namespaces
       ELSE Proceed("audit") /\ allow_namespaces' = (cmd.isolation # "confine")
  /\ UNCHANGED <<inputs, host, switched, profile, findings, shown, plan, outcome, backend>>

\* An audit file that cannot be opened ends the run.
OpenAudit ==
  /\ stage = "audit"
  /\ Proceed("dispatch") \/ (cmd.audit /\ Exit(1))
  /\ UNCHANGED <<inputs, host, switched, cli, probed, plan, outcome, backend>>

\* Somebody switches the user namespaces on or off, by sysctl or by policy.
HostChanges ==
  /\ Changes /\ ~switched /\ stage \in {"audit", "dispatch", "plan", "start"}
  /\ switched' = TRUE
  /\ host' \in {[host EXCEPT !.sysctl = ~@], [host EXCEPT !.mapping = ~@]}
  /\ UNCHANGED <<inputs, stage, cli, probed, plan, outcome, status, backend>>

-----------------------------------------------------------------------------
(* Sandbox::run, on each platform. *)

\* Whether the platform's backend, of which there may be none, may be tried.
Unavailable ==
  \/ host.platform = "other"
  \/ host.platform = "windows" /\ profile.rest.image # {} /\ ~host.wslc

Dispatch ==
  /\ stage = "dispatch"
  /\ IF Unavailable \/ ~Allows(profile.rest.tools, cmd.program)
       THEN Contract!Refuse /\ Proceed("answered")
       ELSE Contract!Open /\ Proceed("plan")
  /\ UNCHANGED <<inputs, host, switched, cli, probed, plan, outcome>>

\* to_socket_addrs resolves any split entry whose host has an address, port 0
\* included.
Resolves(e) == e.parts /\ e.host \in host.names /\ e.port \in 0..MaxPort

\* The first thing of the plan that cannot be had.
PlanError ==
  LET compiled == Compile(Syscalls(profile)) IN
  CASE host.platform = "windows" -> IF "" \in profile.rest.image THEN "image" ELSE "none"
    [] host.platform # "windows" /\ ~(profile.rest.keep \subseteq ParsedCapabilities)
         -> "capability"
    [] host.platform # "windows" /\ profile.rest.keep \subseteq ParsedCapabilities ->
         IF compiled \notin {"none", "program"} THEN compiled
         ELSE IF /\ profile.rest.network.mode = "allowlist"
                 /\ \E e \in profile.rest.network.allow : ~Resolves(e)
              THEN "resolution" ELSE "none"

\* detect() again; then capabilities, filter, endpoints and the layers.
MakePlan ==
  /\ stage = "plan"
  /\ Remember
  /\ LET isolate == allow_namespaces /\ UserNamespaces /\ host.mnt IN
       plan' = [isolate |-> isolate,
                net_isolate |-> isolate /\ WantsIsolation(profile.rest.network) /\ host.net,
                error |-> PlanError]
  /\ \/ PlanError # "none" /\ Contract!Fail /\ Proceed("answered")
     \/ PlanError = "none" /\ cmd.dry /\ Contract!AnswerPlan /\ Proceed("answered")
     \/ PlanError = "none" /\ ~cmd.dry /\ UNCHANGED backend /\ Proceed("start")
  /\ UNCHANGED <<inputs, host, switched, cli, outcome>>

-----------------------------------------------------------------------------
(* The start of the command. *)

Sealed == Syscalls(profile)

Blocked == {c \in Needed(profile.rest.network.mode) : ~Passes(Sealed, c)}

\* The child dies without a word: the filter kills it, or refuses it the write
\* of the errno std sends when it cannot go on.
Silent ==
  \/ ~Passes(Sealed, "read")
  \/ \E c \in Blocked : Verdict(Sealed, c) = "kill"

\* The kernel lets the child confine itself as planned.
CanConfine == IF plan.isolate THEN host.sysctl /\ host.mapping ELSE host.landlock

\* A channel, the fork, a step of the setup or the exec fails.
StartFails ==
  /\ stage = "start"
  /\ Contract!Fail /\ Proceed("answered")
  /\ UNCHANGED <<inputs, host, switched, cli, probed, plan, outcome>>

\* A child lost before the listener is handed over leaves run() waiting for
\* it; one lost at the exec is reported with its signal.
StartLost ==
  /\ stage = "start" /\ host.platform = "linux" /\ CanConfine /\ Blocked # {} /\ Silent
  /\ IF Blocked \cap {"seccomp", "sendmsg"} # {}
       THEN Proceed("hung") /\ UNCHANGED ended
       ELSE Proceed("waiting") /\ ended' = [code |-> {}, signal |-> {9}]
  /\ UNCHANGED <<inputs, host, switched, cli, probed, plan, childEnv, backend>>

SetUp ==
  /\ stage = "start" /\ host.platform = "linux" /\ CanConfine /\ Blocked = {}
  /\ Contract!Prepare /\ confined' = TRUE
  /\ Proceed("exec")
  /\ UNCHANGED <<inputs, host, switched, cli, probed, plan, outcome>>

Exec ==
  /\ stage = "exec"
  /\ Contract!Launch
  /\ childEnv' = ApplyEnv(profile.rest.env, host.env)
  /\ Proceed("waiting")
  /\ UNCHANGED <<inputs, host, switched, cli, probed, plan, ended>>

\* A container gets its variables as arguments, which carry only text.
WindowsStart ==
  /\ stage = "start" /\ host.platform = "windows"
  /\ command' = "live"
  /\ childEnv' = IF profile.rest.image = {} THEN ApplyEnv(profile.rest.env, host.env)
                 ELSE Applied(ResolvedEnvVars(profile.rest.env, host.env))
  /\ Proceed("waiting")
  /\ UNCHANGED <<inputs, host, switched, cli, probed, plan, ended, trail, confined, answer>>

CommandEnds ==
  /\ stage = "waiting"
  /\ Contract!Die
  /\ ended' \in {[code |-> {0}, signal |-> {}], [code |-> {3}, signal |-> {}],
                 [code |-> {}, signal |-> {9}]}
  /\ UNCHANGED <<inputs, host, switched, stage, cli, probed, plan, childEnv, status>>

\* A timeout is an error of run(); without one there is a report.
Finish ==
  /\ stage = "waiting"
  /\ Contract!Finish
  /\ answer' = "timeout" => profile.timeout # {}
  /\ Proceed("answered")
  /\ UNCHANGED <<inputs, host, switched, cli, probed, plan, outcome>>

-----------------------------------------------------------------------------
(* The exit status. *)

\* Mutant: a signal counts as nothing.
ProcessExitCodeNoSignal(e) == IF e.code # {} THEN CHOOSE c \in e.code : TRUE ELSE 0

\* Mutant: the signal as Unix reports it to a parent, negative.
ProcessExitCodeNegated(e) ==
  IF e.code # {} THEN CHOOSE c \in e.code : TRUE ELSE 0 - (CHOOSE s \in e.signal : TRUE)

ProcessExitCode(e) ==
  CASE e.code # {}                   -> CHOOSE c \in e.code : TRUE
    [] e.code = {} /\ e.signal # {}  -> 128 + (CHOOSE s \in e.signal : TRUE)
    [] e.code = {} /\ e.signal = {}  -> 0

ExitStatus ==
  CASE answer = "planned" -> 0
    [] answer = "report"  -> ProcessExitCode(ended)
    [] OTHER              -> 1

Answered ==
  /\ stage = "answered"
  /\ Exit(ExitStatus)
  /\ UNCHANGED <<inputs, host, switched, cli, probed, plan, outcome, backend>>

-----------------------------------------------------------------------------

Init ==
  /\ \E i \in Inputs : cmd = i.cmd /\ text = i.text /\ host = i.host
  /\ switched = FALSE /\ stage = "load" /\ status = 0
  /\ profile = DefaultProfile /\ findings = {} /\ allow_namespaces = FALSE /\ shown = {}
  /\ probed = {} /\ plan = [isolate |-> FALSE, net_isolate |-> FALSE, error |-> "none"]
  /\ childEnv = << >> /\ ended = [code |-> {}, signal |-> {}]
  /\ trail = "none" /\ command = "never" /\ confined = FALSE /\ answer = "pending"

CommandLine == Load \/ ValidateProfile \/ ShowProfile \/ CheckProfile
                 \/ ChooseIsolation \/ OpenAudit \/ Answered

Run == Dispatch \/ MakePlan \/ StartFails \/ StartLost \/ SetUp \/ Exec \/ WindowsStart
         \/ CommandEnds \/ Finish

Next == CommandLine \/ Run \/ HostChanges

Spec == Init /\ [][Next]_vars
-----------------------------------------------------------------------------
(* Type invariant. *)

Stages ==
  {"load", "loaded", "detect", "audit", "dispatch", "plan", "start", "exec", "waiting",
   "answered", "hung", "exited"}

PlanErrors ==
  {"none", "capability", "unknown_syscall", "identical_actions", "resolution", "image"}

RcTypeOK ==
  /\ stage \in Stages /\ status \in 0..255 /\ host \in AllHosts
  /\ switched \in BOOLEAN /\ allow_namespaces \in BOOLEAN /\ probed \in SUBSET BOOLEAN
  /\ plan \in [isolate : BOOLEAN, net_isolate : BOOLEAN, error : PlanErrors]
  /\ ended \in [code : SUBSET {0, 3}, signal : SUBSET {9}]
  /\ Contract!CTypeOK

-----------------------------------------------------------------------------
(* Safety. *)

Started == command # "never"

\* The validator and the backend parse the same fields in two crates.  A
\* profile that was accepted fails to plan only in the ways the validator
\* does not look for: an unknown syscall, a denylist that blocks with allow,
\* an endpoint whose host has no address.  And a filter that lets nothing run,
\* which syscalls.empty_allowlist is there to refuse, gets through only under
\* the hardened preset, which adds nothing to an allowlist.
AcceptedIsPlannable ==
  trail # "none" =>
    LET sc == Syscalls(profile) IN
    /\ plan.error \notin {"capability", "image"}
    /\ plan.error = "identical_actions" => sc.default = "allow" /\ sc.block_action = "allow"
    /\ plan.error = "resolution" =>
         \E e \in profile.rest.network.allow : IsValidHostPort(e) /\ e.host \notin host.names
    /\ sc.enabled /\ IsAllowlist(sc) /\ Listed(sc) = {} => sc.preset = {"hardened"}

\* Whatever the lists say, the started command cannot make a nested user
\* namespace with clone(2) unnoticed, no connect escapes the supervisor of the allowlist
\* network mode, and a hardened denylist keeps its own calls blocked; an
\* allowlist lets through only what it lists, a denylist blocks only what it
\* lists and blocks all of it but clone: the guard against user namespaces takes
\* the place of its rule (seccomp.rs:132-153), so clone on the list of "Extra
\* syscalls to block" (syscalls.rs:62) still passes.
FilterDecides ==
  Started /\ host.platform = "linux" =>
    LET sc == Syscalls(profile)
        E(c) == Effective(sc, profile.rest.network.mode, c) IN
    /\ sc.enabled => E("clone_newuser") # "allow"
    /\ profile.rest.network.mode = "allowlist" => E("connect") \notin {"allow", "log"}
    /\ sc.enabled /\ ~IsAllowlist(sc) =>
         /\ sc.preset = {"hardened"} => \A c \in DANGEROUS : E(c) # "allow"
         /\ \A c \in Calls : E(c) \notin {"allow", "notify"} => c \in Listed(sc) \cup {"clone_newuser"}
         /\ \A c \in sc.deny : E(c) = "allow" <=> c = "clone"
    /\ sc.enabled /\ IsAllowlist(sc) => \A c \in Calls : E(c) = "allow" => c \in Listed(sc)

\* "Variables set (or overridden) unconditionally" and "inherited" (env.rs):
\* each variable of the command comes from where the policy says, none is
\* missing and there is a PATH.  Of the names set, those that the allowlist has
\* twice and the host has too, and only those, keep the host's value, against what
\* that comment says; and a container gets no value that is not text.
EnvAsListed ==
  Started =>
    LET env == profile.rest.env
        container == host.platform = "windows" /\ profile.rest.image # {} IN
    /\ \A n \in DOMAIN childEnv :
         CASE childEnv[n] = "set"     -> n \in env.set
           [] childEnv[n] = "host"    -> Inherits(env, host.env, n)
           [] childEnv[n] = "default" -> n = "PATH" /\ DOMAIN childEnv \cap Paths = {"PATH"}
    /\ env.set \subseteq DOMAIN childEnv
    /\ \A n \in env.set : childEnv[n] = "host" <=> Loses(env, host.env, n)
    /\ \A n \in DOMAIN host.env :
         Inherits(env, host.env, n) /\ (container => n \in Readable(host.env))
           => n \in DOMAIN childEnv
    /\ DOMAIN childEnv \cap Paths # {}

\* The validation that "fails a run rather than just flagging it"
\* (policy.rs:132-144): with unrestricted egress, a variable named like a
\* credential reaches the command only unlisted, by a passthrough that was
\* warned of, or under clear with a value of the profile's own.
SecretsFlagged ==
  Started /\ profile.rest.network.mode = "full" =>
    LET env == profile.rest.env IN
    \A n \in DOMAIN childEnv \cap Secrets :
      \/ /\ env.mode = "passthrough" /\ n \notin ToSet(env.allow) \cup env.set
         /\ {"network.full", "env.passthrough"} \subseteq {d.code : d \in findings}
      \/ env.mode = "clear" /\ childEnv[n] = "set"

\* What `profile show` writes reads back as the profile it was written from,
\* except for: a size that is no f64, a part of a second, a duration of more
\* seconds than every f64 can count, which may not even be read, a None that TOML
\* cannot write and that has a default, a cpu that JSON cannot write.  ("Both
\* round-trip to a canonical string form", units.rs:4, is so of the others only.)
ShownIsTheSame ==
  \A t \in shown :
    LET again == Loaded(t)
        Dropped(val) == val = {} /\ t.format = "toml" IN
    /\ Loads(t) \/ \E d \in profile.timeout : d \div 1000 > Exact
    /\ again.rest = profile.rest
    /\ \/ again.memory = profile.memory \/ Dropped(profile.memory)
       \/ \E b \in profile.memory : again.memory = {Saturated(F64(b))} /\ b > Exact
    /\ \/ again.timeout = profile.timeout
       \/ \E d \in profile.timeout :
            (d % 1000 # 0 /\ again.timeout = {d - (d % 1000)}) \/ d \div 1000 > Exact
    /\ again.cpu = profile.cpu \/ (t.format = "json" /\ ~(profile.cpu \subseteq Finite("json", profile.cpu)))
    /\ again.pids = profile.pids \/ Dropped(profile.pids)
    /\ again.open_files = profile.open_files \/ Dropped(profile.open_files)
    /\ again.preset = profile.preset \/ Dropped(profile.preset)

\* "Require namespace isolation; fail if unavailable" (cli.rs): the command
\* line looks, and the backend looks again.  A command asked to be isolated
\* runs without namespaces only if the host was changed between the two.
NamespacesAsAsked ==
  Started /\ host.platform = "linux" =>
    /\ cmd.isolation = "namespaces" => plan.isolate \/ switched
    /\ cmd.isolation = "confine" => ~plan.isolate

\* A status of 0 from a run says that the command ran and exited with 0, or
\* that nothing was to be run; an invalid profile leaves no trace in the trail.
StatusTells ==
  cmd.sub = "run" =>
    /\ stage = "exited" /\ status = 0 =>
         \/ cmd.dry /\ answer = "planned"
         \/ ~cmd.dry /\ answer = "report" /\ command = "dead" /\ ended.code = {0}
    /\ cmd.dry => ~Started
    /\ ~IsValid(findings) => trail = "none" /\ stage = "exited" /\ status = 1
=============================================================================
