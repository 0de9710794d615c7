-------------------------------- MODULE Policy --------------------------------
(***************************************************************************)
(* policy::validate (confinery-core/src/policy.rs): the findings about a   *)
(* loaded profile, as a set of [severity, code].                           *)
(***************************************************************************)
EXTENDS Profile

CONSTANTS
  LowMemory   \* 16MiB

\* The capabilities is_known knows, those of them it warns of, and one it does
\* not know though caps::parse_capability, which trims it, does.
KNOWN_CAPABILITIES  == {"net_bind_service", "sys_admin"}
DangerousCapability == {"sys_admin"}
ParsedCapabilities  == KNOWN_CAPABILITIES \cup {" net_raw"}

MaxPort == 65535

Error(code, when)   == {[severity |-> "error", code |-> c] : c \in {x \in {code} : when}}
Warning(code, when) == {[severity |-> "warning", code |-> c] : c \in {x \in {code} : when}}

Errors(findings) == {d \in findings : d.severity = "error"}
IsValid(findings) == Errors(findings) = {}

-----------------------------------------------------------------------------

ValidateResources(pr) ==
  UNION {Error("memory.zero", b = 0)
         \cup Warning("memory.low", b # 0 /\ b < LowMemory) : b \in pr.memory}
  \cup UNION {Error("cpu.zero", c \in {"negative", "zero"})
              \cup Warning("cpu.rounds_to_zero", c = "below_1us") : c \in pr.cpu}
  \cup UNION {Error("pids.zero", n = 0) : n \in pr.pids}
  \cup UNION {Error("open_files.zero", n = 0) : n \in pr.open_files}

\* An entry is [parts, host, port]: whether it splits at its last colon, or
\* behind its bracket, and into what; a port that is no number is -1.
IsValidHostPort(e) == e.parts /\ e.host # "" /\ e.port \in 1..MaxPort

ValidateNetwork(pr) ==
  LET net == pr.rest.network IN
  Warning("network.empty_allowlist", net.mode = "allowlist" /\ net.allow = {})
  \cup Error("network.bad_endpoint",
             net.mode = "allowlist" /\ \E e \in net.allow : ~IsValidHostPort(e))
  \cup Warning("network.full", net.mode = "full")

ValidateFilesystem(pr) ==
  Warning("fs.empty", pr.rest.read_only \cup pr.rest.read_write \cup pr.rest.tmpfs = {})
  \cup Error("fs.conflict", pr.rest.read_only \cap pr.rest.read_write # {})

\* Mutant: the preset of an allowlist is not asked for.
ValidateSyscallsPresetIgnored(pr) ==
  LET sc == Syscalls(pr) IN
  IF ~sc.enabled THEN Warning("syscalls.disabled", TRUE)
  ELSE Error("syscalls.empty_allowlist", FALSE)
       \cup Warning("syscalls.log_default", sc.default = "log")

ValidateSyscalls(pr) ==
  LET sc == Syscalls(pr) IN
  IF ~sc.enabled THEN Warning("syscalls.disabled", TRUE)
  ELSE Error("syscalls.empty_allowlist", IsAllowlist(sc) /\ sc.preset = {} /\ sc.allow = {})
       \cup Warning("syscalls.log_default", sc.default = "log")

ValidateCapabilities(pr) ==
  Error("capabilities.unknown", ~(pr.rest.keep \subseteq KNOWN_CAPABILITIES))
  \cup Warning("capabilities.dangerous", pr.rest.keep \cap DangerousCapability # {})

ValidateEnv(pr) == Warning("env.passthrough", pr.rest.env.mode = "passthrough")

ValidateTools(pr) == Warning("tools.path", \E t \in pr.rest.tools : BaseOf[t] # t)

ValidateWindows(pr) == Error("windows.container_image.empty", "" \in pr.rest.image)

\* Mutant: only the names that are inherited are looked at.
SecretExposureAllowOnly(pr) ==
  Error("network.full_with_secrets",
        /\ pr.rest.network.mode = "full"
        /\ pr.rest.env.mode # "clear"
        /\ ToSet(pr.rest.env.allow) \cap Secrets # {})

\* A name that looks like a credential, in the allow or the set list, together
\* with unrestricted egress.
ValidateSecretExposure(pr) ==
  Error("network.full_with_secrets",
        /\ pr.rest.network.mode = "full"
        /\ pr.rest.env.mode # "clear"
        /\ (ToSet(pr.rest.env.allow) \cup pr.rest.env.set) \cap Secrets # {})

Validate(pr) ==
  Error("name.empty", ~pr.rest.named)
  \cup ValidateResources(pr) \cup ValidateNetwork(pr) \cup ValidateFilesystem(pr)
  \cup ValidateSyscalls(pr) \cup ValidateCapabilities(pr) \cup ValidateEnv(pr)
  \cup ValidateTools(pr) \cup ValidateWindows(pr) \cup ValidateSecretExposure(pr)
=============================================================================
