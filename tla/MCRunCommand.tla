----------------------------- MODULE MCRunCommand -----------------------------
(***************************************************************************)
(* The inputs TLC explores.  One section of the profile is varied at a     *)
(* time, together with what it meets: the limits with the two file formats *)
(* and `show`, the filter with the network mode, the environment with the  *)
(* network mode and the platforms, the rest with the hosts and options.    *)
(*                                                                         *)
(* Sizes, durations and f64 are scaled down: integers are exact up to 16,  *)
(* the largest u64 is 255, a minute has 3 seconds and an hour 9.           *)
(***************************************************************************)
EXTENDS RunCommand

MCUnitSize == [u \in {"B", "KB", "KiB", "MiB", "GiB"} |->
                 CASE u = "B" -> 1 [] u = "KB" -> 3 [] u = "KiB" -> 4 [] u = "MiB" -> 16
                   [] u = "GiB" -> 64]

MCBaseOf == [p \in {"sh", "/bin/sh", "python3"} |-> IF p = "/bin/sh" THEN "sh" ELSE p]

-----------------------------------------------------------------------------

BaseCmd ==
  [sub |-> "run", profile |-> TRUE, isolation |-> "auto", dry |-> FALSE, audit |-> FALSE,
   json |-> FALSE, program |-> "sh"]

BaseText ==
  [format |-> "toml", memory |-> Absent, cpu |-> Absent, pids |-> Absent,
   open_files |-> Absent, timeout |-> Absent, preset |-> Absent, rest |-> DefaultRest]

BaseHost ==
  [platform |-> "linux", sysctl |-> TRUE, mapping |-> TRUE, mnt |-> TRUE, net |-> TRUE,
   landlock |-> TRUE, wslc |-> TRUE, names |-> {"web"},
   env |-> [n \in {"PATH", "HOME"} |-> "text"]]

Input(c, t, h) == [cmd |-> c, text |-> t, host |-> h]

-----------------------------------------------------------------------------
(* The limits, read and shown. *)

Sizes ==
  [form : {"integer"}, halves : {-2, 0, 24, 32, 34, 480}, unit : {"B"}]
    \cup [form : {"text"}, halves : {-2, 0, 1, 3, 8, 22, 34}, unit : DOMAIN MCUnitSize \cup {"XB"}]

Durations ==
  [form : {"segments"}, d : {0}, h : {0, 1}, m : {0, 2, 13}, s : {0, 4}, ms : {0, 500}]
    \cup [form : {"segments", "malformed"}, d : {0, 1}, h : {0}, m : {0}, s : {0}, ms : {1500}]
    \cup [form : {"bare"}, d : {0}, h : {0}, m : {0}, s : {0, 16, 17, 171, 255, 256}, ms : {0}]

Fields(values) == {Absent, Null} \cup {Given(v) : v \in values}

Limits ==
  {[BaseText EXCEPT !.memory = m] : m \in Fields(Sizes)}
    \cup {[BaseText EXCEPT !.timeout = d] : d \in Fields(Durations)}
    \cup {[BaseText EXCEPT !.cpu = c] :
            c \in Fields({"nan", "infinite", "negative", "zero", "below_1us", "fine"})}
    \cup {[BaseText EXCEPT !.pids = p, !.open_files = n, !.preset = s] :
            p \in Fields({0, 64}), n \in Fields({0, 64, 4000}), s \in Fields({"assistant"})}

NoNulls(t) == t.format = "toml" =>
  Null \notin {t.memory, t.timeout, t.cpu, t.pids, t.open_files, t.preset}

ShowInputs ==
  {Input([BaseCmd EXCEPT !.sub = s, !.json = j], [t EXCEPT !.format = f], BaseHost) :
     s \in {"show", "validate"}, j \in BOOLEAN, t \in Limits, f \in {"toml", "json", "yaml"}}

LimitInputs == {i \in ShowInputs : NoNulls(i.text)}
                 \cup {Input(BaseCmd, t, BaseHost) : t \in {x \in Limits : NoNulls(x)}}

-----------------------------------------------------------------------------
(* The syscall filter and the network. *)

Endpoints ==
  {{}, {[parts |-> TRUE, host |-> "web", port |-> 443]},
   {[parts |-> TRUE, host |-> "web", port |-> 443], [parts |-> TRUE, host |-> "gone", port |-> 80]},
   {[parts |-> TRUE, host |-> "web", port |-> 0]}, {[parts |-> FALSE, host |-> "web", port |-> 80]}}

Lists == {{}, {"clone"}, {"mount"}, {"bogus"}, {"mmap2"}, {"execve"}, {"connect"},
          {"seccomp", "sendmsg"}, {"read", "execve", "seccomp", "sendmsg"}}

Filters ==
  [enabled : {TRUE}, default : {"allow"}, allow : {{}, {"mount"}}, deny : Lists, block_action : Actions]
    \cup [enabled : {TRUE}, default : Actions \ {"allow"}, allow : Lists, deny : {{}, {"connect"}},
          block_action : {"errno"}]
    \cup [enabled : {FALSE}, default : {"errno"}, allow : {{}}, deny : {{"bogus"}}, block_action : {"errno"}]

FilterTexts ==
  {[BaseText EXCEPT !.format = f, !.preset = p, !.rest.filter = x, !.rest.network.mode = m,
                    !.rest.network.allow = {[parts |-> TRUE, host |-> "web", port |-> 443]}] :
     f \in {"toml", "json"}, p \in {Absent, Null, Given("assistant"), Given("minimal")}, x \in Filters,
     m \in {"none", "allowlist"}}

NetworkTexts ==
  {[BaseText EXCEPT !.rest.network = [mode |-> m, allow |-> a]] :
     m \in {"none", "loopback", "allowlist", "full"}, a \in Endpoints}

FilterInputs ==
  {Input(BaseCmd, t, BaseHost) : t \in {x \in FilterTexts \cup NetworkTexts : NoNulls(x)}}

-----------------------------------------------------------------------------
(* The environment. *)

HostEnvs ==
  {[n \in d |-> IF n = r THEN "raw" ELSE "text"] :
     d \in {{}, {"HOME"}, {"PATH", "HOME", "API_KEY"}, {"Path", "API_KEY"}}, r \in {"none", "HOME", "API_KEY"}}

EnvTexts ==
  {[BaseText EXCEPT !.rest.env = [mode |-> m, allow |-> a, set |-> s], !.rest.network.mode = n,
                    !.rest.image = i] :
     m \in {"passthrough", "allowlist", "clear"},
     a \in {<<>>, <<"PATH", "HOME">>, <<"HOME", "Path", "HOME">>, <<"API_KEY", "PATH">>},
     s \in {{}, {"HOME"}, {"API_KEY"}, {"Path", "HOME"}}, n \in {"none", "full"}, i \in {{}, {"node"}}}

EnvInputs ==
  {Input(BaseCmd, t, [BaseHost EXCEPT !.env = e, !.platform = p]) :
     t \in EnvTexts, e \in HostEnvs, p \in {"linux", "windows"}}

-----------------------------------------------------------------------------
(* Hosts, options and what is left of the profile. *)

Cmds == [sub : {"run"}, profile : {FALSE}, isolation : {"auto", "namespaces", "confine"},
         dry : BOOLEAN, audit : BOOLEAN, json : {FALSE}, program : {"sh"}]

HostKinds ==
  {[BaseHost EXCEPT !.platform = p, !.sysctl = s, !.mapping = u, !.mnt = m, !.landlock = l,
                    !.net = l] :
     p \in {"linux", "windows", "other"}, s \in BOOLEAN, u \in BOOLEAN, m \in BOOLEAN, l \in BOOLEAN}

RestTexts ==
  {[BaseText EXCEPT !.rest.tools = t, !.rest.image = i] :
     t \in {{}, {"sh"}, {"python3"}, {"/bin/sh"}}, i \in {{}, {""}, {"node"}}}
    \cup {[BaseText EXCEPT !.rest.keep = k, !.rest.named = n] :
            k \in {{}, {"sys_admin"}, {" net_raw"}}, n \in BOOLEAN}
    \cup {[BaseText EXCEPT !.rest.read_only = o, !.rest.read_write = w, !.rest.tmpfs = {}] :
            o \in {{}, {"usr"}}, w \in {{}, {"usr"}, {"work"}}}

RestInputs ==
  {Input(c, BaseText, h) : c \in Cmds, h \in HostKinds}
    \cup {Input([BaseCmd EXCEPT !.program = g], t, [BaseHost EXCEPT !.platform = p, !.wslc = w]) :
            g \in {"sh", "/bin/sh"}, t \in RestTexts, p \in {"linux", "windows"}, w \in BOOLEAN}

MCEnvironments == HostEnvs \cup {BaseHost.env}

MCInputs == LimitInputs \cup FilterInputs \cup EnvInputs \cup RestInputs
=============================================================================
