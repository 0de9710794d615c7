------------------------------- MODULE Profile -------------------------------
(***************************************************************************)
(* A profile (confinery-core/src/profile.rs and the sections it is made    *)
(* of): how a file is read, with the default of every field that is not    *)
(* there, and how `profile show` writes it.                                *)
(*                                                                         *)
(* A field of the file is [given, val]: not there, a null, which only JSON *)
(* has, or a value.  The sections without an optional field or a           *)
(* conversion are read and written as they stand; they are `rest`:         *)
(*   [named, network : [mode, allow], read_only, read_write, tmpfs,        *)
(*    filter : [enabled, default, allow, deny, block_action],              *)
(*    keep, env : [mode, allow, set], tools, image]                        *)
(***************************************************************************)
EXTENDS Units, EnvPolicy, Seccomp

CONSTANTS
  DefaultMemory,   \* 2GiB
  MaxToml,         \* the largest integer TOML can hold, i64::MAX
  BaseOf           \* the programs that matter, each with its file name

ASSUME DefaultMemoryAssumption == DefaultMemory \in 0..MaxU64

Absent   == [given |-> FALSE, val |-> {}]
Null     == [given |-> TRUE, val |-> {}]
Given(x) == [given |-> TRUE, val |-> {x}]

DefaultPids      == {512}
DefaultOpenFiles == {1024}

\* A missing section is its defaults.
DefaultRest ==
  [named |-> TRUE, network |-> [mode |-> "none", allow |-> {}],
   read_only |-> {"usr"}, read_write |-> {}, tmpfs |-> {"tmp"},
   filter |-> [enabled |-> TRUE, default |-> "allow", allow |-> {}, deny |-> {},
               block_action |-> "errno"],
   keep |-> {}, env |-> [mode |-> "allowlist", allow |-> <<"PATH", "HOME">>, set |-> {}],
   tools |-> {}, image |-> {}]

-----------------------------------------------------------------------------
(* Reading. *)

\* A count is a u64; TOML has no integer for the upper half of them.
Fits(format, counts) == format = "toml" => \A n \in counts : n <= MaxToml

\* The file's extension names its format; a size or a duration that does not
\* parse is an error of the whole file.
Loads(t) ==
  /\ t.format \in {"toml", "json"} /\ Fits(t.format, t.open_files.val)
  /\ \A m \in t.memory.val : ReadSize(m) # {}
  /\ \A d \in t.timeout.val : ParseDuration(d) # {}

OrDefault(field, default) == IF field.given THEN field.val ELSE default

Loaded(t) ==
  [memory     |-> IF t.memory.given THEN UNION {ReadSize(m) : m \in t.memory.val}
                  ELSE {DefaultMemory},
   cpu        |-> OrDefault(t.cpu, {}),
   pids       |-> OrDefault(t.pids, DefaultPids),
   open_files |-> OrDefault(t.open_files, DefaultOpenFiles),
   timeout    |-> UNION {ParseDuration(d) : d \in t.timeout.val},
   preset     |-> OrDefault(t.preset, DefaultPreset),
   rest       |-> t.rest]

\* Profile::default(), what a run without --profile uses.
DefaultProfile ==
  [memory |-> {DefaultMemory}, cpu |-> {}, pids |-> DefaultPids,
   open_files |-> DefaultOpenFiles, timeout |-> {}, preset |-> DefaultPreset,
   rest |-> DefaultRest]

-----------------------------------------------------------------------------
(* Writing. *)

\* TOML has no null: a None is not written.  JSON has no number for a NaN or
\* an infinity: they become null.
Field(format, val) ==
  IF val # {} THEN [given |-> TRUE, val |-> val]
  ELSE IF format = "json" THEN Null ELSE Absent

Finite(format, cpu) ==
  IF format = "json" THEN cpu \ {"nan", "infinite"} ELSE cpu

\* What cannot be written is an error.
Serializes(pr, format) == Fits(format, pr.open_files)

Shown(pr, format) ==
  [format     |-> format,
   memory     |-> Field(format, {HumanSize(b) : b \in pr.memory}),
   cpu        |-> Field(format, Finite(format, pr.cpu)),
   pids       |-> Field(format, pr.pids),
   open_files |-> Field(format, pr.open_files),
   timeout    |-> Field(format, {HumanDuration(d) : d \in pr.timeout}),
   preset     |-> Field(format, pr.preset),
   rest       |-> pr.rest]

-----------------------------------------------------------------------------
(* What the parts of a profile are asked. *)

Allows(tools, program) ==
  tools = {} \/ BaseOf[program] \in tools \/ program \in tools

WantsIsolation(network) == network.mode \in {"none", "loopback"}

Syscalls(pr) ==
  [enabled |-> pr.rest.filter.enabled, default |-> pr.rest.filter.default,
   preset |-> pr.preset, allow |-> pr.rest.filter.allow, deny |-> pr.rest.filter.deny,
   block_action |-> pr.rest.filter.block_action]
=============================================================================
