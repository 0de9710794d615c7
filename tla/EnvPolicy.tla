------------------------------ MODULE EnvPolicy ------------------------------
(***************************************************************************)
(* The environment of the command: EnvPolicy (confinery-core/src/env.rs),  *)
(* resolved_env_vars and apply_env (confinery-sandbox/src/common.rs).  A   *)
(* policy is [mode, allow, set]: allow a sequence of names, which may      *)
(* repeat one, and set the names given a value.  The host's environment is *)
(* a function from its names to "text", or to "raw" for a value that is    *)
(* not UTF-8; a child's environment maps each name to where its value      *)
(* comes from.                                                             *)
(*                                                                         *)
(* The order of a vector of pairs matters only among the pairs of one      *)
(* name: it is a set of [name, at, from], `at` the place of the pair.      *)
(***************************************************************************)
EXTENDS Naturals, Sequences, SequencesExt

CONSTANTS
  Paths,     \* the names that are PATH but for case, "PATH" one of them
  Secrets    \* the names that contain KEY, TOKEN, SECRET, PASSWORD, CREDENTIAL

ASSUME PathsAssumption == "PATH" \in Paths

\* No spelling of PATH contains one of those.
ASSUME SecretsAssumption == Paths \cap Secrets = {}

EnvModes == {"passthrough", "allowlist", "clear"}

\* The variables std::env::var reads; it cannot read a raw one.
Readable(host) == {n \in DOMAIN host : host[n] = "text"}

NamesOf(pairs) == {p.name : p \in pairs}

FirstOf(p, pairs) == \A q \in pairs : q.name = p.name => p.at <= q.at

LastOf(p, pairs) == \A q \in pairs : q.name = p.name => q.at <= p.at

\* The variables resolved_env_vars takes from the host; vars_os has each once.
Inherited(env, host) ==
  CASE env.mode = "passthrough" -> {[name |-> n, at |-> 1] : n \in Readable(host)}
    [] env.mode = "allowlist"   -> {[name |-> env.allow[i], at |-> i] :
                                      i \in {j \in DOMAIN env.allow : env.allow[j] \in Readable(host)}}
    [] env.mode = "clear"       -> {}

\* Of the pairs with an overridden name the first gets the new value; names
\* not inherited are appended, and a PATH if there is none.
Overridden(inherited, set) ==
  {[name |-> p.name, at |-> p.at,
    from |-> IF p.name \in set /\ FirstOf(p, inherited) THEN "set" ELSE "host"] : p \in inherited}

Appended(names, from) == {[name |-> n, at |-> 1, from |-> from] : n \in names}

DefaultPath(names) == {n \in {"PATH"} : names \cap Paths = {}}

ResolvedEnvVars(env, host) ==
  LET inherited == Inherited(env, host)
  IN  Overridden(inherited, env.set)
        \cup Appended(env.set \ NamesOf(inherited), "set")
        \cup Appended(DefaultPath(NamesOf(inherited) \cup env.set), "default")

\* Command::env of each pair in turn: the last one of a name stands.
Applied(pairs) ==
  [n \in NamesOf(pairs) |-> (CHOOSE p \in pairs : p.name = n /\ LastOf(p, pairs)).from]

\* Mutant: passthrough goes through the resolver too.
ApplyEnvResolved(env, host) == Applied(ResolvedEnvVars(env, host))

\* Passthrough hands every variable on, raw ones included, and then sets.
ApplyEnv(env, host) ==
  IF env.mode # "passthrough" THEN Applied(ResolvedEnvVars(env, host))
  ELSE LET names == DOMAIN host \cup env.set
       IN  [n \in names \cup DefaultPath(names) |->
              IF n \in env.set THEN "set" ELSE IF n \in DOMAIN host THEN "host" ELSE "default"]

-----------------------------------------------------------------------------
(* What the policy says of one name (the comments of env.rs): inherited when
   the mode says so, set unconditionally. *)

Inherits(env, host, n) ==
  \/ env.mode = "passthrough" /\ n \in DOMAIN host
  \/ env.mode = "allowlist" /\ n \in ToSet(env.allow) /\ n \in Readable(host)

Repeated(env) == {n \in ToSet(env.allow) : \E i, j \in DOMAIN env.allow :
                                             i # j /\ env.allow[i] = n /\ env.allow[j] = n}

\* A name that is inherited twice keeps the host's value, set or not: only its
\* first pair is overridden.
Loses(env, host, n) == env.mode = "allowlist" /\ n \in Repeated(env) /\ n \in Readable(host)
=============================================================================
