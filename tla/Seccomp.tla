------------------------------- MODULE Seccomp -------------------------------
(***************************************************************************)
(* seccomp::compile (linux/seccomp.rs) over the curated lists of           *)
(* linux/syscall_table.rs, and the connect filter stacked on it            *)
(* (linux/connect_filter.rs).  Each group of syscalls that no rule and no  *)
(* setup step tells apart is one name; clone with CLONE_NEWUSER is a call  *)
(* of its own, "clone_newuser", of the name clone.  A policy is            *)
(* [enabled, default, preset, allow, deny, block_action], preset a set of  *)
(* at most one.                                                            *)
(***************************************************************************)
EXTENDS Naturals

Actions == {"allow", "errno", "kill", "log"}
Presets == {"hardened", "assistant", "minimal"}

\* The names with a number on this architecture; "mmap2" has none on x86_64.
Resolvable == {"read", "execve", "clone", "connect", "sendmsg", "seccomp", "mount"}
Names      == Resolvable \cup {"mmap2", "bogus"}
Calls      == Resolvable \cup {"clone_newuser"}

DANGEROUS       == {"mount"}
ASSISTANT_ALLOW == {"read", "execve", "clone", "connect", "sendmsg", "mmap2"}
MINIMAL_ALLOW   == {"read", "execve"}

\* What a missing field of the section means.
DefaultPreset == {"hardened"}

IsAllowlist(p) == p.default # "allow"

\* A denylist preset adds nothing to an allowlist, nor the other way round.
PresetNames(p) ==
  CASE IsAllowlist(p) /\ p.preset = {"assistant"} -> ASSISTANT_ALLOW
    [] IsAllowlist(p) /\ p.preset = {"minimal"}   -> MINIMAL_ALLOW
    [] ~IsAllowlist(p) /\ p.preset = {"hardened"} -> DANGEROUS
    [] OTHER                                      -> {}

Explicit(p) == IF IsAllowlist(p) THEN p.allow ELSE p.deny

Listed(p) == PresetNames(p) \cup Explicit(p)

(* Mutant: the guard is put only where clone is listed. *)
CloneRuleIfListed(p) ==
  {c \in {IF IsAllowlist(p) THEN "clone" ELSE "clone_newuser"} : "clone" \in Listed(p)}

\* guard_clone_against_new_user_namespace: the rule for clone always has the
\* condition on CLONE_NEWUSER, whether clone was listed or not.
CloneRule(p) ==
  IF IsAllowlist(p) THEN Listed(p) \cap {"clone"} ELSE {"clone_newuser"}

Matched(p) == ((Listed(p) \cap Resolvable) \ {"clone"}) \cup CloneRule(p)

MatchAction(p)    == IF IsAllowlist(p) THEN "allow" ELSE p.block_action
MismatchAction(p) == IF IsAllowlist(p) THEN p.default ELSE "allow"

\* What compile() answers: explicit names must resolve, and seccompiler
\* refuses two equal actions.
Compile(p) ==
  CASE ~p.enabled                              -> "none"
    [] p.enabled /\ ~(Explicit(p) \subseteq Resolvable) -> "unknown_syscall"
    [] p.enabled /\ Explicit(p) \subseteq Resolvable ->
         IF MatchAction(p) = MismatchAction(p) THEN "identical_actions" ELSE "program"

Verdict(p, c) ==
  IF ~p.enabled THEN "allow"
  ELSE IF c \in Matched(p) THEN MatchAction(p) ELSE MismatchAction(p)

-----------------------------------------------------------------------------
(* The connect filter of the allowlist network mode: notify for connect. *)

Rank == [kill |-> 4, errno |-> 3, notify |-> 2, log |-> 1, allow |-> 0]

Notified(mode, c) == IF mode = "allowlist" /\ c = "connect" THEN "notify" ELSE "allow"

\* Of stacked filters the kernel takes the strictest answer.
Effective(p, mode, c) ==
  IF Rank[Notified(mode, c)] > Rank[Verdict(p, c)] THEN Notified(mode, c) ELSE Verdict(p, c)

Passes(p, c) == Verdict(p, c) \in {"allow", "log"}

\* What the child still calls once the filter is on it: the listener's
\* installation and its handover, and the execution of the command.
Needed(mode) == {"execve"} \cup (IF mode = "allowlist" THEN {"seccomp", "sendmsg"} ELSE {})
=============================================================================
