------------------------------- MODULE CapDrop -------------------------------
(* CapPlan::apply (linux/caps.rs), the no_new_privs latch that follows it in
   the setup (linux/mod.rs:476-477), and the execve of the command: what is left
   of the five capability sets, for every keep-set and every caller.

   Each call of the caps crate reads the credentials, changes one set and writes
   it back, so it is one kernel request with the kernel's own conditions.  The
   crate hands out capabilities from hash sets, in any order. *)

CONSTANTS
  Caps,          \* the kernel's capabilities
  Setpcap        \* CAP_SETPCAP, which lets the bounding set be shrunk

ASSUME SetpcapAssumption == Setpcap \in Caps

Sets == {"effective", "permitted", "inheritable", "ambient", "bounding"}

VARIABLES
  keep,          \* the profile's capabilities.keep
  cred,          \* the child's five sets
  root,          \* its user id is 0, as in a user namespace it has made
  nnp,           \* no_new_privs
  at,            \* the next statement of apply(), or where the child is after it
  entered        \* history: cred when apply() was called

cvars == <<keep, cred, root, nnp, at, entered>>

-----------------------------------------------------------------------------
(* The kernel. *)

\* What every credential satisfies.
WellFormed(c) ==
  /\ c["effective"] \subseteq c["permitted"]
  /\ c["ambient"] \subseteq c["permitted"] \cap c["inheritable"]

\* unshare(CLONE_NEWUSER) gives the caller everything in the new namespace.
NamespaceRoot(c) ==
  /\ \A s \in {"effective", "permitted", "bounding"} : c[s] = Caps
  /\ c["inheritable"] = {} /\ c["ambient"] = {}

\* capset(2): what may become of the sets, by what they are.
CapsetAllows(c, new) ==
  /\ new["permitted"] \subseteq c["permitted"]
  /\ new["effective"] \subseteq new["permitted"]
  /\ new["inheritable"] \subseteq c["inheritable"] \cup c["bounding"]
  /\ Setpcap \in c["effective"]
       \/ new["inheritable"] \subseteq c["inheritable"] \cup c["permitted"]

\* An ambient capability goes when it is no longer permitted and inheritable.
Settled(c) ==
  [c EXCEPT !["ambient"] = c["ambient"] \cap c["permitted"] \cap c["inheritable"]]

\* Files the command may execute: plain, with the set-user-ID bit of root, or
\* with capabilities attached, the permitted and the inheritable ones (all of
\* them effective).
Files ==
  [kind : {"plain", "setuid"}, given : {{}}, passed : {{}}]
    \cup [kind : {"caps"}, given : SUBSET Caps, passed : SUBSET Caps]

\* execve(2) as root, which the set-user-ID bit brings unless it is latched out.
AsRoot(file) == root \/ (file.kind = "setuid" /\ ~nnp)

\* What a file brings: root has its bounding and inheritable sets, and under
\* no_new_privs nothing comes that was not permitted before.
Brought(c, file) ==
  LET attached == (c["bounding"] \cap file.given) \cup (c["inheritable"] \cap file.passed)
      fresh == IF AsRoot(file) THEN c["bounding"] \cup c["inheritable"] ELSE attached
  IN IF nnp THEN fresh \cap c["permitted"] ELSE fresh

\* The ambient set survives unless the file itself changes the privileges.
AmbientAfter(c, file) ==
  IF file.kind = "caps" \/ (AsRoot(file) /\ ~root) THEN {} ELSE c["ambient"]

Executed(c, file) ==
  LET ambient == AmbientAfter(c, file)
      permitted == Brought(c, file) \cup ambient
  IN [c EXCEPT !["permitted"] = permitted, !["ambient"] = ambient,
               !["effective"] = IF AsRoot(file) \/ file.kind = "caps"
                                THEN permitted ELSE ambient]

-----------------------------------------------------------------------------
(* apply(). *)

Fail == at' = "failed" /\ UNCHANGED <<keep, cred, root, nnp, entered>>

Proceed(new, next) ==
  cred' = new /\ at' = next /\ UNCHANGED <<keep, root, nnp, entered>>

\* One capset with set s replaced by v: done, or refused by the kernel.
Capset(s, v, next) ==
  LET new == [cred EXCEPT ![s] = v] IN
    IF CapsetAllows(cred, new) THEN Proceed(Settled(new), next) ELSE Fail

(* Mutant: the bounding set is shrunk without a look at CAP_SETPCAP. *)
ClearAmbientUnchecked ==
  /\ at = "ambient"
  /\ Proceed([cred EXCEPT !["ambient"] = {}], "bounding")

\* caps::clear(Ambient) and the check for CAP_SETPCAP.
ClearAmbient ==
  /\ at = "ambient"
  /\ Proceed([cred EXCEPT !["ambient"] = {}],
             IF Setpcap \in cred["effective"] THEN "bounding" ELSE "branch")

\* One turn of the loop over the bounding set, or its end.
DropBounding ==
  /\ at = "bounding"
  /\ \/ \E c \in cred["bounding"] \ keep :
          IF Setpcap \in cred["effective"]
          THEN Proceed([cred EXCEPT !["bounding"] = @ \ {c}], "bounding")
          ELSE Fail
     \/ cred["bounding"] \subseteq keep /\ Proceed(cred, "branch")

\* keep.is_empty() decides between clearing the sets and setting them.
Branch ==
  /\ at = "branch"
  /\ Proceed(cred, IF keep = {} THEN "clear_inheritable" ELSE "set_inheritable")

Clear(here, s, next) == at = here /\ Capset(s, {}, next)

(* Mutant: the inheritable set is forgotten. *)
InheritableForgotten == at = "clear_inheritable" /\ Proceed(cred, "clear_effective")

ClearInheritable == Clear("clear_inheritable", "inheritable", "clear_effective")
ClearEffective == Clear("clear_effective", "effective", "clear_permitted")
ClearPermitted == Clear("clear_permitted", "permitted", "done")

\* set_exactly: drop one by one what is not kept, then raise what is.
SetExactly(here, s, next) ==
  /\ at = here
  /\ \/ \E c \in cred[s] \ keep : Capset(s, cred[s] \ {c}, here)
     \/ /\ cred[s] \subseteq keep
        /\ \E c \in keep \ cred[s] : Capset(s, cred[s] \cup {c}, here)
     \/ cred[s] = keep /\ Proceed(cred, next)

SetInheritable == SetExactly("set_inheritable", "inheritable", "set_permitted")
SetPermitted == SetExactly("set_permitted", "permitted", "set_effective")
SetEffective == SetExactly("set_effective", "effective", "raise_ambient")

\* The last loop: a kept capability becomes ambient if the kernel allows it.
RaiseAmbient ==
  /\ at = "raise_ambient"
  /\ \/ \E c \in keep \ cred["ambient"] :
          IF c \in cred["permitted"] \cap cred["inheritable"]
          THEN Proceed([cred EXCEPT !["ambient"] = @ \cup {c}], "raise_ambient")
          ELSE Fail
     \/ keep \subseteq cred["ambient"] /\ Proceed(cred, "done")

Apply ==
  \/ ClearAmbient \/ DropBounding \/ Branch
  \/ ClearInheritable \/ ClearEffective \/ ClearPermitted
  \/ SetInheritable \/ SetPermitted \/ SetEffective \/ RaiseAmbient

(* Mutant: the latch is not set. *)
LatchForgotten ==
  at = "done" /\ at' = "exec" /\ UNCHANGED <<keep, cred, root, nnp, entered>>

\* The step after apply() in the setup.
SetNoNewPrivs ==
  /\ at = "done"
  /\ nnp' = TRUE /\ at' = "exec" /\ UNCHANGED <<keep, cred, root, entered>>

\* The command is executed, and may execute other files for ever after.
Exec ==
  /\ at \in {"exec", "command"}
  /\ \E f \in Files :
       /\ at = "exec" => f.kind = "plain"
       /\ cred' = Executed(cred, f) /\ root' = AsRoot(f)
  /\ at' = "command" /\ UNCHANGED <<keep, nnp, entered>>

CapInit ==
  /\ keep \in SUBSET Caps
  /\ cred \in [Sets -> SUBSET Caps] /\ WellFormed(cred)
  /\ root \in BOOLEAN
  /\ nnp = FALSE /\ at = "ambient" /\ entered = cred

CapNext == Apply \/ SetNoNewPrivs \/ Exec

CapSpec == CapInit /\ [][CapNext]_cvars

-----------------------------------------------------------------------------
(* Properties. *)

Places ==
  {"ambient", "bounding", "branch", "clear_inheritable", "clear_effective",
   "clear_permitted", "set_inheritable", "set_permitted", "set_effective",
   "raise_ambient", "done", "exec", "command", "failed"}

\* Types; every credential stays one the kernel can hold, and the latch is set
\* when the command is executed.
CapTypeOK ==
  /\ keep \in SUBSET Caps /\ root \in BOOLEAN /\ at \in Places
  /\ cred \in [Sets -> SUBSET Caps] /\ WellFormed(cred)
  /\ entered \in [Sets -> SUBSET Caps] /\ WellFormed(entered)
  /\ nnp <=> at \in {"exec", "command"}

\* apply() returns Ok only when nothing outside the keep-set is left in any set:
\* in the bounding set as far as the caller was able to shrink it, in the others
\* without exception (the promise of caps.rs:28-36).
OnlyKeptSurvive ==
  at \in {"done", "exec"} =>
    /\ \A s \in Sets \ {"bounding"} : cred[s] \subseteq keep
    /\ Setpcap \in entered["effective"] => cred["bounding"] \subseteq keep

\* Nothing that was dropped returns across execve, whatever files the command
\* executes and although the bounding set of a caller without CAP_SETPCAP stays
\* full (the argument of caps.rs:44-54; docs/security-model.md:57).
NothingReturns ==
  at = "command" => \A s \in Sets \ {"bounding"} : cred[s] \subseteq keep

\* A command is started with the kept capabilities in effect, no more, no less.
StartedWithKept ==
  [][at = "exec" /\ at' = "command" => cred'["effective"] = keep]_cvars

\* When apply() works: always for the default profile, which keeps nothing; for
\* a profile that keeps something, only if all that is in effect is kept, for the
\* permitted set is shrunk first, and all that is kept can be made inheritable.
Keepable ==
  keep # {} =>
    /\ entered["effective"] \subseteq keep
    /\ keep \subseteq entered["permitted"]
         \cap (entered["inheritable"] \cup entered["bounding"])

WorksIfKeepable ==
  /\ at = "failed" => ~Keepable
  /\ at \in {"done", "exec", "command"} => Keepable

\* What docs/profiles.md:85 offers: a profile may keep net_bind_service, say, and
\* in a namespace of its own the child has it to keep.
KeepWorksInNamespace == NamespaceRoot(entered) /\ root => at # "failed"
=============================================================================
