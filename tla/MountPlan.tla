----------------------------- MODULE MountPlan -----------------------------
(* MountPlan::setup (linux/mounts.rs): the new root of a sandbox, mount by mount,
   and LandlockPlan::from_policy (linux/landlock.rs) over the same lists.

   A path is the sequence of its names, <<>> the root.  What a path names is
   decided by the last mount at or above it: a mount hides what was there before,
   earlier and deeper mounts included.  Bind mounts show the host; the other
   mounts hold the nodes `made` in them.  The host is what the caller can reach
   of it: a path it cannot look up is absent.  Symbolic links, the lists "/" and
   "/tmp" themselves as sources, and what lies below /dev are left out. *)
EXTENDS Naturals, SequencesExt

CONSTANTS
  Paths,   \* the paths that matter, with all their ancestors but the root
  Plans,   \* the plans to set up, from AllPlans
  Hosts    \* the host file systems, from AllHosts

STAGE == <<"tmp">>
DEV   == <<"dev">>
PROC  == <<"proc">>

AllPlans ==
  [read_only  : Seq(Paths \ {STAGE}),
   read_write : Seq(Paths \ {STAGE}),
   tmpfs      : Seq(Paths),
   deny       : Seq(Paths),
   minimal_dev : BOOLEAN]

\* Every node hangs off a directory.
IsTree(h) == \A p \in Paths :
  h[p] # "absent" => \A q \in Prefixes(p) \ {<<>>, p} : h[q] = "dir"

AllHosts ==
  {h \in [Paths -> {"absent", "dir", "file"}] :
     IsTree(h) /\ h[STAGE] = "dir" /\ h[DEV] = "dir" /\ h[PROC] = "dir"}

ASSUME PathsAssumption ==
  /\ Paths \subseteq Seq(STRING) /\ {STAGE, DEV, PROC} \subseteq Paths
  /\ \A p \in Paths : p # <<>> /\ Prefixes(p) \ {<<>>} \subseteq Paths
  /\ \A p \in Paths : ~IsStrictPrefix(DEV, p)

\* A path can be both read_only and read_write: validate_filesystem refuses two
\* equal entries, but compares them as written, before they are expanded.
ASSUME PlansAssumption == Plans \subseteq AllPlans

ASSUME HostsAssumption == Hosts \subseteq AllHosts

VARIABLES
  plan,    \* the plan
  given,   \* history: the host file system before setup()
  host,    \* the host file system: as given, with "emptied" files
  mounts,  \* the mounts of the new root, in the order they were made
  made,    \* the nodes setup() made in mounts that are not bind mounts
  todo,    \* the steps ahead
  status   \* "setup", "ready", "failed"

vars == <<plan, given, host, mounts, made, todo, status>>

-----------------------------------------------------------------------------
(* What a path names under the mounts so far. *)

Top(p) == Max({i \in DOMAIN mounts : IsPrefix(mounts[i].at, p)})

Governing(p) == mounts[Top(p)]

NodeOnHost(p) == IF host[p] = "emptied" THEN "file" ELSE host[p]

NodeMade(p) ==
  LET here == {n \in made : n.on = Top(p) /\ n.at = p}
  IN  IF here = {} THEN "absent" ELSE (CHOOSE n \in here : TRUE).node

Node(p) ==
  CASE p = Governing(p).at        -> Governing(p).node
    [] p # Governing(p).at /\ Governing(p).kind = "bind" -> NodeOnHost(p)
    [] OTHER                      -> NodeMade(p)

\* What `path` names on the host once the staging tmpfs covers /tmp.
Source(p) == IF IsStrictPrefix(STAGE, p) THEN "absent" ELSE NodeOnHost(p)

-----------------------------------------------------------------------------
(* The calls setup() makes. *)

(* Mutant: the last component only. *)
MissingLast(p) == {q \in {p} : Node(q) = "absent"}

\* The nodes create_dir_all has to make; they all lie in the mount on top.
Missing(p) == {q \in Prefixes(p) : Node(q) = "absent"}

\* create_dir_all fails at a file, and where a directory cannot be made.
NoDir(p) ==
  \/ \E q \in Prefixes(p) : Node(q) = "file"
  \/ Node(p) = "absent" /\ Governing(p).ro

\* File::create, whose error is ignored, leaves nothing to mount a file on.
NoFile(p) ==
  NoDir(Front(p)) \/ Node(p) = "dir" \/ (Node(p) = "absent" /\ Governing(p).ro)

\* On a bind mount a path that is not there may be one the caller must not look
\* up or make (EACCES).
Refusable(p) == Node(p) = "absent" /\ Governing(p).kind = "bind"

\* A file that is there already, on a writable bind mount, is truncated.
Truncated(p) ==
  IF Node(p) = "file" /\ Governing(p).kind = "bind" /\ ~Governing(p).ro
  THEN {p} ELSE {}

\* The nodes of `new` come to be in the mount p lies in: on the host, if it is a
\* bind mount.
Create(p, new) ==
  IF Governing(p).kind = "bind"
  THEN /\ host' = [q \in Paths |-> IF q \in DOMAIN new THEN new[q] ELSE host[q]]
       /\ UNCHANGED made
  ELSE /\ made' = made \cup
            {[on |-> Top(p), at |-> q, node |-> new[q]] : q \in DOMAIN new}
       /\ UNCHANGED host

MakeDirs(p) == Create(p, [q \in Missing(p) |-> "dir"])

MakeFile(p) ==
  Create(p, [q \in Missing(p) \cup Truncated(p) |->
               IF q # p THEN "dir" ELSE IF Node(p) = "absent" THEN "file" ELSE "emptied"])

Mount(p, kind, ro, node) ==
  mounts' = Append(mounts, [at |-> p, kind |-> kind, ro |-> ro, node |-> node])

-----------------------------------------------------------------------------
(* setup(), step by step. *)

Each(op, list) == [i \in DOMAIN list |-> [op |-> op, at |-> list[i]]]

Dev(pl) == IF pl.minimal_dev THEN <<[op |-> "dev", at |-> DEV]>> ELSE <<>>

(* Mutant: the writable paths are bound first. *)
StepsWritableFirst(pl) ==
  Each("read_write", pl.read_write) \o Each("read_only", pl.read_only)
  \o Each("tmpfs", pl.tmpfs) \o Dev(pl)
  \o <<[op |-> "proc", at |-> PROC]>> \o Each("deny", pl.deny)

(* Mutant: the denied paths are masked before anything is mounted. *)
StepsDenyFirst(pl) ==
  Each("deny", pl.deny)
  \o Each("read_only", pl.read_only) \o Each("read_write", pl.read_write)
  \o Each("tmpfs", pl.tmpfs) \o Dev(pl) \o <<[op |-> "proc", at |-> PROC]>>

Steps(pl) ==
  Each("read_only", pl.read_only) \o Each("read_write", pl.read_write)
  \o Each("tmpfs", pl.tmpfs) \o Dev(pl)
  \o <<[op |-> "proc", at |-> PROC]>> \o Each("deny", pl.deny)

Doing(ops, p) ==
  status = "setup" /\ todo # <<>> /\ Head(todo).op \in ops /\ Head(todo).at = p

Advance == todo' = Tail(todo) /\ UNCHANGED <<plan, given, status>>

Fail == status' = "failed" /\ UNCHANGED <<plan, given, host, mounts, made, todo>>

(* Mutant: an absent source is an error. *)
BindUnchecked(p) ==
  /\ Doing({"read_only", "read_write"}, p)
  /\ LET ro == Head(todo).op = "read_only"
     IN  \/ Source(p) = "absent" /\ Fail
         \/ /\ Source(p) = "dir"
            /\ IF NoDir(p) THEN Fail ELSE MakeDirs(p) /\ Mount(p, "bind", ro, "dir") /\ Advance
         \/ /\ Source(p) = "file"
            /\ IF NoFile(p) THEN Fail ELSE MakeFile(p) /\ Mount(p, "bind", ro, "file") /\ Advance

\* bind_path and remount_readonly.
Bind(p) ==
  /\ Doing({"read_only", "read_write"}, p)
  /\ LET ro == Head(todo).op = "read_only"
     IN  \/ Source(p) = "absent" /\ Advance /\ UNCHANGED <<host, mounts, made>>
         \/ /\ Source(p) = "dir"
            /\ IF NoDir(p) THEN Fail ELSE MakeDirs(p) /\ Mount(p, "bind", ro, "dir") /\ Advance
         \/ /\ Source(p) = "file"
            /\ IF NoFile(p) THEN Fail ELSE MakeFile(p) /\ Mount(p, "bind", ro, "file") /\ Advance

FreshTmpfs(p) ==
  \/ (NoDir(p) \/ Refusable(p)) /\ Fail
  \/ ~NoDir(p) /\ MakeDirs(p) /\ Mount(p, "tmpfs", FALSE, "dir") /\ Advance

Tmpfs(p) == Doing({"tmpfs"}, p) /\ FreshTmpfs(p)

\* setup_dev; what it puts into its tmpfs, best effort, lies below /dev: the bind
\* mounts of six device nodes, four links and a tmpfs at /dev/shm.
SetupDev == Doing({"dev"}, DEV) /\ FreshTmpfs(DEV)

\* setup_proc: a new procfs, else the host's, else neither.
SetupProc ==
  /\ Doing({"proc"}, PROC)
  /\ \/ NoDir(PROC) /\ Fail
     \/ ~NoDir(PROC) /\ MakeDirs(PROC) /\ Advance
        /\ (Mount(PROC, "proc", FALSE, "dir") \/ UNCHANGED mounts)

BelowFile(p) == \E q \in Prefixes(p) : Node(q) = "file"

\* mask_path: a directory gets a read-only tmpfs, a file a plain bind mount of
\* /dev/null, if the host has one.  NotFound is nothing to mask; the other errors
\* are, ENOTDIR beneath a file among them.
Mask(p) ==
  /\ Doing({"deny"}, p)
  /\ \/ /\ Node(p) # "absent"
        /\ Mount(p, "mask", Node(p) = "dir", Node(p)) /\ Advance /\ UNCHANGED <<host, made>>
     \/ Node(p) = "absent" /\ ~BelowFile(p) /\ Advance /\ UNCHANGED <<host, mounts, made>>
     \/ (BelowFile(p) \/ Refusable(p)) /\ Fail

Pivot ==
  /\ status = "setup" /\ todo = <<>> /\ status' = "ready"
  /\ UNCHANGED <<plan, given, host, mounts, made, todo>>

Over == status # "setup" /\ UNCHANGED vars

\* The new root is an empty tmpfs.
Init ==
  /\ plan \in Plans /\ given \in Hosts /\ host = given
  /\ mounts = <<[at |-> <<>>, kind |-> "root", ro |-> FALSE, node |-> "dir"]>>
  /\ made = {} /\ todo = Steps(plan) /\ status = "setup"

Next ==
  \/ \E p \in Paths : Bind(p) \/ Tmpfs(p) \/ Mask(p)
  \/ SetupDev \/ SetupProc \/ Pivot \/ Over

Spec == Init /\ [][Next]_vars

-----------------------------------------------------------------------------
(* Landlock, applied over the new root by the paths of the same lists. *)

Under(p, list) == \E i \in DOMAIN list : IsPrefix(list[i], p)

\* A rule holds beneath its path, if the path exists when the rule is added.
Rule(p, paths) == \E e \in paths : IsPrefix(e, p) /\ Node(e) # "absent"

(* Mutant: the read-only rules grant everything. *)
WriteRulesAll(pl) ==
  ToSet(pl.read_only) \cup ToSet(pl.read_write) \cup ToSet(pl.tmpfs)
  \cup (IF pl.minimal_dev THEN {DEV} ELSE {})

WriteRules(pl) ==
  ToSet(pl.read_write) \cup ToSet(pl.tmpfs) \cup (IF pl.minimal_dev THEN {DEV} ELSE {})

\* /sys, which is listed too, is not mounted.
ReadRules(pl) == ToSet(pl.read_only) \cup {PROC} \cup WriteRules(pl)

-----------------------------------------------------------------------------
(* Properties. *)

Kinds == {"root", "bind", "tmpfs", "proc", "mask"}

\* Types; the host stays a tree, and so is what setup() makes in each mount.
MountTypeOK ==
  /\ plan \in AllPlans /\ given \in Hosts
  /\ host \in [Paths -> {"absent", "dir", "file", "emptied"}] /\ IsTree(host)
  /\ \A i \in DOMAIN mounts :
       /\ mounts[i].at \in Paths \cup {<<>>} /\ mounts[i].kind \in Kinds
       /\ mounts[i].ro \in BOOLEAN /\ mounts[i].node \in {"dir", "file"}
  /\ \A n \in made :
       /\ n.on \in DOMAIN mounts /\ mounts[n.on].kind \in {"root", "tmpfs"}
       /\ n.at \in Paths /\ n.node \in {"dir", "file"}
       /\ \/ Front(n.at) = mounts[n.on].at
          \/ [on |-> n.on, at |-> Front(n.at), node |-> "dir"] \in made
  /\ status \in {"setup", "ready", "failed"}

ShowsHost(p) == Node(p) # "absent" /\ Governing(p).kind = "bind"

Writable(p) == ~Governing(p).ro

\* A denied path shows nothing of the host, whatever else lists it, its parents
\* or its children ("masked even if a parent is allowed", docs/profiles.md:29).
\* What is left of it is the mask itself: an empty directory nobody can write to,
\* or /dev/null in the place of a file.
DenyWins ==
  status = "ready" =>
    \A p \in Paths : Under(p, plan.deny) =>
      /\ ~ShowsHost(p)
      /\ Node(p) # "absent" => Governing(p).at = p /\ (Writable(p) => Node(p) = "file")

Hidden(p) ==
  \/ Under(p, plan.deny) \/ Under(p, plan.tmpfs) \/ IsPrefix(PROC, p)
  \/ (plan.minimal_dev /\ IsPrefix(DEV, p)) \/ IsStrictPrefix(STAGE, p)

\* The deepest entries of the lists above p are read_write ones.
WritableLast(p) ==
  \E i \in DOMAIN plan.read_write :
    /\ IsPrefix(plan.read_write[i], p)
    /\ \A j \in DOMAIN plan.read_only :
         IsPrefix(plan.read_only[j], p) => IsStrictPrefix(plan.read_only[j], plan.read_write[i])

\* Outside /proc and what lies below /dev, the command sees of the host what
\* read_only and read_write list, and nothing else.  It may write only where a
\* read_write entry lies at or above, and may write there unless a read_only entry
\* lies between (ReadOnlyHolds is about that case).
AccessAsListed ==
  status = "ready" =>
    \A p \in Paths \ {q \in Paths : IsPrefix(PROC, q)} :
      /\ ShowsHost(p) <=>
           /\ host[p] # "absent" /\ ~Hidden(p)
           /\ Under(p, plan.read_only \o plan.read_write)
      /\ ShowsHost(p) /\ Writable(p) => Under(p, plan.read_write)
      /\ ShowsHost(p) /\ WritableLast(p) => Writable(p)

\* The two layers agree: what is mounted may be read under Landlock, and what is
\* mounted writable, and only that, may be written under it.
LayersAgree ==
  status = "ready" =>
    \A p \in Paths : Node(p) # "absent" /\ Governing(p).kind \in {"bind", "tmpfs"} =>
      Rule(p, ReadRules(plan)) /\ (Writable(p) <=> Rule(p, WriteRules(plan)))

\* Setup fails at the tmpfs and deny entries alone: at one that is a listed file
\* or lies beneath one, and at one that is not on the host but lies beneath a
\* listed path, where the mount point cannot be made or the path not looked up.
\* Listing paths to bind never fails.  (That a denied path beneath a file fails is
\* not what the comment at mounts.rs:221-222 says of a path that does not exist.)
OnlyFreshMountsFail ==
  status = "failed" =>
    LET s == Head(todo) IN
      /\ s.op \in {"tmpfs", "deny"}
      /\ \/ \E q \in Prefixes(s.at) \ {<<>>} :
              given[q] = "file" /\ Under(q, plan.read_only \o plan.read_write)
         \/ given[s.at] = "absent" /\ Under(s.at, plan.read_only \o plan.read_write)

\* Before the command has run, setup() changes the host in two ways only: a file
\* listed after a path above it in read_write is emptied, and the mount point of a
\* tmpfs is made in a directory that is read_write.  No read-only file is touched.
HostChangesNamed ==
  \A p \in Paths : host[p] # given[p] =>
    \/ /\ host[p] = "emptied"
       /\ \E i, j \in DOMAIN plan.read_write :
            i < j /\ plan.read_write[j] = p /\ IsPrefix(plan.read_write[i], p)
    \/ /\ given[p] = "absent" /\ host[p] = "dir"
       /\ \E i \in DOMAIN plan.tmpfs : IsPrefix(p, plan.tmpfs[i])
       /\ Under(Front(p), plan.read_write)

-----------------------------------------------------------------------------
(* What the documentation says and the code does not do. *)

\* read_only: "visible, not writable" (docs/profiles.md:26), and a failure to
\* enforce it "must abort the run rather than leave the path silently writable"
\* (mounts.rs:153-155): a path that a read_only entry is the deepest entry of, the
\* read_write ones all lying above that entry, is not writable.
ReadOnlyHolds ==
  status = "ready" =>
    \A p \in Paths, j \in DOMAIN plan.read_only :
      /\ ShowsHost(p) /\ IsPrefix(plan.read_only[j], p)
      /\ \A i \in DOMAIN plan.read_write :
           IsPrefix(plan.read_write[i], p) => IsStrictPrefix(plan.read_write[i], plan.read_only[j])
      => ~Writable(p)
=============================================================================
