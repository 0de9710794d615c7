---------------------------- MODULE MCMountPlan ----------------------------
(* The plans and hosts TLC explores: a chain of three paths, one path under the
   staging directory, and the directories setup() itself mounts on. *)
EXTENDS MountPlan

A  == <<"a">>
AB == <<"a", "b">>

MCPaths == {A, AB, <<"a", "b", "c">>, STAGE, <<"tmp", "x">>, DEV, PROC}

Bindable == MCPaths \ {STAGE, PROC}

Freshable == MCPaths \ {PROC}

\* How long each of the four lists is: three entries in all, or one in each.
Lengths == {l \in [1..4 -> 0..3] : l[1] + l[2] + l[3] + l[4] <= 3 \/ \A i \in 1..4 : l[i] = 1}

SmallPlans ==
  UNION {[read_only : [1..l[1] -> Bindable], read_write : [1..l[2] -> Bindable],
          tmpfs : [1..l[3] -> Freshable], deny : [1..l[4] -> Freshable],
          minimal_dev : BOOLEAN] : l \in Lengths}

\* The trees the chain can be, the nodes of a, a/b and a/b/c in turn.
Chains ==
  {<<x, "absent", "absent">> : x \in {"absent", "file", "dir"}}
  \cup {<<"dir", x, "absent">> : x \in {"file", "dir"}}
  \cup {<<"dir", "dir", x>> : x \in {"file", "dir"}}

MCHosts == {[p \in MCPaths |-> IF Head(p) = "a" THEN c[Len(p)] ELSE "dir"] : c \in Chains}
=============================================================================
