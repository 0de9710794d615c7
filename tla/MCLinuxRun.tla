------------------------------ MODULE MCLinuxRun ------------------------------
(* The requests the runs of LinuxRun explore. *)
EXTENDS LinuxRun

\* Two requests that run() treats alike need not both be explored: the network
\* modes none and loopback both ask for a network namespace, netns matters only
\* to an isolated run that wants one, and a dry run stops before the timeout,
\* the cgroup and the child.
Distinct(r) ==
  /\ r.mode # "loopback"
  /\ r.netns => r.isolate /\ r.mode = "none"
  /\ r.dry => r.timeout = {} /\ ~r.limits

EveryRequest == {r \in AllRequests : Distinct(r)}

AllowlistRequests == {r \in EveryRequest : r.mode = "allowlist" /\ ~r.dry}
=============================================================================
