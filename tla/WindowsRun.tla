----------------------------- MODULE WindowsRun -----------------------------
(* WindowsSandbox::run (windows/mod.rs), the Job Object backend, and the wslc
   backend it hands a profile with a container image to (windows/wslc.rs).

   The parent creates a job, spawns the command, assigns it to the job, waits
   with a deadline, terminates the job if it passes, and answers; the job's
   handle closes on every way out.  The child runs from its spawn on, so also
   before it is a member; what it forks is a member if it was one by then. *)
EXTENDS Naturals, Sequences

CONSTANTS
  Requests,   \* the requests a run may be started with, from AllRequests
  Faults,     \* calls that may fail: "job", "spawn", "assign", "terminate"
  Timeouts,   \* values of resources.timeout, in ticks
  Infinite,   \* INFINITE, which is also u32::MAX, the largest timeout passed
  MaxTime     \* bound: no wait is watched longer

AllRequests ==
  [container : BOOLEAN,    \* windows.container_image is set
   image : BOOLEAN,        \* and is not blank
   available : BOOLEAN,    \* `wslc version` succeeds
   allowed : BOOLEAN,      \* there is a program, and [tools] allows it
   dry : BOOLEAN,
   timeout : {{}} \cup {{t} : t \in Timeouts}]

ASSUME RequestsAssumption == Requests \subseteq AllRequests
ASSUME FaultsAssumption == Faults \subseteq {"job", "spawn", "assign", "terminate"}
ASSUME TimeAssumption ==
  /\ MaxTime \in Nat /\ Timeouts \subseteq 0..MaxTime
  /\ Infinite \in 1..MaxTime

VARIABLES
  req,
  parent,     \* where run() is
  result,     \* what it returned
  events,     \* the lifecycle events in the audit trail
  job,        \* the handle of the job: "none", "open", "closed"
  member,     \* the child was assigned to the job
  child,      \* the command, or the wslc client
  inside,     \* processes it forked as a member of the job
  outside,    \* processes it forked before, and their offspring
  elapsed,    \* the time since the wait began
  endedAt,    \* history: elapsed when the child ended by itself, {} if it did not
  timedOut    \* the local of that name

vars == <<req, parent, result, events, job, member, child, inside, outside,
          elapsed, endedAt, timedOut>>

tree == <<member, child, inside, outside, endedAt>>

-----------------------------------------------------------------------------
(* The job. *)

\* All members of the job are terminated, the child among them or not.
EndMembers ==
  /\ child' = IF member /\ child = "running" THEN "ended" ELSE child
  /\ inside' = IF inside = "live" THEN "ended" ELSE inside
  /\ UNCHANGED <<member, outside, endedAt>>

(* Mutant: the handle is not closed. *)
JobLeaked == UNCHANGED <<job, tree>>

\* Drop of JobObject: KILL_ON_JOB_CLOSE ends the members with the last handle.
DropJob ==
  IF job = "open" THEN job' = "closed" /\ EndMembers ELSE UNCHANGED <<job, tree>>

Return(r) ==
  /\ parent' = "returned" /\ result' = r /\ DropJob
  /\ UNCHANGED <<req, elapsed, timedOut>>

-----------------------------------------------------------------------------
(* The parent. *)

Refuse ==
  /\ parent = "check" /\ UNCHANGED events
  /\ \/ req.container /\ ~req.available /\ Return("unavailable")
     \/ (req.container => req.available) /\ ~req.allowed /\ Return("refused")

Begin ==
  /\ parent = "check" /\ req.allowed /\ (req.container => req.available)
  /\ events' = <<"start">>
  /\ parent' = IF req.container THEN "args" ELSE "job"
  /\ UNCHANGED <<req, result, job, tree, elapsed, timedOut>>

\* build_wslc_args and the layers of the wslc backend.
BuildArgs ==
  /\ parent = "args" /\ UNCHANGED events
  /\ \/ ~req.image /\ Return("setup")
     \/ req.image /\ req.dry /\ Return("planned")
     \/ /\ req.image /\ ~req.dry
        /\ parent' = "spawn" /\ UNCHANGED <<req, result, job, tree, elapsed, timedOut>>

CreateJob ==
  /\ parent = "job" /\ UNCHANGED events
  /\ \/ "job" \in Faults /\ Return("setup")
     \/ /\ job' = "open" /\ parent' = "plan"
        /\ UNCHANGED <<req, result, tree, elapsed, timedOut>>

\* The layers of the Job Object backend; a dry run ends here, and its job with it.
RecordLayers ==
  /\ parent = "plan" /\ UNCHANGED events
  /\ \/ req.dry /\ Return("planned")
     \/ /\ ~req.dry /\ parent' = "spawn"
        /\ UNCHANGED <<req, result, job, tree, elapsed, timedOut>>

Spawn ==
  /\ parent = "spawn" /\ UNCHANGED events
  /\ \/ "spawn" \in Faults /\ Return("spawn")
     \/ /\ child' = "running"
        /\ parent' = IF req.container THEN "wait" ELSE "assign"
        /\ UNCHANGED <<req, result, job, member, inside, outside, endedAt, elapsed, timedOut>>

\* The kernel need not take a process that has ended by now.
Assign ==
  /\ parent = "assign" /\ UNCHANGED events
  /\ \/ ("assign" \in Faults \/ child = "ended") /\ Return("assign")
     \/ /\ member' = TRUE /\ parent' = "wait"
        /\ UNCHANGED <<req, result, job, child, inside, outside, endedAt, elapsed, timedOut>>

(* Mutant: no timeout is a timeout of nothing. *)
MillisDefaultZero ==
  IF req.timeout = {} THEN 0
  ELSE LET t == CHOOSE u \in req.timeout : TRUE IN IF t < Infinite THEN t ELSE Infinite

\* The u32 passed to WaitForSingleObject: clamped, so that a timeout of u32::MAX
\* milliseconds and more is INFINITE.
Millis ==
  IF req.timeout = {} THEN Infinite
  ELSE LET t == CHOOSE u \in req.timeout : TRUE IN IF t < Infinite THEN t ELSE Infinite

Expired == Millis # Infinite /\ elapsed >= Millis

(* Mutant: the wait has no deadline. *)
WaitForever ==
  /\ parent = "wait" /\ ~req.container /\ child = "ended"
  /\ parent' = "reap"
  /\ UNCHANGED <<req, result, events, job, tree, elapsed, timedOut>>

(* Mutant: the verdict is taken from the clock after the wait. *)
WaitByTheClock ==
  /\ parent = "wait" /\ ~req.container /\ (child = "ended" \/ Expired)
  /\ timedOut' = Expired
  /\ parent' = IF Expired THEN "terminate" ELSE "reap"
  /\ UNCHANGED <<req, result, events, job, tree, elapsed>>

\* WaitForSingleObject: an ended child is reported before an expired wait.
WaitForProcess ==
  /\ parent = "wait" /\ ~req.container /\ (child = "ended" \/ Expired)
  /\ timedOut' = (child # "ended")
  /\ parent' = IF child = "ended" THEN "reap" ELSE "terminate"
  /\ UNCHANGED <<req, result, events, job, tree, elapsed>>

\* A TerminateJobObject that fails is ignored, and child.wait() waits for a
\* command that still runs.
Terminate ==
  /\ parent = "terminate" /\ parent' = "reap"
  /\ EndMembers \/ ("terminate" \in Faults /\ UNCHANGED tree)
  /\ UNCHANGED <<req, result, events, job, elapsed, timedOut>>

\* wslc: the killer thread of common::wait_with_timeout, from its last look at the
\* flag on.  It ends the client if that still runs and reports a timeout anyway.
\* The child's handle is open until the thread is joined, so its pid is its own.
KillClient ==
  /\ parent = "wait" /\ req.container /\ ~timedOut
  /\ \E t \in req.timeout : elapsed >= t
  /\ child' = "ended" /\ timedOut' = TRUE
  /\ UNCHANGED <<req, parent, result, events, job, member, inside, outside, elapsed, endedAt>>

(* Mutant: the client is not waited for. *)
ReapedAtOnce == parent = IF req.container THEN "wait" ELSE "reap"

\* child.wait() has returned; in the wslc backend inside wait_with_timeout.
Reaped == child = "ended" /\ parent = IF req.container THEN "wait" ELSE "reap"

(* Mutant: the timeout is not recorded. *)
FinishUnrecorded ==
  /\ Reaped
  /\ events' = Append(events, "exit")
  /\ Return(IF timedOut THEN "timeout" ELSE "report")

\* child.wait() and the end of run().
Finish ==
  /\ Reaped
  /\ events' = events \o (IF timedOut THEN <<"timeout", "exit">> ELSE <<"exit">>)
  /\ Return(IF timedOut THEN "timeout" ELSE "report")

Parent ==
  \/ Refuse \/ Begin \/ BuildArgs \/ CreateJob \/ RecordLayers \/ Spawn \/ Assign
  \/ WaitForProcess \/ Terminate \/ Finish

-----------------------------------------------------------------------------
(* The command and time. *)

ChildEnds ==
  /\ child = "running" /\ child' = "ended" /\ endedAt' = {elapsed}
  /\ UNCHANGED <<req, parent, result, events, job, member, inside, outside, elapsed, timedOut>>

\* A child inherits the membership of its parent; there is no breakaway.
Forks ==
  /\ ~req.container
  /\ \/ child = "running" /\ member /\ inside' = "live" /\ UNCHANGED outside
     \/ (child = "running" /\ ~member) /\ outside' = "live" /\ UNCHANGED inside
  /\ UNCHANGED <<req, parent, result, events, job, member, child, elapsed, endedAt, timedOut>>

OffspringEnds ==
  /\ \/ inside = "live" /\ inside' = "ended" /\ UNCHANGED outside
     \/ outside = "live" /\ outside' = "ended" /\ UNCHANGED inside
  /\ UNCHANGED <<req, parent, result, events, job, member, child, elapsed, endedAt, timedOut>>

Tick ==
  /\ parent = "wait" /\ elapsed < MaxTime
  /\ elapsed' = elapsed + 1
  /\ UNCHANGED <<req, parent, result, events, job, tree, timedOut>>

Command == ChildEnds \/ Forks \/ OffspringEnds

Over == parent = "returned" /\ UNCHANGED vars

Init ==
  /\ req \in Requests
  /\ parent = "check" /\ result = "none" /\ events = <<>>
  /\ job = "none" /\ member = FALSE
  /\ child = "none" /\ inside = "none" /\ outside = "none"
  /\ elapsed = 0 /\ endedAt = {} /\ timedOut = FALSE

Next == Parent \/ KillClient \/ Command \/ Tick \/ Over

\* The threads of confinery run, and time passes; the command need not do anything.
Fairness == WF_vars(Parent) /\ WF_vars(KillClient) /\ WF_vars(Tick)

Spec == Init /\ [][Next]_vars /\ Fairness

-----------------------------------------------------------------------------
(* Properties. *)

ParentStates ==
  {"check", "args", "job", "plan", "spawn", "assign", "wait", "terminate", "reap", "returned"}

Answers ==
  {"unavailable", "refused", "setup", "planned", "spawn", "assign", "timeout", "report"}

\* Types; a wait that was given no timeout does not time out.
TypeOK ==
  /\ req \in Requests /\ parent \in ParentStates /\ result \in Answers \cup {"none"}
  /\ events \in Seq({"start", "timeout", "exit"})
  /\ job \in {"none", "open", "closed"} /\ member \in BOOLEAN
  /\ child \in {"none", "running", "ended"}
  /\ inside \in {"none", "live", "ended"} /\ outside \in {"none", "live", "ended"}
  /\ elapsed \in 0..MaxTime /\ endedAt \in {{}} \cup {{t} : t \in 0..MaxTime}
  /\ timedOut \in BOOLEAN /\ (timedOut => req.timeout # {})

\* Whichever way run() goes, it leaves no member of its job behind
\* (KILL_ON_JOB_CLOSE, windows/mod.rs:219-220 and 273-277).
JobEndsWithRun ==
  parent = "returned" =>
    job # "open" /\ inside # "live" /\ (member => child # "running")

\* What JobEndsWithRun leaves open for the child itself: it outlives run() in one
\* case only, when it could not be assigned.
OnlyUnassignedSurvives ==
  parent = "returned" /\ child = "running" => result = "assign" /\ ~member

\* A run that answers with a timeout has a command that did not end before the
\* timeout; unlike the Linux wait, nothing the scheduler does makes it otherwise.
TimeoutIsGenuine ==
  result = "timeout" /\ ~req.container =>
    \A t \in req.timeout, e \in endedAt : e >= t

\* The trail agrees with the answer on every way out.
TrailTellsOutcome ==
  parent = "returned" =>
    events = CASE result \in {"unavailable", "refused"} -> <<>>
               [] result = "timeout" -> <<"start", "timeout", "exit">>
               [] result = "report"  -> <<"start", "exit">>
               [] OTHER              -> <<"start">>

\* A run with a timeout returns, whatever the command does, as long as the clamp
\* has not made its timeout INFINITE.  The one place where it can stick is
\* child.wait() on a command that TerminateJobObject failed to end.
StuckOnWait == parent = "reap" /\ timedOut /\ child = "running"

TimeoutsHonoured ==
  (\E t \in req.timeout : req.container \/ t < Infinite) =>
    <>(parent = "returned" \/ StuckOnWait)

-----------------------------------------------------------------------------
(* What the documentation says and the code does not do. *)

\* "guarantee the whole process tree is terminated together" (windows/mod.rs:3-4),
\* "whole-tree termination on exit" (docs/platform-support.md:41): when run()
\* returns nothing of the command is left.  But the command runs before it is a
\* member of the job: what it forked by then, and the command itself when the
\* assignment fails, outlive run().
TreeEndsWithRun ==
  parent = "returned" /\ ~req.container =>
    child # "running" /\ inside # "live" /\ outside # "live"
=============================================================================
