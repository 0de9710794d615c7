------------------------------ MODULE WaitTimeout ------------------------------
(***************************************************************************)
(* wait_with_timeout (linux/mod.rs): the main thread blocks in waitpid on  *)
(* the direct child while a killer thread sleeps until the deadline, looks *)
(* once more at the shared `done` flag and then sends SIGKILL to the       *)
(* child's pid number.  The two threads share only `done`; between them    *)
(* stands the kernel, which frees the pid number when the child is reaped  *)
(* and may give it to another process.                                     *)
(*                                                                         *)
(* The module is used on its own (WInit, WSpec); LinuxRun extends it with  *)
(* the rest of the run.                                                    *)
(***************************************************************************)

EXTENDS Naturals

CONSTANTS
  PidReuse,  \* may the kernel hand the freed pid number out again?
  Timeouts,  \* the values of resources.timeout, in clock ticks
  MaxTime    \* bound: the clock stops there, past every deadline

ASSUME PidReuseAssumption == PidReuse \in BOOLEAN
ASSUME TimeAssumption == MaxTime \in Nat /\ Timeouts \subseteq 0..MaxTime

VARIABLES
  proc,      \* the direct child in the process table
  ended,     \* how the child ended: by itself (or by others), or by our SIGKILL
  sigkill,   \* a SIGKILL of ours is pending on, or has ended, the child
  owner,     \* the process the child's pid number names
  stray,     \* our SIGKILL was delivered to a process that is not the child
  waiter,    \* the thread inside wait_with_timeout
  killer,    \* the killer thread
  limit,     \* the timeout of this wait, then the deadline made of it
  now,       \* ticks since the wait began
  doneAt,    \* history: the tick at which `done` was set
  done       \* the AtomicBool shared by the two threads

kernel == <<proc, ended, sigkill, owner, stray>>
timer  == <<waiter, killer, limit, now, doneAt, done>>
wvars  == <<kernel, timer>>

ProcStates   == {"absent", "alive", "zombie", "reaped"}
WaiterStates == {"idle", "blocked", "reaped", "joining", "returned"}
KillerStates == {"off", "starting", "loop", "last_check", "signal", "stood_down", "killed"}

WTypeOK ==
  /\ proc \in ProcStates
  /\ ended \in {"no", "own", "killed"}
  /\ sigkill \in BOOLEAN
  /\ owner \in {"none", "child", "free", "other"}
  /\ stray \in BOOLEAN
  /\ waiter \in WaiterStates
  /\ killer \in KillerStates
  /\ limit \in Nat /\ now \in Nat /\ doneAt \in Nat
  /\ done \in BOOLEAN

NoTimer == /\ waiter = "idle" /\ killer = "off" /\ done = FALSE
           /\ limit = 0 /\ now = 0 /\ doneAt = 0
Fresh   == ended = "no" /\ sigkill = FALSE /\ stray = FALSE

-----------------------------------------------------------------------------
(* The process table. *)

ChildStarts ==
  /\ proc = "absent"
  /\ proc' = "alive" /\ owner' = "child"
  /\ UNCHANGED <<ended, sigkill, stray>>

\* The child exits, or is killed by somebody else.  Once our SIGKILL is
\* pending the kernel delivers it before the child runs again.
ChildExits ==
  /\ proc = "alive" /\ ~sigkill
  /\ proc' = "zombie" /\ ended' = "own"
  /\ UNCHANGED <<sigkill, owner, stray>>

ChildDies ==
  /\ proc = "alive" /\ sigkill
  /\ proc' = "zombie" /\ ended' = "killed"
  /\ UNCHANGED <<sigkill, owner, stray>>

\* waitpid returns: the zombie is gone and its pid number is free.
ReapChild ==
  /\ proc = "zombie"
  /\ proc' = "reaped" /\ owner' = "free"
  /\ UNCHANGED <<ended, sigkill, stray>>

PidRecycled ==
  /\ PidReuse /\ owner = "free"
  /\ owner' = "other"
  /\ UNCHANGED <<proc, ended, sigkill, stray, timer>>

\* kill(pid, SIGKILL): a zombie ignores it, a free pid number is ESRCH.
SendSigkill ==
  /\ sigkill' = (sigkill \/ proc = "alive")
  /\ stray' = (stray \/ owner = "other")
  /\ UNCHANGED <<proc, ended, owner>>

-----------------------------------------------------------------------------
(* The main thread. *)

\* `timeout` is None or Some(t): an empty set or {t}.
StartWait(timeout) ==
  /\ waiter = "idle"
  /\ waiter' = "blocked"
  /\ IF timeout = {} THEN UNCHANGED <<killer, limit>>
                     ELSE killer' = "starting" /\ limit' \in timeout
  /\ UNCHANGED <<kernel, now, doneAt, done>>

WaitReturns ==
  /\ waiter = "blocked"
  /\ ReapChild
  /\ waiter' = IF killer = "off" THEN "returned" ELSE "reaped"
  /\ UNCHANGED <<killer, limit, now, doneAt, done>>

SetDone ==
  /\ waiter = "reaped"
  /\ done' = TRUE /\ doneAt' = now
  /\ waiter' = "joining"
  /\ UNCHANGED <<kernel, killer, limit, now>>

JoinKiller ==
  /\ waiter = "joining" /\ killer \in {"stood_down", "killed"}
  /\ waiter' = "returned"
  /\ UNCHANGED <<kernel, killer, limit, now, doneAt, done>>

-----------------------------------------------------------------------------
(* The killer thread. *)

\* Time passes while the wait lasts.  The bound: the clock stops at MaxTime, and
\* a thread that has not started yet is started in time for its deadline to come
\* before that.
Tick ==
  /\ waiter \notin {"idle", "returned"} /\ now < MaxTime
  /\ killer = "starting" => now + limit < MaxTime
  /\ now' = now + 1
  /\ UNCHANGED <<kernel, waiter, killer, limit, doneAt, done>>

\* Mutant: the deadline is what is left of the timeout.
KillerStartsWithRest ==
  /\ killer = "starting"
  /\ killer' = "loop" /\ limit' = limit - now
  /\ UNCHANGED <<kernel, waiter, now, doneAt, done>>

\* The deadline counts from when the thread runs for the first time.
KillerStarts ==
  /\ killer = "starting"
  /\ killer' = "loop" /\ limit' = now + limit
  /\ UNCHANGED <<kernel, waiter, now, doneAt, done>>

\* Mutant: the loop looks only at the flag, never at the clock.
KillerPollsFlagOnly ==
  /\ killer = "loop" /\ done
  /\ killer' = "stood_down"
  /\ UNCHANGED <<kernel, waiter, limit, now, doneAt, done>>

\* One turn of the 50 ms loop: the clock is read first, the flag second.
KillerPolls ==
  /\ killer = "loop"
  /\ \/ now >= limit /\ killer' = "last_check"
     \/ now < limit /\ done /\ killer' = "stood_down"
  /\ UNCHANGED <<kernel, waiter, limit, now, doneAt, done>>

\* Mutant: no second look at the flag after the deadline.
KillerLastCheckMissing ==
  /\ killer = "last_check"
  /\ killer' = "signal"
  /\ UNCHANGED <<kernel, waiter, limit, now, doneAt, done>>

KillerLastCheck ==
  /\ killer = "last_check"
  /\ killer' = IF done THEN "stood_down" ELSE "signal"
  /\ UNCHANGED <<kernel, waiter, limit, now, doneAt, done>>

\* Mutant: the thread kills and still returns false.
KillerSignalsSilently ==
  /\ killer = "signal"
  /\ SendSigkill
  /\ killer' = "stood_down"
  /\ UNCHANGED <<waiter, limit, now, doneAt, done>>

KillerSignals ==
  /\ killer = "signal"
  /\ SendSigkill
  /\ killer' = "killed"
  /\ UNCHANGED <<waiter, limit, now, doneAt, done>>

-----------------------------------------------------------------------------

Waiting == WaitReturns \/ SetDone \/ JoinKiller
Killing == KillerStarts \/ KillerPolls \/ KillerLastCheck \/ KillerSignals

WInit ==
  /\ proc = "alive" /\ owner = "child"
  /\ Fresh /\ NoTimer

Start == \E timeout \in {{}} \cup {{t} : t \in Timeouts} : StartWait(timeout)

Over == waiter = "returned" /\ UNCHANGED wvars

WNext ==
  \/ Start
  \/ WaitReturns \/ SetDone \/ JoinKiller
  \/ Tick \/ KillerStarts \/ KillerPolls \/ KillerLastCheck \/ KillerSignals
  \/ ChildExits /\ UNCHANGED timer
  \/ ChildDies /\ UNCHANGED timer
  \/ PidRecycled
  \/ Over

\* The two threads are scheduled, time passes and the kernel delivers a
\* pending SIGKILL.  Nothing makes the child exit by itself.
WFairness ==
  /\ WF_wvars(Start)
  /\ WF_wvars(Waiting)
  /\ WF_wvars(Killing)
  /\ WF_wvars(Tick)
  /\ WF_wvars(ChildDies /\ UNCHANGED timer)

WSpec == WInit /\ [][WNext]_wvars /\ WFairness

timed_out == killer = "killed"

-----------------------------------------------------------------------------
(* Properties. *)

\* A child that our SIGKILL ended is never reported as one that ended by
\* itself: if wait_with_timeout says `false`, nothing it did ended the child.
NoUnreportedKill ==
  waiter = "returned" /\ ~timed_out => ended = "own" /\ ~sigkill

\* The function returns only when its killer thread has finished, so no
\* signal can be sent for a run that is over, and only with the child reaped.
NothingLeftBehind ==
  waiter = "returned" => killer \in {"off", "stood_down", "killed"} /\ proc = "reaped"

\* A wait whose `done` flag was stored before the deadline is not reported as
\* timed out, however late the killer thread is scheduled.  It is the store that
\* counts, not the reaping: a main thread that is preempted between waitpid and
\* the store (mod.rs:620-621) until the deadline has passed is reported as timed
\* out though its child was reaped in time.
NoFalseTimeout ==
  waiter = "returned" /\ killer # "off" /\ doneAt < limit => ~timed_out

\* A bounded wait returns, whatever the child does: it exits or it is killed.
BoundedWaitReturns ==
  (waiter = "blocked" /\ killer # "off") ~> (waiter = "returned")

\* "sandboxed process was terminated by the {timeout} timeout" (error.rs:28):
\* when the wait reports a timeout, the timeout is what ended the child.
TimeoutEndedIt ==
  waiter = "returned" /\ timed_out => ended = "killed"
=============================================================================
