--------------------------- MODULE ConnectSupervisor ---------------------------
(***************************************************************************)
(* The allowlist network mode while the command runs                       *)
(* (linux/connect_filter.rs): every connect(2) of a task under the filter  *)
(* stops in the kernel and becomes a notification; the supervisor thread   *)
(* receives it, reads the address out of the caller's memory, checks that  *)
(* the notification is still valid, notes a refusal and answers.  Beside   *)
(* it run() waits for the direct child and folds the refusals noted so far *)
(* into the audit trail.                                                   *)
(*                                                                         *)
(* Notifications are numbered; at any time a task has at most one.  What   *)
(* the kernel does with them (seccomp_unotify(2)) is external code.        *)
(***************************************************************************)
EXTENDS Naturals, Sequences

CONSTANTS
  Tasks,     \* the tasks that carry the filter
  Direct,    \* the one confinery spawned and waits for
  Listed,    \* addresses on the resolved allowlist, or of a family the
             \* supervisor has no opinion on
  Unlisted,  \* the other IPv4 and IPv6 addresses
  MaxCalls   \* bound on the number of connect calls

Addrs == Listed \cup Unlisted

ASSUME TasksAssumption == Direct \in Tasks
ASSUME AddrsAssumption == Listed \cap Unlisted = {}
ASSUME BoundAssumption == MaxCalls \in Nat

VARIABLES
  task,       \* "unborn", "running", "connecting" or "gone", for each task
  memory,     \* the address where its last connect argument points
  call,       \* the number of its pending notification, 0 for none
  calls,      \* history: the caller and the address of each call, by number
  rewritten,  \* history: calls whose address changed while they waited
  received,   \* notifications handed to the supervisor
  wakeups,    \* the kernel's count of notifications to receive
  sup,        \* where the supervisor thread is
  notif,      \* the notification it works on
  decision,   \* what it decided: "allow" or "deny"
  addr,       \* the address it read
  unread,     \* history: calls whose address it could not read
  denied,     \* the shared list of refusals, tagged with the call they answer
  refused,    \* history: calls that returned ECONNREFUSED
  connected,  \* history: addresses connected to, by call
  run,        \* run(): waiting for the child, reaped it, or returned
  audit       \* the refusals in the audit trail

taskVars == <<task, memory, call, calls, rewritten, received, wakeups, refused, connected>>
supVars  == <<sup, notif, decision, addr, unread, denied>>
runVars  == <<run, audit>>
vars     == <<taskVars, supVars, runVars>>

Numbers == 0..MaxCalls
NoCall  == [id |-> 0, task |-> Direct]

TypeOK ==
  /\ task \in [Tasks -> {"unborn", "running", "connecting", "gone"}]
  /\ memory \in [Tasks -> Addrs]
  /\ call \in [Tasks -> Numbers]
  /\ calls \in Seq([task : Tasks, addr : Addrs]) /\ Len(calls) \in Numbers
  /\ rewritten \subseteq Numbers /\ received \subseteq Numbers /\ wakeups \in Numbers
  /\ sup \in {"recv", "read", "check", "record", "reply", "exited"}
  /\ notif \in [id : Numbers, task : Tasks]
  /\ decision \in {"allow", "deny"} /\ addr \in Addrs /\ unread \subseteq Numbers
  /\ denied \subseteq (Numbers \X Addrs)
  /\ refused \subseteq Numbers /\ connected \subseteq (Numbers \X Addrs)
  /\ run \in {"waiting", "reaped", "closed", "over"}
  /\ audit \subseteq (Numbers \X Addrs)

ListenerOpen == sup # "exited"

-----------------------------------------------------------------------------
(* The tasks under the filter, and the kernel. *)

Leave(t, how) ==
  /\ task' = [task EXCEPT ![t] = how]
  /\ call' = [call EXCEPT ![t] = 0]

\* A connect stops at the filter while the listener is open; once it is closed
\* the call fails at once (ENOSYS).
Connect(t, a) ==
  /\ task[t] = "running" /\ ListenerOpen /\ Len(calls) < MaxCalls
  /\ task' = [task EXCEPT ![t] = "connecting"]
  /\ memory' = [memory EXCEPT ![t] = a]
  /\ calls' = Append(calls, [task |-> t, addr |-> a])
  /\ call' = [call EXCEPT ![t] = Len(calls) + 1]
  /\ wakeups' = wakeups + 1
  /\ UNCHANGED <<rewritten, received, refused, connected, supVars, runVars>>

\* A signal takes the caller out of the kernel: its notification disappears,
\* the wakeup it counted for stays.
Interrupt(t) ==
  /\ task[t] = "connecting"
  /\ \E how \in {"running", "gone"} : Leave(t, how)
  /\ UNCHANGED <<memory, calls, rewritten, received, wakeups, refused, connected, supVars, runVars>>

Fork(t, u) ==
  /\ task[t] = "running" /\ task[u] = "unborn"
  /\ task' = [task EXCEPT ![u] = "running"]
  /\ UNCHANGED <<memory, call, calls, rewritten, received, wakeups, refused, connected, supVars, runVars>>

Exit(t) ==
  /\ task[t] = "running"
  /\ Leave(t, "gone")
  /\ UNCHANGED <<memory, calls, rewritten, received, wakeups, refused, connected, supVars, runVars>>

\* Another thread of the caller writes over the argument while it waits.
Rewrite(t, a) ==
  /\ task[t] = "connecting"
  /\ memory' = [memory EXCEPT ![t] = a]
  /\ rewritten' = rewritten \cup {call[t]}
  /\ UNCHANGED <<task, call, calls, received, wakeups, refused, connected, supVars, runVars>>

-----------------------------------------------------------------------------
(* The supervisor thread. *)

Gone == \A t \in Tasks : task[t] \in {"unborn", "gone"}

\* The listener closes with the thread; the callers that wait get ENOSYS.
CloseListener ==
  /\ sup' = "exited"
  /\ task' = [t \in Tasks |-> IF task[t] = "connecting" THEN "running" ELSE task[t]]
  /\ call' = [t \in Tasks |-> 0]

\* NOTIF_RECV waits for a wakeup and then looks for a notification nobody has
\* received yet.
Receive(t) ==
  /\ sup = "recv" /\ wakeups > 0
  /\ call[t] # 0 /\ call[t] \notin received
  /\ wakeups' = wakeups - 1
  /\ notif' = [id |-> call[t], task |-> t]
  /\ received' = received \cup {call[t]}
  /\ sup' = "read"
  /\ UNCHANGED <<task, memory, call, calls, rewritten, refused, connected, decision, addr, unread, denied, runVars>>

\* It fails with ENOENT when the wakeup was for a notification that has
\* disappeared, or when nobody carries the filter any more.  Either way the
\* thread returns.
ReceiveFails ==
  /\ sup = "recv"
  /\ \/ wakeups > 0 /\ \A t \in Tasks : call[t] = 0 \/ call[t] \in received
     \/ Gone
  /\ CloseListener
  /\ UNCHANGED <<memory, calls, rewritten, received, wakeups, refused, connected, notif, decision,
                 addr, unread, denied, runVars>>

Classify(a) == IF a \in Unlisted THEN "deny" ELSE "allow"

\* Mutant: the verdict is on the address read for the call before.
ReadSockaddrStale ==
  /\ sup = "read"
  /\ addr' = memory[notif.task] /\ decision' = Classify(addr)
  /\ sup' = "check"
  /\ UNCHANGED <<taskVars, notif, unread, denied, runVars>>

\* process_vm_readv by pid number: the memory of the caller, or, when the
\* caller is gone, of whoever has its number now.  The read may also fail (the
\* kernel does not let this process look into that one) or return something
\* that does not parse (an IPv6 address of the 24 bytes that are enough for the
\* kernel): then the call is let through.
ReadSockaddr ==
  /\ sup = "read"
  /\ \/ /\ IF task[notif.task] = "gone" THEN addr' \in Addrs ELSE addr' = memory[notif.task]
        /\ decision' = Classify(addr') /\ UNCHANGED unread
     \/ decision' = "allow" /\ unread' = unread \cup {notif.id} /\ UNCHANGED addr
  /\ sup' = "check"
  /\ UNCHANGED <<taskVars, notif, denied, runVars>>

Valid == call[notif.task] = notif.id

\* Mutant: the notification is not checked again after the read.
CheckValidMissing ==
  /\ sup = "check"
  /\ sup' = "record"
  /\ UNCHANGED <<taskVars, notif, decision, addr, unread, denied, runVars>>

CheckValid ==
  /\ sup = "check"
  /\ sup' = IF Valid THEN "record" ELSE "recv"
  /\ UNCHANGED <<taskVars, notif, decision, addr, unread, denied, runVars>>

\* Mutant: the verdict is noted, not the address.
RecordVerdict ==
  /\ sup = "record"
  /\ denied' = IF decision = "deny" THEN denied \cup {<<notif.id, decision>>} ELSE denied
  /\ sup' = "reply"
  /\ UNCHANGED <<taskVars, notif, decision, addr, unread, runVars>>

Record ==
  /\ sup = "record"
  /\ denied' = IF decision = "deny" THEN denied \cup {<<notif.id, addr>>} ELSE denied
  /\ sup' = "reply"
  /\ UNCHANGED <<taskVars, notif, decision, addr, unread, runVars>>

\* Mutant: only refusals are answered.
ReplyRefusalsOnly ==
  /\ sup = "reply"
  /\ IF ~Valid \/ decision = "allow"
       THEN UNCHANGED <<task, call, refused, connected>>
       ELSE /\ Leave(notif.task, "running")
            /\ refused' = refused \cup {notif.id} /\ UNCHANGED connected
  /\ sup' = "recv"
  /\ UNCHANGED <<memory, calls, rewritten, received, wakeups, notif, decision, addr, unread, denied, runVars>>

\* The kernel carries out the answer if its notification is still there; a
\* call that may continue reads its address from memory again.
Reply ==
  /\ sup = "reply"
  /\ IF ~Valid
       THEN UNCHANGED <<task, call, refused, connected>>
       ELSE /\ Leave(notif.task, "running")
            /\ IF decision = "deny"
                 THEN refused' = refused \cup {notif.id} /\ UNCHANGED connected
                 ELSE /\ connected' = connected \cup {<<notif.id, memory[notif.task]>>}
                      /\ UNCHANGED refused
  /\ sup' = "recv"
  /\ UNCHANGED <<memory, calls, rewritten, received, wakeups, notif, decision, addr, unread, denied, runVars>>

-----------------------------------------------------------------------------
(* run(), from its wait on. *)

\* Mutant: the list is read without waiting for the child.
ReapWithoutWaiting ==
  /\ run = "waiting"
  /\ run' = "reaped"
  /\ UNCHANGED <<taskVars, supVars, audit>>

Reap ==
  /\ run = "waiting" /\ task[Direct] = "gone"
  /\ run' = "reaped"
  /\ UNCHANGED <<taskVars, supVars, audit>>

\* A snapshot: the supervisor thread is not joined.
Snapshot ==
  /\ run = "reaped"
  /\ run' = "closed" /\ audit' = denied
  /\ UNCHANGED <<taskVars, supVars>>

\* confinery exits, and the supervisor thread with it.
ProcessExits ==
  /\ run = "closed"
  /\ run' = "over"
  /\ CloseListener
  /\ UNCHANGED <<memory, calls, rewritten, received, wakeups, refused, connected, notif, decision,
                 addr, unread, denied, audit>>

-----------------------------------------------------------------------------

Init ==
  /\ task = [t \in Tasks |-> IF t = Direct THEN "running" ELSE "unborn"]
  /\ \E a \in Addrs : memory = [t \in Tasks |-> a] /\ addr = a
  /\ unread = {}
  /\ call = [t \in Tasks |-> 0] /\ calls = <<>> /\ rewritten = {}
  /\ received = {} /\ wakeups = 0 /\ refused = {} /\ connected = {}
  /\ sup = "recv" /\ notif = NoCall /\ decision = "allow" /\ denied = {}
  /\ run = "waiting" /\ audit = {}

Supervise ==
  \/ \E t \in Tasks : Receive(t)
  \/ ReceiveFails \/ ReadSockaddr \/ CheckValid \/ Record \/ Reply

Run == Reap \/ Snapshot \/ ProcessExits

Task(t) ==
  \/ \E a \in Addrs : Connect(t, a) \/ Rewrite(t, a)
  \/ Interrupt(t) \/ Exit(t)
  \/ \E u \in Tasks : Fork(t, u)

Over == run = "over" /\ Gone /\ UNCHANGED vars

Next == Supervise \/ Run \/ Over \/ \E t \in Tasks : Task(t)

\* confinery's two threads are scheduled; the tasks owe nothing.
Fairness == WF_vars(Supervise) /\ WF_vars(Run)

Spec == Init /\ [][Next]_vars /\ Fairness

-----------------------------------------------------------------------------
(* Properties. *)

\* The verdict a caller gets is the verdict on the address it called with:
\* answers are never taken from the memory of another process, from an earlier
\* call of the same task or from a call that was interrupted.  A call is refused
\* only for an address that is not listed, one that goes through does so to its
\* own address, and to one that is not listed only when that address could not
\* be read: read_sockaddr takes a failed read for an address it has no opinion
\* on.  (A caller whose argument is rewritten while it waits is the exception
\* the module comment of connect_filter.rs names.)
VerdictFitsCall ==
  /\ \A id \in refused \ rewritten : calls[id].addr \in Unlisted /\ id \notin unread
  /\ \A c \in connected : c[1] \notin rewritten => c[2] = calls[c[1]].addr
  /\ \A c \in connected : c[1] \notin rewritten /\ c[2] \in Unlisted => c[1] \in unread

\* An entry of the refusal list is an attempt that was made, to that address.
RefusalsAreGenuine ==
  \A d \in denied :
    d[1] \notin rewritten => d[2] = calls[d[1]].addr /\ d[2] \in Unlisted

\* Whatever the direct child was refused is in the audit trail of the run: a
\* refusal is noted before its caller learns of it, so a child that ends right
\* after it cannot outrun the snapshot.
ChildsRefusalsAudited ==
  run \in {"closed", "over"} =>
    \A id \in refused : calls[id].task = Direct => \E d \in audit : d[1] = id

\* No connect hangs: whatever becomes of the supervisor, the child or
\* confinery itself, a caller that is stopped at the filter gets an answer.
EveryCallReturns ==
  \A t \in Tasks : task[t] = "connecting" ~> task[t] # "connecting"

-----------------------------------------------------------------------------
(* What the comments say and the code does not do. *)

\* "ENOENT (and friends): the notifying task, and everything that inherited
\* its filter, has exited. Nothing left to supervise" (connect_filter.rs:292).
NothingLeftToSupervise == sup = "exited" /\ run = "waiting" => Gone
=============================================================================
