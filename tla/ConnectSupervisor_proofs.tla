------------------------ MODULE ConnectSupervisor_proofs ------------------------
(***************************************************************************)
(* Proofs about the connect supervisor, for any tasks, any addresses and   *)
(* any number of calls.  A notification is valid while its call is         *)
(* pending, and a number is never used twice: what the supervisor read for *)
(* a call that is still valid is the argument of that very call.           *)
(***************************************************************************)
EXTENDS ConnectSupervisor, TLAPS

TypeInv == TypeOK /\ wakeups <= Len(calls)

\* Every variable keeps its type; no more wakeups are owed than calls were made.
LEMMA TypeInvariant == Spec => []TypeInv
<1> USE BoundAssumption, TasksAssumption DEF Numbers, Addrs
<1>1. Init => TypeInv
  BY DEF Init, TypeInv, TypeOK, NoCall
<1>2. TypeInv /\ [Next]_vars => TypeInv'
  <2> SUFFICES ASSUME TypeInv, [Next]_vars PROVE TypeInv'
    OBVIOUS
  <2> USE DEF TypeInv, TypeOK
  <2>1. ASSUME NEW t \in Tasks, NEW a \in Addrs, Connect(t, a) PROVE TypeInv'
    <3>1. /\ calls' \in Seq([task : Tasks, addr : Addrs])
          /\ Len(calls') = Len(calls) + 1 /\ Len(calls) + 1 \in 0..MaxCalls
      BY <2>1 DEF Connect
    <3> QED
      BY <2>1, <3>1 DEF Connect, supVars, runVars
  <2>2. ASSUME NEW t \in Tasks, NEW a \in Addrs, Rewrite(t, a) PROVE TypeInv'
    <3>1. memory' \in [Tasks -> Addrs] /\ rewritten' \subseteq Numbers
      BY <2>2 DEF Rewrite
    <3> QED
      BY <2>2, <3>1 DEF Rewrite, supVars, runVars
  <2>3. ASSUME NEW t \in Tasks, Interrupt(t) \/ Exit(t) PROVE TypeInv'
    <3>1. PICK how \in {"running", "gone"} : Leave(t, how)
      BY <2>3 DEF Interrupt, Exit
    <3>2. /\ task' \in [Tasks -> {"unborn", "running", "connecting", "gone"}]
          /\ call' \in [Tasks -> Numbers]
      BY <3>1 DEF Leave
    <3>3. UNCHANGED <<memory, calls, rewritten, received, wakeups, refused, connected, supVars, runVars>>
      BY <2>3 DEF Interrupt, Exit
    <3> QED
      BY <3>2, <3>3 DEF supVars, runVars
  <2>4. ASSUME NEW t \in Tasks, NEW u \in Tasks, Fork(t, u) PROVE TypeInv'
    <3>1. task' \in [Tasks -> {"unborn", "running", "connecting", "gone"}]
      BY <2>4 DEF Fork
    <3> QED
      BY <2>4, <3>1 DEF Fork, supVars, runVars
  <2>5. ASSUME NEW t \in Tasks, Receive(t) PROVE TypeInv'
    <3>1. wakeups' \in Numbers /\ wakeups' <= Len(calls)
      <4>1. wakeups' = wakeups - 1 /\ wakeups > 0
        BY <2>5 DEF Receive
      <4>2. wakeups \in 0..MaxCalls /\ wakeups <= Len(calls) /\ Len(calls) \in 0..MaxCalls
        OBVIOUS
      <4> QED
        BY <4>1, <4>2
    <3>2. sup' = "read" /\ notif' = [id |-> call[t], task |-> t]
          /\ received' = received \cup {call[t]}
      BY <2>5 DEF Receive
    <3>3. call[t] \in Numbers
      OBVIOUS
    <3>4. received' \subseteq Numbers /\ notif' \in [id : Numbers, task : Tasks]
      BY <3>2, <3>3
    <3>5. UNCHANGED <<task, memory, call, calls, rewritten, refused, connected, decision, addr,
                      unread, denied, runVars>>
      BY <2>5 DEF Receive
    <3> QED
      BY <3>1, <3>2, <3>4, <3>5 DEF runVars
  <2>6. CASE ReceiveFails
    BY <2>6 DEF ReceiveFails, CloseListener, runVars
  <2>7. CASE ReadSockaddr
    <3>1. sup' = "check" /\ UNCHANGED <<taskVars, notif, denied, runVars>>
      BY <2>7 DEF ReadSockaddr
    <3>2. addr' \in Addrs /\ decision' \in {"allow", "deny"} /\ unread' \subseteq Numbers
      BY <2>7 DEF ReadSockaddr, Classify
    <3> QED
      BY <3>1, <3>2 DEF taskVars, runVars
  <2>8. CASE CheckValid \/ Record
    <3>1. /\ UNCHANGED <<taskVars, notif, decision, addr, unread, runVars>>
          /\ sup' \in {"recv", "record", "reply"}
      BY <2>8 DEF CheckValid, Record
    <3>2. denied' \subseteq (Numbers \X Addrs)
      BY <2>8 DEF CheckValid, Record
    <3> QED
      BY <3>1, <3>2 DEF taskVars, runVars
  <2>9. CASE Reply
    <3>1. notif.id \in Numbers /\ notif.task \in Tasks /\ memory[notif.task] \in Addrs
      OBVIOUS
    <3>2. /\ task' \in [Tasks -> {"unborn", "running", "connecting", "gone"}]
          /\ call' \in [Tasks -> Numbers]
      <4> HIDE DEF TypeInv, TypeOK
      <4>1. UNCHANGED <<task, call>> \/ Leave(notif.task, "running")
        BY <2>9 DEF Reply
      <4>2. /\ task \in [Tasks -> {"unborn", "running", "connecting", "gone"}]
            /\ call \in [Tasks -> Numbers]
        BY DEF TypeInv, TypeOK
      <4> QED
        BY <4>1, <4>2 DEF Leave
    <3>3. refused' \subseteq Numbers /\ connected' \subseteq (Numbers \X Addrs)
      <4> HIDE DEF Numbers, Addrs
      <4> QED
        BY <2>9, <3>1 DEF Reply
    <3>4. /\ sup' = "recv"
          /\ UNCHANGED <<memory, calls, rewritten, received, wakeups, notif, decision, addr,
                         unread, denied, runVars>>
      BY <2>9 DEF Reply
    <3> QED
      BY <3>2, <3>3, <3>4 DEF runVars
  <2>10. CASE Reap \/ Snapshot
    BY <2>10 DEF Reap, Snapshot, taskVars, supVars
  <2>11. CASE ProcessExits
    BY <2>11 DEF ProcessExits, CloseListener
  <2>12. CASE UNCHANGED vars
    BY <2>12 DEF vars, taskVars, supVars, runVars
  <2> QED
    BY <2>1, <2>2, <2>3, <2>4, <2>5, <2>6, <2>7, <2>8, <2>9, <2>10, <2>11, <2>12
       DEF Next, Supervise, Run, Over, Task
<1> QED
  BY <1>1, <1>2, PTL DEF Spec

\* Every variable of the supervisor, the tasks and run() keeps its type.
THEOREM SupervisorTypeCorrect == Spec => []TypeOK
<1>1. TypeInv => TypeOK
  BY DEF TypeInv
<1> QED
  BY <1>1, TypeInvariant, PTL
-----------------------------------------------------------------------------
(* The kernel's pending calls. *)

Made(id) == id \in 1..Len(calls)

CallInv ==
  \A t \in Tasks : call[t] # 0 =>
    /\ task[t] = "connecting"
    /\ Made(call[t]) /\ calls[call[t]].task = t
    /\ call[t] \notin rewritten => memory[t] = calls[call[t]].addr

\* Appending a call leaves those made before as they are.
LEMMA EarlierCalls ==
  ASSUME TypeInv, NEW t \in Tasks, NEW a \in Addrs, Connect(t, a)
  PROVE  /\ Len(calls') = Len(calls) + 1 /\ Len(calls) \in Nat
         /\ calls'[Len(calls) + 1] = [task |-> t, addr |-> a]
         /\ \A id \in 1..Len(calls) : calls'[id] = calls[id] /\ id \in 1..Len(calls')
BY DEF Connect, TypeInv, TypeOK

\* A pending call has a number of its own, and its argument is in its caller's
\* memory unless it was rewritten.
LEMMA CallInvariant == Spec => []CallInv
<1>1. Init => CallInv
  BY DEF Init, CallInv
<1>2. TypeInv /\ CallInv /\ [Next]_vars => CallInv'
  <2> SUFFICES ASSUME TypeInv, CallInv, [Next]_vars PROVE CallInv'
    OBVIOUS
  <2> USE DEF TypeInv, TypeOK, CallInv, Made
  <2>1. ASSUME NEW t \in Tasks, NEW a \in Addrs, Connect(t, a) PROVE CallInv'
    <3>1. \A u \in Tasks \ {t} : call'[u] = call[u] /\ memory'[u] = memory[u] /\ task'[u] = task[u]
      BY <2>1 DEF Connect
    <3>2. call'[t] = Len(calls) + 1 /\ memory'[t] = a /\ task'[t] = "connecting"
      BY <2>1 DEF Connect
    <3>3. rewritten' = rewritten
      BY <2>1 DEF Connect
    <3>4. /\ Len(calls') = Len(calls) + 1 /\ Len(calls) \in Nat
          /\ calls'[Len(calls) + 1] = [task |-> t, addr |-> a]
          /\ \A id \in 1..Len(calls) : calls'[id] = calls[id] /\ id \in 1..Len(calls')
      BY <2>1, EarlierCalls
    <3> HIDE DEF TypeInv, TypeOK
    <3> QED
      BY <3>1, <3>2, <3>3, <3>4
  <2>2. ASSUME NEW t \in Tasks, NEW a \in Addrs, Rewrite(t, a) PROVE CallInv'
    BY <2>2 DEF Rewrite
  <2>3. ASSUME NEW t \in Tasks, Interrupt(t) \/ Exit(t) PROVE CallInv'
    BY <2>3 DEF Interrupt, Exit, Leave
  <2>4. ASSUME NEW t \in Tasks, NEW u \in Tasks, Fork(t, u) PROVE CallInv'
    BY <2>4 DEF Fork
  <2>5. ASSUME NEW t \in Tasks, Receive(t) PROVE CallInv'
    BY <2>5 DEF Receive
  <2>6. CASE ReceiveFails \/ ProcessExits
    BY <2>6 DEF ReceiveFails, ProcessExits, CloseListener
  <2>7. CASE ReadSockaddr \/ CheckValid \/ Record
    BY <2>7 DEF ReadSockaddr, CheckValid, Record, taskVars
  <2>8. CASE Reply
    BY <2>8 DEF Reply, Leave
  <2>9. CASE Reap \/ Snapshot \/ UNCHANGED vars
    BY <2>9 DEF Reap, Snapshot, vars, taskVars
  <2> QED
    BY <2>1, <2>2, <2>3, <2>4, <2>5, <2>6, <2>7, <2>8, <2>9
       DEF Next, Supervise, Run, Over, Task
<1> QED
  BY <1>1, <1>2, TypeInvariant, PTL DEF Spec
-----------------------------------------------------------------------------
(* The verdict. *)

\* What was read and decided is about the call it is for; an address that could
\* not be read is allowed.
Fits ==
  /\ notif.id \in unread => decision = "allow"
  /\ notif.id \notin rewritten /\ notif.id \notin unread =>
       addr = calls[notif.id].addr /\ decision = Classify(addr)

VerdictInv ==
  /\ sup \in {"read", "check", "record", "reply"} =>
       Made(notif.id) /\ calls[notif.id].task = notif.task
  /\ sup \in {"read", "check", "record", "reply"} =>
       notif.id \in received /\ notif.id \notin refused
  /\ sup = "read" => notif.id \notin unread
  /\ unread \subseteq received /\ refused \subseteq received
  /\ sup = "check" /\ Valid => Fits
  /\ sup \in {"record", "reply"} => Fits
  /\ \A id \in refused : Made(id)
  /\ \A c \in connected : Made(c[1])
  /\ \A d \in denied : Made(d[1])
  /\ VerdictFitsCall
  /\ RefusalsAreGenuine

\* What is not about the supervisor's own progress.
Settled == <<sup, notif, decision, addr, unread, denied, received, refused, connected>>

\* A call that is not valid does not become so: steps of the tasks make a call
\* pending only under a new number.
LEMMA TasksKeepVerdict ==
  ASSUME TypeInv, CallInv, VerdictInv, UNCHANGED Settled,
         \A id \in 1..Len(calls) : calls'[id] = calls[id] /\ id \in 1..Len(calls'),
         rewritten \subseteq rewritten',
         sup = "check" /\ Valid' => Valid
  PROVE  VerdictInv'
<1> USE DEF TypeInv, TypeOK, Made, Settled, Addrs, Numbers
<1>1. /\ sup' \in {"read", "check", "record", "reply"} =>
           Made(notif.id)' /\ calls'[notif'.id].task = notif'.task
      /\ sup' \in {"read", "check", "record", "reply"} =>
           notif'.id \in received' /\ notif'.id \notin refused'
      /\ sup' = "read" => notif'.id \notin unread'
      /\ unread' \subseteq received' /\ refused' \subseteq received'
      /\ \A id \in refused' : Made(id)'
      /\ \A c \in connected' : Made(c[1])'
      /\ \A d \in denied' : Made(d[1])'
  BY DEF VerdictInv
<1>2. sup' = "check" /\ Valid' => Fits'
  BY DEF VerdictInv, Fits, Classify
<1>3. sup' \in {"record", "reply"} => Fits'
  BY DEF VerdictInv, Fits, Classify
<1>4. VerdictFitsCall'
  BY DEF VerdictInv, VerdictFitsCall
<1>5. RefusalsAreGenuine'
  BY DEF VerdictInv, RefusalsAreGenuine
<1> QED
  BY <1>1, <1>2, <1>3, <1>4, <1>5 DEF VerdictInv

\* The invariant behind the two properties of verdicts.
LEMMA VerdictInvariant == Spec => []VerdictInv
<1>1. Init => VerdictInv
  BY DEF Init, VerdictInv, VerdictFitsCall, RefusalsAreGenuine
<1>2. TypeInv /\ CallInv /\ VerdictInv /\ [Next]_vars => VerdictInv'
  <2> SUFFICES ASSUME TypeInv, CallInv, VerdictInv, [Next]_vars PROVE VerdictInv'
    OBVIOUS
  <2>a. Len(calls) \in Nat /\ notif \in [id : Numbers, task : Tasks]
    BY DEF TypeInv, TypeOK
  <2>1. ASSUME NEW t \in Tasks, NEW a \in Addrs, Connect(t, a) PROVE VerdictInv'
    <3>1. UNCHANGED Settled /\ rewritten' = rewritten
      BY <2>1 DEF Connect, Settled, supVars
    <3>2. sup = "check" /\ Valid' => Valid
      <4>1. SUFFICES ASSUME sup = "check", Valid' PROVE Valid
        OBVIOUS
      <4>2. notif.id \in 1..Len(calls) /\ notif' = notif
        BY <3>1, <4>1 DEF VerdictInv, Made, Settled
      <4>3. call' = [call EXCEPT ![t] = Len(calls) + 1] /\ call \in [Tasks -> Numbers]
        BY <2>1 DEF Connect, TypeInv, TypeOK
      <4> QED
        BY <4>1, <4>2, <4>3, <2>a DEF Valid, Numbers
    <3> QED
      BY <2>1, <3>1, <3>2, EarlierCalls, TasksKeepVerdict
  <2>2. ASSUME NEW t \in Tasks, NEW a \in Addrs, Rewrite(t, a) PROVE VerdictInv'
    <3>1. UNCHANGED <<Settled, calls, call>> /\ rewritten \subseteq rewritten'
      BY <2>2 DEF Rewrite, Settled, supVars
    <3> QED
      BY <3>1, TasksKeepVerdict DEF Valid, Settled
  <2>3. ASSUME NEW t \in Tasks, Interrupt(t) \/ Exit(t) PROVE VerdictInv'
    <3>1. /\ UNCHANGED <<Settled, calls, rewritten>>
          /\ call' = [call EXCEPT ![t] = 0]
      BY <2>3 DEF Interrupt, Exit, Leave, Settled, supVars
    <3>2. sup = "check" /\ Valid' => Valid
      <4>1. SUFFICES ASSUME sup = "check", Valid' PROVE Valid
        OBVIOUS
      <4>2. notif.id \in 1..Len(calls) /\ notif' = notif
        BY <3>1, <4>1 DEF VerdictInv, Made, Settled
      <4> QED
        BY <3>1, <4>1, <4>2, <2>a DEF Valid, TypeInv, TypeOK, Numbers
    <3> QED
      BY <3>1, <3>2, TasksKeepVerdict
  <2>4. ASSUME NEW t \in Tasks, NEW u \in Tasks, Fork(t, u) PROVE VerdictInv'
    <3>1. UNCHANGED <<Settled, calls, call, rewritten>>
      BY <2>4 DEF Fork, Settled, supVars
    <3> QED
      BY <3>1, TasksKeepVerdict DEF Valid, Settled
  <2>5. ASSUME NEW t \in Tasks, Receive(t) PROVE VerdictInv'
    <3>1. /\ UNCHANGED <<calls, rewritten, refused, connected, denied, unread>>
          /\ call[t] \notin received /\ received' = received \cup {call[t]}
          /\ sup' = "read" /\ notif' = [id |-> call[t], task |-> t]
          /\ call[t] # 0
      BY <2>5 DEF Receive
    <3>2. Made(call[t]) /\ calls[call[t]].task = t
      BY <3>1 DEF CallInv
    <3> QED
      BY <3>1, <3>2 DEF VerdictInv, VerdictFitsCall, RefusalsAreGenuine, Made
  <2>6. CASE ReceiveFails \/ ProcessExits
    <3>1. /\ UNCHANGED <<calls, rewritten, received, refused, connected, unread, denied>>
          /\ sup' = "exited"
      BY <2>6 DEF ReceiveFails, ProcessExits, CloseListener
    <3> QED
      BY <3>1 DEF VerdictInv, VerdictFitsCall, RefusalsAreGenuine, Made
  <2>7. CASE ReadSockaddr
    <3>1. /\ UNCHANGED <<calls, call, rewritten, received, refused, connected, denied, notif>>
          /\ sup = "read" /\ sup' = "check"
          /\ unread' = unread \/ (unread' = unread \cup {notif.id} /\ decision' = "allow")
      BY <2>7 DEF ReadSockaddr, taskVars
    <3>2. Made(notif.id) /\ calls[notif.id].task = notif.task
      BY <3>1 DEF VerdictInv
    <3>3. Valid' => Fits'
      <4>0. notif.id \in unread' => decision' = "allow"
        BY <3>1 DEF VerdictInv
      <4>1. SUFFICES ASSUME Valid', notif.id \notin rewritten, notif.id \notin unread'
                     PROVE  addr' = calls[notif.id].addr /\ decision' = Classify(addr')
        BY <3>1, <4>0 DEF Fits, Classify
      <4>2. call[notif.task] = notif.id /\ notif.id # 0
        BY <3>1, <3>2, <4>1 DEF Valid, Made
      <4>3. task[notif.task] = "connecting" /\ memory[notif.task] = calls[notif.id].addr
        BY <2>a, <4>1, <4>2 DEF CallInv
      <4> QED
        BY <2>7, <4>1, <4>3 DEF ReadSockaddr
    <3>4. /\ notif.id \in received /\ notif.id \notin refused
          /\ unread \subseteq unread' /\ unread' \subseteq received' /\ refused' \subseteq received'
      BY <3>1 DEF VerdictInv
    <3>5. VerdictFitsCall'
      BY <3>1, <3>4 DEF VerdictInv, VerdictFitsCall
    <3>6. RefusalsAreGenuine'
      BY <3>1 DEF VerdictInv, RefusalsAreGenuine
    <3> HIDE DEF Fits, Valid
    <3> QED
      BY <3>1, <3>2, <3>3, <3>4, <3>5, <3>6 DEF VerdictInv, Made
  <2>8. CASE CheckValid
    <3>1. /\ UNCHANGED <<calls, call, rewritten, received, refused, connected, denied, notif, addr,
                         unread, decision>>
          /\ sup = "check" /\ sup' = IF Valid THEN "record" ELSE "recv"
      BY <2>8 DEF CheckValid, taskVars
    <3> QED
      BY <3>1 DEF VerdictInv, VerdictFitsCall, RefusalsAreGenuine, Made, Fits, Classify
  <2>9. CASE Record
    <3>1. /\ UNCHANGED <<calls, call, rewritten, received, refused, connected, notif, addr,
                         unread, decision>>
          /\ sup = "record" /\ sup' = "reply"
          /\ denied' = IF decision = "deny" THEN denied \cup {<<notif.id, addr>>} ELSE denied
      BY <2>9 DEF Record, taskVars
    <3>2. Made(notif.id) /\ Fits
      BY <3>1 DEF VerdictInv
    <3>3. \A d \in denied' : d \in denied \/ (d = <<notif.id, addr>> /\ decision = "deny")
      BY <3>1
    <3>4. RefusalsAreGenuine'
      BY <3>1, <3>2, <3>3 DEF RefusalsAreGenuine, VerdictInv, Fits, Classify
    <3>5. \A d \in denied' : Made(d[1])'
      BY <3>1, <3>2, <3>3 DEF VerdictInv, Made
    <3> QED
      BY <3>1, <3>2, <3>4, <3>5 DEF VerdictInv, VerdictFitsCall, Made, Fits, Classify
  <2>10. CASE Reply
    <3>1. /\ UNCHANGED <<calls, rewritten, received, unread, denied, notif>>
          /\ sup = "reply" /\ sup' = "recv"
      BY <2>10 DEF Reply
    <3>2. Made(notif.id) /\ Fits
      BY <3>1 DEF VerdictInv
    <3>3. \/ UNCHANGED <<refused, connected>>
          \/ Valid /\ decision = "deny" /\ refused' = refused \cup {notif.id} /\ UNCHANGED connected
          \/ /\ Valid /\ decision # "deny" /\ UNCHANGED refused
             /\ connected' = connected \cup {<<notif.id, memory[notif.task]>>}
      BY <2>10 DEF Reply
    <3>4. CASE UNCHANGED <<refused, connected>>
      BY <3>1, <3>4 DEF VerdictInv, VerdictFitsCall, RefusalsAreGenuine, Made
    <3>5. CASE decision = "deny" /\ refused' = refused \cup {notif.id} /\ UNCHANGED connected
      <4>1. /\ notif.id \in received /\ notif.id \notin unread
            /\ notif.id \notin rewritten => calls[notif.id].addr \in Unlisted
        BY <3>1, <3>2, <3>5 DEF Fits, Classify, VerdictInv
      <4> QED
        BY <3>1, <3>2, <3>5, <4>1 DEF VerdictInv, VerdictFitsCall, RefusalsAreGenuine, Made
    <3>6. CASE /\ Valid /\ decision # "deny" /\ UNCHANGED refused
               /\ connected' = connected \cup {<<notif.id, memory[notif.task]>>}
      <4>1. notif.id \notin rewritten =>
              /\ memory[notif.task] = calls[notif.id].addr
              /\ calls[notif.id].addr \in Unlisted => notif.id \in unread
        <5>1. call[notif.task] = notif.id /\ notif.id # 0 /\ notif.task \in Tasks
          BY <2>a, <3>2, <3>6 DEF Valid, Made
        <5> QED
          BY <3>2, <3>6, <5>1 DEF CallInv, Fits, Classify
      <4>2. \A c \in connected' : c \in connected \/ c = <<notif.id, memory[notif.task]>>
        BY <3>6
      <4>3. VerdictFitsCall'
        BY <3>1, <3>6, <4>1, <4>2 DEF VerdictInv, VerdictFitsCall
      <4>4. \A c \in connected' : Made(c[1])'
        BY <3>1, <3>2, <4>2 DEF VerdictInv, Made
      <4> QED
        BY <3>1, <3>6, <4>3, <4>4 DEF VerdictInv, RefusalsAreGenuine, Made
    <3> QED
      BY <3>3, <3>4, <3>5, <3>6
  <2>11. CASE Reap \/ Snapshot \/ UNCHANGED vars
    <3>1. UNCHANGED <<Settled, calls, call, rewritten>>
      BY <2>11 DEF Reap, Snapshot, vars, taskVars, supVars, Settled
    <3> QED
      BY <3>1, TasksKeepVerdict DEF Valid, Settled
  <2> QED
    BY <2>1, <2>2, <2>3, <2>4, <2>5, <2>6, <2>7, <2>8, <2>9, <2>10, <2>11
       DEF Next, Supervise, Run, Over, Task
<1> QED
  BY <1>1, <1>2, TypeInvariant, CallInvariant, PTL DEF Spec

\* The verdict a caller gets is the verdict on the address it called with, and
\* what could not be read is let through.
THEOREM VerdictsFit == Spec => []VerdictFitsCall
<1>1. VerdictInv => VerdictFitsCall
  BY DEF VerdictInv
<1> QED
  BY <1>1, VerdictInvariant, PTL

\* An entry of the refusal list is an attempt that was made, to that address.
THEOREM RefusalsWereMade == Spec => []RefusalsAreGenuine
<1>1. VerdictInv => RefusalsAreGenuine
  BY DEF VerdictInv
<1> QED
  BY <1>1, VerdictInvariant, PTL
-----------------------------------------------------------------------------
(* The audit trail. *)

Noted(id) == \E d \in denied : d[1] = id

AuditInv ==
  /\ \A id \in refused : Noted(id)
  /\ sup = "reply" /\ decision = "deny" => Noted(notif.id)
  /\ task[Direct] # "unborn"
  /\ run # "waiting" => task[Direct] = "gone"
  /\ ChildsRefusalsAudited

\* A refusal is noted before it is answered, and the list is read when the
\* child can be refused nothing more.
THEOREM ChildsRefusalsKept == Spec => []ChildsRefusalsAudited
<1> USE TasksAssumption
<1>1. Init => AuditInv
  BY DEF Init, AuditInv, ChildsRefusalsAudited
<1>2. TypeInv /\ CallInv /\ VerdictInv /\ AuditInv /\ [Next]_vars => AuditInv'
  <2> SUFFICES ASSUME TypeInv, CallInv, VerdictInv, AuditInv, [Next]_vars PROVE AuditInv'
    OBVIOUS
  <2>a. task \in [Tasks -> {"unborn", "running", "connecting", "gone"}]
    BY DEF TypeInv, TypeOK
  <2>1. ASSUME NEW t \in Tasks, NEW a \in Addrs, Connect(t, a) PROVE AuditInv'
    <3>1. /\ UNCHANGED <<sup, notif, decision, denied, refused, run, audit>>
          /\ task[t] = "running" /\ task' = [task EXCEPT ![t] = "connecting"]
      BY <2>1 DEF Connect, supVars, runVars
    <3>2. \A id \in refused : calls'[id] = calls[id]
      BY <2>1, EarlierCalls DEF VerdictInv, Made
    <3> QED
      BY <2>a, <3>1, <3>2 DEF AuditInv, Noted, ChildsRefusalsAudited
  <2>2. ASSUME NEW t \in Tasks,
               (\E a \in Addrs : Rewrite(t, a)) \/ Interrupt(t) \/ Exit(t)
                 \/ (\E u \in Tasks : Fork(t, u))
        PROVE  AuditInv'
    <3>1. /\ UNCHANGED <<sup, notif, decision, denied, refused, run, audit, calls>>
          /\ \A u \in Tasks : /\ task[u] = "gone" => task'[u] = "gone"
                              /\ task[u] # "unborn" => task'[u] # "unborn"
      BY <2>a, <2>2 DEF Rewrite, Interrupt, Exit, Fork, Leave, supVars, runVars
    <3> QED
      BY <3>1 DEF AuditInv, Noted, ChildsRefusalsAudited
  <2>3. ASSUME NEW t \in Tasks, Receive(t) PROVE AuditInv'
    BY <2>3 DEF Receive, runVars, AuditInv, Noted, ChildsRefusalsAudited
  <2>4. CASE ReceiveFails
    <3>1. /\ UNCHANGED <<denied, refused, run, audit, calls>> /\ sup' = "exited"
          /\ \A u \in Tasks : /\ task[u] = "gone" => task'[u] = "gone"
                              /\ task[u] # "unborn" => task'[u] # "unborn"
      BY <2>a, <2>4 DEF ReceiveFails, CloseListener, runVars
    <3> QED
      BY <3>1 DEF AuditInv, Noted, ChildsRefusalsAudited
  <2>5. CASE ProcessExits
    <3>1. /\ UNCHANGED <<denied, refused, audit, calls>> /\ sup' = "exited"
          /\ run = "closed" /\ run' = "over"
          /\ \A u \in Tasks : /\ task[u] = "gone" => task'[u] = "gone"
                              /\ task[u] # "unborn" => task'[u] # "unborn"
      BY <2>a, <2>5 DEF ProcessExits, CloseListener
    <3> QED
      BY <3>1 DEF AuditInv, Noted, ChildsRefusalsAudited
  <2>6. CASE ReadSockaddr \/ CheckValid
    BY <2>6 DEF ReadSockaddr, CheckValid, taskVars, runVars, AuditInv, Noted, ChildsRefusalsAudited
  <2>7. CASE Record
    <3>1. /\ UNCHANGED <<task, calls, refused, notif, decision, run, audit>>
          /\ denied \subseteq denied'
          /\ decision = "deny" => <<notif.id, addr>> \in denied'
      BY <2>7 DEF Record, taskVars, runVars
    <3> QED
      BY <3>1 DEF AuditInv, Noted, ChildsRefusalsAudited
  <2>8. CASE Reply
    <3>1. UNCHANGED <<calls, denied, notif, run, audit>> /\ sup = "reply" /\ sup' = "recv"
      BY <2>8 DEF Reply, runVars
    <3>2. CASE ~Valid
      BY <2>8, <3>1, <3>2 DEF Reply, AuditInv, Noted, ChildsRefusalsAudited
    <3>3. CASE Valid
      <4>1. notif.task \in Tasks /\ calls[notif.id].task = notif.task /\ notif.id # 0
        BY <3>1 DEF TypeInv, TypeOK, VerdictInv, Made
      <4>2. task[notif.task] = "connecting"
        BY <3>3, <4>1 DEF Valid, CallInv
      <4>3. task' = [task EXCEPT ![notif.task] = "running"]
        BY <2>8, <3>3 DEF Reply, Leave
      <4>4. refused' = refused \/ (decision = "deny" /\ refused' = refused \cup {notif.id})
        BY <2>8, <3>3 DEF Reply
      <4>5. /\ task'[Direct] # "unborn"
            /\ run # "waiting" => task'[Direct] = "gone" /\ notif.task # Direct
        BY <2>a, <4>1, <4>2, <4>3 DEF AuditInv
      <4>6. \A id \in refused' : Noted(id)'
        BY <3>1, <4>4 DEF AuditInv, Noted
      <4>7. ChildsRefusalsAudited'
        BY <3>1, <4>1, <4>4, <4>5 DEF AuditInv, ChildsRefusalsAudited
      <4> QED
        BY <3>1, <4>5, <4>6, <4>7 DEF AuditInv
    <3> QED
      BY <3>2, <3>3
  <2>9. CASE Reap
    BY <2>9 DEF Reap, taskVars, supVars, AuditInv, Noted, ChildsRefusalsAudited
  <2>10. CASE Snapshot
    BY <2>10 DEF Snapshot, taskVars, supVars, AuditInv, Noted, ChildsRefusalsAudited
  <2>11. CASE UNCHANGED vars
    BY <2>11 DEF vars, taskVars, supVars, runVars, AuditInv, Noted, ChildsRefusalsAudited
  <2> QED
    BY <2>1, <2>2, <2>3, <2>4, <2>5, <2>6, <2>7, <2>8, <2>9, <2>10, <2>11
       DEF Next, Supervise, Run, Over, Task
<1>3. AuditInv => ChildsRefusalsAudited
  BY DEF AuditInv
<1> QED
  BY <1>1, <1>2, <1>3, TypeInvariant, CallInvariant, VerdictInvariant, PTL DEF Spec
=============================================================================
