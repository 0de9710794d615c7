---------------------------- MODULE LinuxRun_proofs ----------------------------
(* Theorems about LinuxRun, for every set of requests, faults and timeouts. *)
EXTENDS LinuxRun, SequenceTheorems, TLAPS

LEMMA TimeoutsAreNat == Timeouts \subseteq Nat
BY TimeAssumption

LEMMA OrderLemma ==
  /\ Len(SetupOrder) = 9
  /\ \A i \in 1..9 : SetupOrder[i] \in Boundaries
BY DEF SetupOrder, Boundaries

LEMMA TypeInductive ==
  ASSUME TypeOK, [Next]_vars
  PROVE  TypeOK'
<1> USE DEF RunTypeOK, WTypeOK, ProcStates, WaiterStates, KillerStates,
            ParentStates, Answers
<1> USE DEF TypeOK, parentVars, childVars, pipes, cgVars, kernel, timer
<1>1. CASE Begin
  <2>1. <<"start">> \in Seq({"start", "timeout", "exit"})
    OBVIOUS
  <2>2. RunTypeOK'
    <3>1. CASE Return("refused") /\ UNCHANGED events
      BY <1>1, <3>1 DEF Begin, Return
    <3>2. CASE parent' = "plan" /\ events' = <<"start">> /\ UNCHANGED result
      BY <1>1, <2>1, <3>2 DEF Begin
    <3> QED
      BY <1>1, <3>1, <3>2 DEF Begin
  <2>3. WTypeOK'
    BY <1>1 DEF Begin
  <2> QED
    BY <2>2, <2>3
<1>2. CASE PlanFails \/ RecordLayers
  <2>1. Claimed \cup {"cgroups"} \subseteq Layers
    BY DEF Claimed, Layers
  <2>2. RunTypeOK'
    BY <1>2, <2>1 DEF PlanFails, RecordLayers, Return
  <2>3. WTypeOK'
    BY <1>2 DEF PlanFails, RecordLayers
  <2> QED
    BY <2>2, <2>3
<1>3. CASE CreateCgroup \/ OpenChannels
  BY <1>3 DEF CreateCgroup, OpenChannels, Return, Layers
<1>4. CASE Fork \/ ForkFails \/ SpawnOk \/ SpawnErr
  BY <1>4, OrderLemma DEF Fork, ForkFails, SpawnOk, SpawnErr, ChildStarts, ReapChild
<1>5. CASE DropCommand \/ ReadSetupError
  BY <1>5 DEF DropCommand, ReadSetupError, Return
<1>6. CASE ReceiveListener \/ AbortKill \/ AbortWait
  BY <1>6 DEF ReceiveListener, AbortKill, AbortWait, Return, ReapChild, SendSigkill
<1>7. CASE Attach
  <2>1. RunTypeOK'
    <3>1. member' \in BOOLEAN
      BY <1>7 DEF Attach
    <3> QED
      BY <1>7, <3>1 DEF Attach
  <2>2. WTypeOK'
    BY <1>7 DEF Attach
  <2> QED
    BY <2>1, <2>2
<1>8. CASE CallWait
  <2>1. RunTypeOK'
    BY <1>8 DEF CallWait
  <2>2. req.timeout \subseteq Nat
    BY RequestsAssumption, TimeoutsAreNat DEF AllRequests
  <2>3. WTypeOK'
    BY <1>8, <2>2 DEF CallWait, StartWait, kernel
  <2> QED
    BY <2>1, <2>3
<1>9. CASE Finish
  <2>1. /\ Append(events, "exit") \in Seq({"start", "timeout", "exit"})
        /\ Append(Append(events, "timeout"), "exit") \in Seq({"start", "timeout", "exit"})
    OBVIOUS
  <2>2. RunTypeOK'
    <3>1. events' \in Seq({"start", "timeout", "exit"})
      BY <1>9, <2>1 DEF Finish
    <3>2. parent' \in ParentStates /\ result' \in Answers
      BY <1>9 DEF Finish, Return
    <3>3. cgroup' \in {"none", "made", "removed"}
      BY <1>9 DEF Finish
    <3> QED
      BY <1>9, <3>1, <3>2, <3>3 DEF Finish
  <2>3. WTypeOK'
    BY <1>9 DEF Finish
  <2> QED
    BY <2>2, <2>3
<1>10. CASE SkipStep \/ ApplyStep
  <2>1. Effect(NextStep) \subseteq Boundaries
    <3>1. step \in 1..9
      BY <1>10, OrderLemma DEF SkipStep, ApplyStep, AtStep
    <3> QED
      BY <3>1, OrderLemma DEF NextStep, Effect, Boundaries
  <2>2. RunTypeOK'
    <3>1. step' \in 1..(Len(SetupOrder) + 1)
      BY <1>10, OrderLemma DEF SkipStep, ApplyStep, AtStep
    <3>2. inForce' \subseteq Boundaries
      BY <1>10, <2>1 DEF SkipStep, ApplyStep
    <3> QED
      BY <1>10, <3>1, <3>2 DEF SkipStep, ApplyStep
  <2>3. WTypeOK'
    BY <1>10 DEF SkipStep, ApplyStep
  <2> QED
    BY <2>2, <2>3
<1>11. CASE FailStep \/ ReportError \/ Exec \/ ExecFails
  BY <1>11 DEF FailStep, ReportError, Exec, ExecFails
<1>12. CASE GiveUp \/ DieInSetup \/ CommandExits \/ SigkillDelivered
  BY <1>12 DEF GiveUp, DieInSetup, CommandExits, SigkillDelivered, ChildExits,
     ChildDies
<1>13. CASE CommandForks \/ DescendantExits
  BY <1>13 DEF CommandForks, DescendantExits
<1>14. CASE WaitStep
  <2>1. RunTypeOK'
    BY <1>14 DEF WaitStep, Rest
  <2>2. WTypeOK'
    BY <1>14 DEF WaitStep, Waiting, WaitReturns, SetDone, JoinKiller,
       ReapChild, kernel
  <2> QED
    BY <2>1, <2>2
<1>15. CASE KillStep
  <2>1. RunTypeOK'
    BY <1>15 DEF KillStep, Rest
  <2>2. now + limit \in Nat
    OBVIOUS
  <2>3. WTypeOK'
    <3>1. CASE KillerStarts
      BY <3>1, <2>2 DEF KillerStarts, kernel
    <3>2. CASE KillerPolls \/ KillerLastCheck \/ KillerSignals
      BY <3>2 DEF KillerPolls, KillerLastCheck, KillerSignals,
         SendSigkill, kernel
    <3> QED
      BY <1>15, <3>1, <3>2 DEF KillStep, Killing
  <2> QED
    BY <2>1, <2>3
<1>16. CASE ClockStep \/ Recycle
  BY <1>16 DEF ClockStep, Recycle, Rest, Tick, PidRecycled, kernel, timer
<1>17. CASE UNCHANGED vars
  BY <1>17 DEF vars
<1> QED
  BY <1>1, <1>2, <1>3, <1>4, <1>5, <1>6, <1>7, <1>8, <1>9, <1>10, <1>11, <1>12,
     <1>13, <1>14, <1>15, <1>16, <1>17
     DEF Next, Parent, Plan, Spawn, Handoff, Child, Returned

\* Every variable of a run keeps its type.
THEOREM TypeCorrect == Spec => []TypeOK
<1> USE DEF RunTypeOK, WTypeOK, ProcStates, WaiterStates, KillerStates,
            ParentStates, Answers
<1>1. Init => TypeOK
  <2> SUFFICES ASSUME Init PROVE TypeOK
    OBVIOUS
  <2>1. RunTypeOK
    <3>1. <<>> \in Seq({"start", "timeout", "exit"})
      OBVIOUS
    <3>2. 1 \in 1..(Len(SetupOrder) + 1)
      BY OrderLemma
    <3> QED
      BY <3>1, <3>2 DEF Init
  <2>2. WTypeOK
    BY DEF Init, Fresh, NoTimer
  <2> QED
    BY <2>1, <2>2 DEF TypeOK
<1>2. TypeOK /\ [Next]_vars => TypeOK'
  BY TypeInductive
<1> QED
  BY <1>1, <1>2, PTL DEF Spec

-----------------------------------------------------------------------------
(* The command never runs behind fewer boundaries than its request requires. *)

\* What is known of a setup step the child has passed: it was not asked for,
\* or what it brings is in force, or it is the Landlock backstop of an isolated
\* run on a kernel without Landlock.
Passed(s) ==
  Planned(s) => Effect(s) \subseteq inForce \/ (Unsupported(s) /\ req.isolate)

\* FailClosed speaks only of a command that runs; what makes it inductive is
\* that every step behind the child's position has been passed, at each
\* position, and that the command is executed only past the last one.
SetupInv ==
  /\ \A i \in 1..(step - 1) : Passed(SetupOrder[i])
  /\ child = "command" => step > Len(SetupOrder)

LEMMA AllStepsPassed ==
  ASSUME TypeOK, SetupInv, step > Len(SetupOrder)
  PROVE  Required \subseteq inForce
<1> SUFFICES ASSUME NEW b \in Required
             PROVE  b \in inForce
  OBVIOUS
<1>1. \A i \in 1..9 : Passed(SetupOrder[i])
  <2>1. step = 10
    BY OrderLemma DEF SetupInv, TypeOK, RunTypeOK
  <2> QED
    BY <2>1 DEF SetupInv
<1>2. /\ Passed("namespaces") /\ Passed("mounts") /\ Passed("caps")
      /\ Passed("no_new_privs") /\ Passed("landlock") /\ Passed("rlimits")
      /\ Passed("seccomp") /\ Passed("notify") /\ Passed("listener")
  BY <1>1 DEF SetupOrder
<1> QED
  BY <1>2 DEF Required, Passed, Planned, Effect, Unsupported, NetIsolate

LEMMA SetupInvImpliesFailClosed ==
  ASSUME TypeOK, SetupInv
  PROVE  FailClosed
BY AllStepsPassed DEF SetupInv, FailClosed

LEMMA SetupInvInductive ==
  ASSUME TypeOK, SetupInv, [Next]_vars
  PROVE  SetupInv'
<1> USE DEF vars, parentVars, childVars
<1>1. CASE UNCHANGED <<req, step, inForce>> /\ child' # "command"
  BY <1>1 DEF SetupInv, Passed, Planned, Effect, NetIsolate, Unsupported
<1>2. CASE UNCHANGED <<req, step, inForce, child>>
  BY <1>2 DEF SetupInv, Passed, Planned, Effect, NetIsolate, Unsupported
<1>3. CASE Exec
  BY <1>3 DEF Exec, SetupInv, Passed, Planned, Effect, NetIsolate, Unsupported
<1>4. CASE SkipStep \/ ApplyStep
  <2>1. UNCHANGED <<req, child>> /\ child = "setup" /\ step' = step + 1
    BY <1>4 DEF SkipStep, ApplyStep, AtStep
  <2>2. inForce \subseteq inForce'
    BY <1>4 DEF SkipStep, ApplyStep
  <2>3. ASSUME NEW s, s = NextStep
        PROVE  Passed(s)'
    <3>1. CASE SkipStep
      BY <3>1, <2>1, <2>3 DEF SkipStep, Passed, Planned, Unsupported
    <3>2. CASE ApplyStep
      <4>1. Effect(s) \subseteq inForce'
        BY <3>2, <2>3 DEF ApplyStep
      <4> QED
        BY <4>1, <2>1 DEF Passed, Effect, NetIsolate
    <3> QED
      BY <3>1, <3>2, <1>4
  <2>4. ASSUME NEW i \in 1..(step' - 1)
        PROVE  Passed(SetupOrder[i])'
    <3>1. CASE i = step
      BY <3>1, <2>3 DEF NextStep
    <3>2. CASE i \in 1..(step - 1)
      <4>1. Passed(SetupOrder[i])
        BY <3>2 DEF SetupInv
      <4> QED
        BY <4>1, <2>1, <2>2 DEF Passed, Planned, Effect, NetIsolate, Unsupported
    <3> QED
      BY <3>1, <3>2, <2>1 DEF TypeOK, RunTypeOK
  <2> QED
    BY <2>1, <2>4 DEF SetupInv
<1>5. CASE FailStep \/ ReportError \/ GiveUp \/ ExecFails \/ DieInSetup \/ CommandExits
           \/ SigkillDelivered \/ Fork
  BY <1>1, <1>5 DEF FailStep, ReportError, GiveUp, ExecFails, DieInSetup, CommandExits,
     SigkillDelivered, Fork
<1>6. CASE Plan \/ Handoff \/ Finish
  BY <1>2, <1>6 DEF Plan, Begin, PlanFails, RecordLayers, CreateCgroup, OpenChannels, Handoff,
     ReceiveListener, AbortKill, AbortWait, Attach, CallWait, Finish
<1>7. CASE ForkFails \/ SpawnOk \/ SpawnErr \/ DropCommand \/ ReadSetupError
  BY <1>2, <1>7 DEF ForkFails, SpawnOk, SpawnErr, DropCommand, ReadSetupError
<1>8. CASE WaitStep \/ KillStep \/ ClockStep \/ Recycle \/ CommandForks \/ DescendantExits
           \/ Returned \/ UNCHANGED vars
  BY <1>2, <1>8 DEF WaitStep, KillStep, ClockStep, Recycle, Rest, CommandForks, DescendantExits, Returned
<1> QED
  BY <1>3, <1>4, <1>5, <1>6, <1>7, <1>8 DEF Next, Parent, Spawn, Child

LEMMA SetupInvariant == Spec => []SetupInv
<1>1. Init => SetupInv
  BY DEF Init, SetupInv
<1>2. TypeOK /\ SetupInv /\ [Next]_vars => SetupInv'
  BY SetupInvInductive
<1> QED
  BY <1>1, <1>2, TypeCorrect, PTL DEF Spec

\* Confinery fails closed: the command is never executed behind fewer boundaries
\* than its request requires.
THEOREM RunFailsClosed == Spec => []FailClosed
<1>1. TypeOK /\ SetupInv => FailClosed
  BY SetupInvImpliesFailClosed
<1> QED
  BY <1>1, SetupInvariant, TypeCorrect, PTL

-----------------------------------------------------------------------------
(* How far parent, child and process table can be apart. *)

Early == {"check", "plan", "cgroup", "channels", "spawn"}

GaveUp == {"refused", "planned", "bad_plan", "no_channel", "setup", "spawn"}

\* Where each of the two processes can be while the other is somewhere, and
\* what the two pipes have said by then: the parent is in spawn() as long as
\* the child has not executed the command, an errno on std's pipe comes from a
\* child that never will, and spawn() fails only with that child reaped.
RunInv ==
  /\ parent \in Early => child = "none" /\ spawned = "no"
  /\ child = "none" => proc = "absent" /\ ~ran /\ ~errno
  /\ BeforeExec => parent = "spawning" /\ proc = "alive" /\ ~ran /\ ~errno
  /\ child = "command" => proc = "alive" /\ ran
  /\ errno => ~ran
  /\ spawned = "err" => proc \in {"absent", "reaped"} /\ ~BeforeExec /\ ~ran
  /\ waiter \in {"reaped", "joining", "returned"} => proc = "reaped"
  /\ parent # "returned" => result = "none"
  /\ parent = "returned" => result # "none" /\ proc \in {"absent", "reaped"}
  /\ result \in GaveUp => ~ran /\ ~BeforeExec

\* Up to the fork the parent is alone: its steps touch nothing of the child and
\* either go on or answer.
LEMMA PlanStep ==
  ASSUME Plan
  PROVE  /\ parent \in Early
         /\ UNCHANGED <<req, childVars, errMsg, errno, spawned, kernel, timer>>
         /\ \/ parent' \in Early /\ UNCHANGED result
            \/ parent' = "returned" /\ result' \in {"refused", "planned", "bad_plan", "no_channel"}
<1>1. CASE Begin
  BY <1>1 DEF Begin, Return, Early, pipes
<1>2. CASE PlanFails \/ RecordLayers
  BY <1>2 DEF PlanFails, RecordLayers, Return, Early, pipes
<1>3. CASE CreateCgroup \/ OpenChannels
  BY <1>3 DEF CreateCgroup, OpenChannels, Return, Early, pipes
<1> QED
  BY <1>1, <1>2, <1>3 DEF Plan

LEMMA RunInvInductive ==
  ASSUME TypeOK, RunInv, [Next]_vars
  PROVE  RunInv'
<1> USE DEF RunInv, BeforeExec, Early, GaveUp, parentVars, childVars, pipes, kernel, timer
<1>1. CASE Plan
  BY <1>1, PlanStep
<1>2. CASE Fork \/ ForkFails
  BY <1>2 DEF Fork, ForkFails, ChildStarts
<1>3. CASE SpawnOk \/ SpawnErr
  BY <1>3 DEF SpawnOk, SpawnErr, ReapChild
<1>4. CASE DropCommand \/ ReadSetupError
  BY <1>4 DEF DropCommand, ReadSetupError, Return
<1>5. CASE Handoff
  BY <1>5 DEF Handoff, ReceiveListener, AbortKill, AbortWait, Attach, CallWait, Return,
     SendSigkill, ReapChild, StartWait, kernel
<1>6. CASE Finish
  BY <1>6 DEF Finish, Return
<1>7. CASE SkipStep \/ ApplyStep \/ FailStep \/ ReportError \/ Exec \/ ExecFails
  BY <1>7 DEF SkipStep, ApplyStep, FailStep, ReportError, Exec, ExecFails, AtStep
<1>8. CASE GiveUp \/ DieInSetup \/ CommandExits
  BY <1>8 DEF GiveUp, DieInSetup, CommandExits, ChildExits
<1>9. CASE SigkillDelivered
  BY <1>9 DEF SigkillDelivered, ChildDies
<1>10. CASE CommandForks \/ DescendantExits
  BY <1>10 DEF CommandForks, DescendantExits
<1>11. CASE WaitStep
  BY <1>11 DEF WaitStep, Rest, Waiting, WaitReturns, SetDone, JoinKiller,
     ReapChild, kernel
<1>12. CASE KillStep \/ ClockStep \/ Recycle
  BY <1>12 DEF KillStep, ClockStep, Recycle, Rest, Killing, KillerStarts, KillerPolls,
     KillerLastCheck, KillerSignals, SendSigkill, Tick, PidRecycled,
     kernel, timer
<1>13. CASE Returned \/ UNCHANGED vars
  BY <1>13 DEF Returned, vars
<1> QED
  BY <1>1, <1>2, <1>3, <1>4, <1>5, <1>6, <1>7, <1>8, <1>9, <1>10, <1>11, <1>12, <1>13
     DEF Next, Parent, Spawn, Child

\* At every step of a run, parent, child and process table are no further apart
\* than RunInv says.
THEOREM RunInvariant == Spec => []RunInv
<1>1. Init => RunInv
  BY DEF Init, RunInv, BeforeExec, Early, GaveUp, NoTimer
<1>2. TypeOK /\ RunInv /\ [Next]_vars => RunInv'
  BY RunInvInductive
<1> QED
  BY <1>1, <1>2, TypeCorrect, PTL DEF Spec

\* No way out of run() leaves its direct child running or unreaped.
THEOREM NoProcessLeftBehind == Spec => []ReturnedMeansReaped
<1>1. RunInv => ReturnedMeansReaped
  BY DEF RunInv, ReturnedMeansReaped
<1> QED
  BY <1>1, RunInvariant, PTL

\* An error of the plan, the channels, the setup or the spawn means that the
\* command was never executed.
THEOREM FailureMeansNeverRan == Spec => []FailedMeansNeverRan
<1>1. RunInv => FailedMeansNeverRan
  BY DEF RunInv, FailedMeansNeverRan, GaveUp
<1> QED
  BY <1>1, RunInvariant, PTL
-----------------------------------------------------------------------------
(* The claims of the report. *)

\* What the trail calls applied is what the request lets run() claim.
ClaimInv == applied \subseteq Claimed \cup {"cgroups"}

\* A command that runs, runs behind each layer the report calls applied.
THEOREM ClaimsAreKept == Spec => []ClaimsHold
<1>1. Init => ClaimInv
  BY DEF Init, ClaimInv
<1>2. ClaimInv /\ [Next]_vars => ClaimInv'
  <2> SUFFICES ASSUME ClaimInv, [Next]_vars PROVE ClaimInv'
    OBVIOUS
  <2>1. UNCHANGED req => Claimed' = Claimed
    BY DEF Claimed, NetIsolate
  <2>2. CASE RecordLayers
    BY <2>1, <2>2 DEF RecordLayers, ClaimInv
  <2>3. CASE CreateCgroup
    BY <2>1, <2>3 DEF CreateCgroup, ClaimInv
  <2>4. CASE UNCHANGED <<req, applied>>
    BY <2>1, <2>4 DEF ClaimInv
  <2>5. CASE Begin \/ PlanFails \/ OpenChannels \/ Spawn \/ Handoff \/ Finish
    BY <2>4, <2>5 DEF Begin, PlanFails, OpenChannels, Spawn, Fork, ForkFails, SpawnOk, SpawnErr,
       DropCommand, ReadSetupError, Handoff, ReceiveListener, AbortKill, AbortWait, Attach,
       CallWait, Finish
  <2>6. CASE Child
    BY <2>4, <2>6 DEF Child, SkipStep, ApplyStep, FailStep, ReportError, GiveUp, Exec, ExecFails,
       DieInSetup, parentVars
  <2>7. CASE WaitStep \/ KillStep \/ ClockStep \/ Recycle
    BY <2>4, <2>7 DEF WaitStep, KillStep, ClockStep, Recycle, Rest, parentVars
  <2>8. CASE CommandExits \/ SigkillDelivered \/ CommandForks \/ DescendantExits
    BY <2>4, <2>8 DEF CommandExits, SigkillDelivered, CommandForks, DescendantExits, parentVars
  <2>9. CASE Returned \/ UNCHANGED vars
    BY <2>4, <2>9 DEF Returned, vars, parentVars
  <2> QED
    BY <2>2, <2>3, <2>5, <2>6, <2>7, <2>8, <2>9 DEF Next, Parent, Plan
<1>3. TypeOK /\ ClaimInv /\ FailClosed => ClaimsHold
  <2> SUFFICES ASSUME TypeOK, ClaimInv, FailClosed, child = "command",
                      NEW l \in applied, l # "cgroups"
               PROVE  Enforced(l)
    BY DEF ClaimsHold
  <2>1. Required \subseteq inForce
    BY DEF FailClosed
  <2>2. l \in Claimed
    BY DEF ClaimInv
  <2>3. CASE l = "network"
    <3>1. NetIsolate \/ req.mode \in {"full", "allowlist"}
      BY <2>2, <2>3 DEF Claimed
    <3>2. CASE NetIsolate
      <4>1. "netns" \in inForce /\ req.mode \in {"none", "loopback"}
        BY <2>1, <3>2 DEF Required, NetIsolate
      <4> QED
        BY <4>1, <2>3 DEF Enforced
    <3>3. CASE req.mode = "full"
      BY <3>3, <2>3 DEF Enforced
    <3>4. CASE req.mode = "allowlist"
      <4>1. {"notify", "listener"} \subseteq inForce
        BY <2>1, <3>4 DEF Required
      <4> QED
        BY <4>1, <3>4, <2>3 DEF Enforced
    <3> QED
      BY <3>1, <3>2, <3>3, <3>4
  <2>4. CASE l \in {"filesystem", "capabilities", "rlimits"}
    BY <2>1, <2>4 DEF Required, Enforced
  <2>5. CASE l \in {"namespaces", "seccomp"}
    BY <2>1, <2>2, <2>5 DEF Claimed, Required, Enforced
  <2> QED
    BY <2>2, <2>3, <2>4, <2>5 DEF Claimed
<1> QED
  BY <1>1, <1>2, <1>3, TypeCorrect, RunFailsClosed, PTL DEF Spec
-----------------------------------------------------------------------------
(* Signals. *)

\* The parent holds an unreaped child from the fork to the wait; as long as it
\* does, the pid number is the child's.
HoldsChild ==
  \/ parent \in {"spawning", "receive", "abort", "abort_wait", "attach", "wait"}
  \/ parent \in {"drop", "read_error"} /\ spawned = "ok"

SignalInv ==
  /\ HoldsChild => proc \in {"alive", "zombie"}
  /\ parent \in {"drop", "read_error"} => spawned \in {"ok", "err"}
  /\ proc \in {"alive", "zombie"} => owner = "child"
  /\ parent \notin {"waiting", "returned"} => waiter = "idle"
  /\ waiter = "idle" => killer = "off"
  /\ stray => killer = "killed"

\* A SIGKILL of ours reaches another process only from the timer's thread.
THEOREM SignalsStayHome == Spec => []OnlyTheTimerStrays
<1>1. Init => SignalInv
  BY DEF Init, SignalInv, HoldsChild, NoTimer, Fresh
<1>2. TypeOK /\ RunInv /\ SignalInv /\ [Next]_vars => SignalInv'
  <2> SUFFICES ASSUME TypeOK, RunInv, SignalInv, [Next]_vars PROVE SignalInv'
    OBVIOUS
  <2> USE DEF SignalInv, HoldsChild, parentVars, childVars, pipes, cgVars, kernel, timer
  <2>1. CASE Plan
    BY <2>1, PlanStep DEF Early
  <2>2. CASE Fork \/ ForkFails
    BY <2>2 DEF Fork, ForkFails, ChildStarts
  <2>3. CASE SpawnOk \/ SpawnErr
    BY <2>3 DEF SpawnOk, SpawnErr, ReapChild
  <2>4. CASE DropCommand \/ ReadSetupError
    BY <2>4 DEF DropCommand, ReadSetupError, Return
  <2>5. CASE ReceiveListener \/ Attach
    BY <2>5 DEF ReceiveListener, Attach
  <2>6. CASE AbortKill \/ AbortWait
    <3>1. CASE AbortKill
      <4>1. owner = "child" /\ proc \in {"alive", "zombie"} /\ ~stray
        BY <3>1 DEF AbortKill
      <4>2. ~stray' /\ UNCHANGED <<proc, owner, spawned, waiter, killer>>
        BY <3>1, <4>1 DEF AbortKill, SendSigkill
      <4> QED
        BY <3>1, <4>1, <4>2 DEF AbortKill
    <3>2. CASE AbortWait
      BY <3>2 DEF AbortWait, Return, ReapChild
    <3> QED
      BY <2>6, <3>1, <3>2
  <2>7. CASE CallWait
    BY <2>7 DEF CallWait, StartWait, kernel
  <2>8. CASE Finish
    BY <2>8 DEF Finish, Return
  <2>9. CASE SkipStep \/ ApplyStep \/ FailStep \/ ReportError \/ Exec \/ ExecFails
    BY <2>9 DEF SkipStep, ApplyStep, FailStep, ReportError, Exec, ExecFails
  <2>10. CASE GiveUp \/ DieInSetup \/ CommandExits \/ SigkillDelivered
    BY <2>10 DEF GiveUp, DieInSetup, CommandExits, SigkillDelivered, ChildExits,
       ChildDies
  <2>11. CASE CommandForks \/ DescendantExits \/ Returned \/ UNCHANGED vars
    BY <2>11 DEF CommandForks, DescendantExits, Returned, vars
  <2>12. CASE WaitStep
    BY <2>12 DEF WaitStep, Rest, Waiting, WaitReturns, SetDone, JoinKiller,
       ReapChild, kernel
  <2>13. CASE KillStep
    BY <2>13 DEF KillStep, Rest, Killing, KillerStarts, KillerPolls,
       KillerLastCheck, KillerSignals, SendSigkill, kernel
  <2>14. CASE ClockStep \/ Recycle
    BY <2>14 DEF ClockStep, Recycle, Rest, Tick, PidRecycled, kernel, timer
  <2> QED
    BY <2>1, <2>2, <2>3, <2>4, <2>5, <2>6, <2>7, <2>8, <2>9, <2>10, <2>11, <2>12, <2>13, <2>14
       DEF Next, Parent, Spawn, Handoff, Child
<1>3. SignalInv => OnlyTheTimerStrays
  BY DEF SignalInv, OnlyTheTimerStrays, timed_out
<1> QED
  BY <1>1, <1>2, <1>3, TypeCorrect, RunInvariant, PTL DEF Spec

-----------------------------------------------------------------------------
(* Diagnosis. *)

\* What failed in the child, against what its two pipes say.
DiagnosisInv ==
  /\ child \in {"none", "setup"} => failed = "no"
  /\ child = "report" => failed \in {"step", "environment"}
  /\ child = "give_up" => errMsg \/ failed = "exec"
  /\ errMsg => failed \in {"step", "environment"}
  /\ errno => errMsg \/ failed = "exec"
  /\ spawned = "err" => errno \/ child = "none"
  /\ errno => child = "gone" /\ parent \in {"spawning", "drop", "read_error", "returned"}
  /\ errno /\ parent \in {"drop", "read_error"} => spawned = "err"

\* The blame is never wrong, and a child that wrote its errno is never taken
\* for one that executed the command.
THEOREM DiagnosisIsRight == Spec => []DiagnosisMatches
<1> DEFINE Inv == DiagnosisInv /\ DiagnosisMatches
<1>1. Init => Inv
  BY DEF Init, DiagnosisInv, DiagnosisMatches
<1>2. TypeOK /\ RunInv /\ Inv /\ [Next]_vars => Inv'
  <2> SUFFICES ASSUME TypeOK, RunInv, Inv, [Next]_vars PROVE Inv'
    OBVIOUS
  <2> USE DEF DiagnosisInv, DiagnosisMatches, RunInv, BeforeExec, Early, GaveUp, parentVars,
              childVars, pipes, cgVars, kernel, timer
  <2>1. CASE UNCHANGED <<child, failed, errMsg, errno, spawned, result, parent>>
    BY <2>1
  <2>2. CASE Plan
    BY <2>2, PlanStep
  <2>3. CASE Fork \/ ForkFails
    BY <2>3 DEF Fork, ForkFails
  <2>4. CASE SpawnOk \/ SpawnErr \/ DropCommand
    BY <2>4 DEF SpawnOk, SpawnErr, DropCommand
  <2>5. CASE ReadSetupError
    BY <2>5 DEF ReadSetupError, Return
  <2>6. CASE Handoff \/ Finish
    BY <2>6 DEF Handoff, ReceiveListener, AbortKill, AbortWait, Attach, CallWait, Finish, Return
  <2>7. CASE SkipStep \/ ApplyStep
    BY <2>1, <2>7 DEF SkipStep, ApplyStep
  <2>8. CASE FailStep
    BY <2>8 DEF FailStep, AtStep
  <2>9. CASE ReportError \/ GiveUp
    BY <2>9 DEF ReportError, GiveUp
  <2>10. CASE Exec \/ ExecFails
    BY <2>10 DEF Exec, ExecFails
  <2>11. CASE DieInSetup \/ CommandExits \/ SigkillDelivered
    BY <2>11 DEF DieInSetup, CommandExits, SigkillDelivered, ChildDies
  <2>12. CASE CommandForks \/ DescendantExits \/ Returned \/ UNCHANGED vars
    BY <2>1, <2>12 DEF CommandForks, DescendantExits, Returned, vars
  <2>13. CASE WaitStep \/ KillStep \/ ClockStep \/ Recycle
    BY <2>1, <2>13 DEF WaitStep, KillStep, ClockStep, Recycle, Rest
  <2> QED
    BY <2>2, <2>3, <2>4, <2>5, <2>6, <2>7, <2>8, <2>9, <2>10, <2>11, <2>12, <2>13
       DEF Next, Parent, Spawn, Child
<1>3. Inv => DiagnosisMatches
  OBVIOUS
<1> QED
  BY <1>1, <1>2, <1>3, TypeCorrect, RunInvariant, PTL DEF Spec

\* run() leaves no process of its own behind, and only its timer can miss it.
THEOREM EveryChildAccountedFor == Spec => []ChildAccountedFor
<1>1. ReturnedMeansReaped /\ OnlyTheTimerStrays => ChildAccountedFor
  BY DEF ChildAccountedFor
<1> QED
  BY <1>1, NoProcessLeftBehind, SignalsStayHome, PTL

\* The answer is right about the command and about who is to blame.
THEOREM AnswersAreRight == Spec => []AnswerIsRight
<1>1. FailedMeansNeverRan /\ DiagnosisMatches => AnswerIsRight
  BY DEF AnswerIsRight
<1> QED
  BY <1>1, FailureMeansNeverRan, DiagnosisIsRight, PTL
-----------------------------------------------------------------------------
(* The cgroup. *)

CgroupInv ==
  /\ parent \in {"check", "plan", "cgroup"} => cgroup = "none"
  /\ CgroupRemoved

\* A normal end removes the cgroup unless a descendant lives in it; the errors
\* after its creation do not.
THEOREM CgroupIsRemoved == Spec => []CgroupRemoved
<1>1. Init => CgroupInv
  BY DEF Init, CgroupInv, CgroupRemoved
<1>2. TypeOK /\ RunInv /\ CgroupInv /\ [Next]_vars => CgroupInv'
  <2> SUFFICES ASSUME TypeOK, RunInv, CgroupInv, [Next]_vars PROVE CgroupInv'
    OBVIOUS
  <2> USE DEF CgroupInv, CgroupRemoved, parentVars, cgVars
  <2>1. CASE UNCHANGED <<parent, result, cgroup, descendant>>
    BY <2>1
  <2>2. CASE Begin \/ PlanFails
    BY <2>2 DEF Begin, PlanFails, Return
  <2>3. CASE RecordLayers \/ CreateCgroup
    BY <2>3 DEF RecordLayers, CreateCgroup, Return
  <2>4. CASE OpenChannels \/ Fork \/ ForkFails
    BY <2>4 DEF OpenChannels, Fork, ForkFails, Return
  <2>5. CASE SpawnOk \/ SpawnErr \/ DropCommand \/ ReadSetupError
    BY <2>5 DEF SpawnOk, SpawnErr, DropCommand, ReadSetupError, Return
  <2>6. CASE Handoff
    BY <2>6 DEF Handoff, ReceiveListener, AbortKill, AbortWait, Attach, CallWait, Return
  <2>7. CASE Finish
    BY <2>7 DEF Finish, Return
  <2>8. CASE Child
    BY <2>1, <2>8 DEF Child, SkipStep, ApplyStep, FailStep, ReportError, GiveUp, Exec, ExecFails,
       DieInSetup
  <2>9. CASE CommandExits \/ SigkillDelivered \/ Returned \/ UNCHANGED vars
    BY <2>1, <2>9 DEF CommandExits, SigkillDelivered, Returned, vars
  <2>10. CASE CommandForks \/ DescendantExits
    BY <2>10 DEF CommandForks, DescendantExits, RunInv
  <2>11. CASE WaitStep \/ KillStep \/ ClockStep \/ Recycle
    BY <2>1, <2>11 DEF WaitStep, KillStep, ClockStep, Recycle, Rest
  <2> QED
    BY <2>2, <2>3, <2>4, <2>5, <2>6, <2>7, <2>8, <2>9, <2>10, <2>11
       DEF Next, Parent, Plan, Spawn
<1>3. CgroupInv => CgroupRemoved
  BY DEF CgroupInv
<1> QED
  BY <1>1, <1>2, <1>3, TypeCorrect, RunInvariant, PTL DEF Spec
-----------------------------------------------------------------------------
(* The audit trail and the contract of Sandbox::run. *)

Events == {"start", "timeout", "exit"}

LEMMA ClosedTrail == Append(<<"start">>, "exit") = <<"start", "exit">>
<1>1. <<"start">> \in Seq(Events) /\ <<"start", "exit">> \in Seq(Events) /\ "exit" \in Events
  BY DEF Events
<1>2. /\ Append(<<"start">>, "exit") \in Seq(Events)
      /\ Len(Append(<<"start">>, "exit")) = 2
      /\ Append(<<"start">>, "exit")[1] = "start" /\ Append(<<"start">>, "exit")[2] = "exit"
  BY <1>1
<1>3. \A i \in 1..2 : Append(<<"start">>, "exit")[i] = <<"start", "exit">>[i]
  BY <1>2
<1> QED
  BY <1>1, <1>2, <1>3, SeqEqual

LEMMA TimedOutTrail ==
  Append(Append(<<"start">>, "timeout"), "exit") = <<"start", "timeout", "exit">>
<1> DEFINE s == Append(Append(<<"start">>, "timeout"), "exit")
           t == <<"start", "timeout", "exit">>
<1>1. <<"start">> \in Seq(Events) /\ t \in Seq(Events)
  BY DEF Events
<1>2. Append(<<"start">>, "timeout") \in Seq(Events) /\ "exit" \in Events
  BY <1>1 DEF Events
<1>3. /\ Len(Append(<<"start">>, "timeout")) = 2
      /\ Append(<<"start">>, "timeout")[1] = "start"
      /\ Append(<<"start">>, "timeout")[2] = "timeout"
  BY <1>1 DEF Events
<1>4. s \in Seq(Events) /\ Len(s) = 3 /\ s[1] = "start" /\ s[2] = "timeout" /\ s[3] = "exit"
  BY <1>2, <1>3
<1>5. \A i \in 1..3 : s[i] = t[i]
  BY <1>4
<1>6. Len(t) = 3
  OBVIOUS
<1> HIDE DEF s, t
<1> QED
  BY <1>1, <1>4, <1>5, <1>6, SeqEqual DEF s, t

\* The trail of a run that has not answered yet.
TrailInv ==
  /\ parent = "check" => events = <<>>
  /\ parent \notin {"check", "returned"} => events = <<"start">>
  /\ result = "none" <=> parent # "returned"
  /\ TrailTellsOutcome

LEMMA TrailInvInductive ==
  ASSUME TypeOK, TrailInv, [Next]_vars
  PROVE  TrailInv'
<1> USE DEF TrailInv, TrailTellsOutcome, parentVars
<1>1. CASE UNCHANGED <<parent, events, result>>
  BY <1>1
<1>2. ASSUME parent \notin {"check", "returned"}, parent' \notin {"check", "returned"},
             UNCHANGED <<events, result>>
      PROVE  TrailInv'
  BY <1>2
<1>3. ASSUME parent \notin {"check", "returned"}, UNCHANGED events,
             NEW answer \in Answers, answer \notin {"refused", "timeout", "report"}, Return(answer)
      PROVE  TrailInv'
  BY <1>3 DEF Return, Answers
<1>4. CASE Begin
  BY <1>4 DEF Begin, Return
<1>5. CASE PlanFails \/ RecordLayers \/ CreateCgroup \/ OpenChannels
  BY <1>2, <1>3, <1>5 DEF PlanFails, RecordLayers, CreateCgroup, OpenChannels, Answers
<1>6. CASE Fork \/ ForkFails \/ SpawnOk \/ SpawnErr \/ DropCommand
  BY <1>2, <1>6 DEF Fork, ForkFails, SpawnOk, SpawnErr, DropCommand
<1>7. CASE ReadSetupError
  <2>1. CASE spawned = "err"
    BY <1>3, <1>7, <2>1 DEF ReadSetupError, Answers
  <2>2. CASE spawned # "err"
    BY <1>2, <1>7, <2>2 DEF ReadSetupError
  <2> QED
    BY <2>1, <2>2
<1>8. CASE ReceiveListener \/ AbortKill \/ Attach \/ CallWait
  BY <1>2, <1>8 DEF ReceiveListener, AbortKill, Attach, CallWait
<1>9. CASE AbortWait
  BY <1>3, <1>9 DEF AbortWait, Answers
<1>10. CASE Finish
  <2>1. events = <<"start">>
    BY <1>10 DEF Finish
  <2> QED
    BY <1>10, <2>1, ClosedTrail, TimedOutTrail DEF Finish, Return
<1>11. CASE Child
  BY <1>1, <1>11 DEF Child, SkipStep, ApplyStep, FailStep, ReportError, GiveUp, Exec, ExecFails,
     DieInSetup
<1>12. CASE CommandExits \/ SigkillDelivered \/ CommandForks \/ DescendantExits
  BY <1>1, <1>12 DEF CommandExits, SigkillDelivered, CommandForks, DescendantExits
<1>13. CASE WaitStep \/ KillStep \/ ClockStep \/ Recycle \/ Returned \/ UNCHANGED vars
  BY <1>1, <1>13 DEF WaitStep, KillStep, ClockStep, Recycle, Rest, Returned, vars
<1> QED
  BY <1>4, <1>5, <1>6, <1>7, <1>8, <1>9, <1>10, <1>11, <1>12, <1>13
     DEF Next, Parent, Plan, Spawn, Handoff

LEMMA TrailInvariant == Spec => []TrailInv
<1>1. Init => TrailInv
  BY DEF Init, TrailInv, TrailTellsOutcome
<1>2. TypeOK /\ TrailInv /\ [Next]_vars => TrailInv'
  BY TrailInvInductive
<1> QED
  BY <1>1, <1>2, TypeCorrect, PTL DEF Spec

\* The lifecycle events of the trail agree with the answer.
THEOREM TrailIsRight == Spec => []TrailTellsOutcome
<1>1. TrailInv => TrailTellsOutcome
  BY DEF TrailInv
<1> QED
  BY <1>1, TrailInvariant, PTL
-----------------------------------------------------------------------------
(* Refinement. *)

LEMMA StartedIsOpen == events = <<"start">> => Trail = "open"
<1> SUFFICES ASSUME events = <<"start">> PROVE Trail = "open"
  OBVIOUS
<1>1. Len(events) = 1 /\ events[1] = "start"
  OBVIOUS
<1>2. events # <<>>
  BY <1>1
<1> QED
  BY <1>1, <1>2 DEF Trail

\* The contract sees nothing of a step that leaves these alone.
LEMMA Unseen ==
  ASSUME UNCHANGED <<req, events, ran, inForce, result>>,
         UNCHANGED child \/ (child # "command" /\ child' # "command")
  PROVE  UNCHANGED Contract!cvars
<1>1. UNCHANGED Confined
  BY DEF Confined, Required, NetIsolate
<1>2. UNCHANGED <<Trail, Answer, CommandState>>
  BY DEF Trail, Answer, CommandState
<1> QED
  BY <1>1, <1>2 DEF Contract!cvars

\* An error that ends the run while its command is not live.
LEMMA FailStepOfContract ==
  ASSUME TrailInv, parent \notin {"check", "returned"}, CommandState # "live",
         UNCHANGED <<req, events, ran, inForce, child>>,
         NEW answer \in {"bad_plan", "no_channel", "setup", "spawn", "network"}, Return(answer)
  PROVE  Contract!Fail
<1>1. Trail = "open" /\ Answer = "pending"
  BY StartedIsOpen DEF TrailInv, Answer
<1>2. Answer' = "failed"
  BY DEF Return, Answer
<1>3. UNCHANGED <<Trail, CommandState, Confined>>
  BY DEF Trail, CommandState, Confined, Required, NetIsolate
<1> QED
  BY <1>1, <1>2, <1>3 DEF Contract!Fail

LEMMA StepRefines ==
  ASSUME TypeOK, SetupInv, RunInv, TrailInv, [Next]_vars
  PROVE  [Contract!CNext]_Contract!cvars
<1> USE DEF parentVars, childVars
<1>1. CASE Begin
  <2>1. events = <<>> /\ Trail = "none" /\ Answer = "pending"
    BY <1>1 DEF Begin, TrailInv, Trail, Answer
  <2>2. UNCHANGED <<CommandState, Confined>>
    BY <1>1 DEF Begin, CommandState, Confined, Required, NetIsolate
  <2>3. CASE Return("refused") /\ UNCHANGED events
    <3>1. Answer' = "refused" /\ Trail' = Trail
      BY <2>3 DEF Return, Answer, Trail
    <3> QED
      BY <2>1, <2>2, <3>1 DEF Contract!Refuse, Contract!CNext
  <2>4. CASE events' = <<"start">> /\ UNCHANGED result
    <3>1. Answer' = Answer
      BY <2>4 DEF Answer
    <3>2. Len(events') = 1 /\ events'[1] = "start"
      BY <2>4
    <3>3. events' # <<>>
      BY <3>2
    <3>4. Trail' = "open"
      BY <3>2, <3>3 DEF Trail
    <3> QED
      BY <2>1, <2>2, <3>1, <3>4 DEF Contract!Open, Contract!CNext
  <2> QED
    BY <1>1, <2>3, <2>4 DEF Begin
<1>2. CASE PlanFails \/ (OpenChannels /\ parent' = "returned")
  <2>1. CommandState # "live"
    BY <1>2 DEF PlanFails, OpenChannels, RunInv, Early, CommandState
  <2> QED
    BY <1>2, <2>1, FailStepOfContract DEF PlanFails, OpenChannels, Contract!CNext
<1>3. CASE RecordLayers
  <2>1. CASE req.dry
    <3>1. Trail = "open" /\ Answer = "pending" /\ CommandState = "never"
      BY <1>3, StartedIsOpen
         DEF RecordLayers, TrailInv, RunInv, Early, Answer, CommandState
    <3>2. Answer' = "planned"
      BY <1>3, <2>1 DEF RecordLayers, Return, Answer
    <3>3. UNCHANGED <<Trail, CommandState, Confined>>
      BY <1>3 DEF RecordLayers, Trail, CommandState, Confined, Required, NetIsolate
    <3> QED
      BY <3>1, <3>2, <3>3 DEF Contract!AnswerPlan, Contract!CNext
  <2>2. CASE ~req.dry
    BY <1>3, <2>2, Unseen DEF RecordLayers
  <2> QED
    BY <2>1, <2>2
<1>4. CASE CreateCgroup \/ (OpenChannels /\ parent' # "returned")
  BY <1>4, Unseen DEF CreateCgroup, OpenChannels, Return
<1>5. CASE Fork
  BY <1>5, Unseen DEF Fork, RunInv, Early
<1>6. CASE ForkFails \/ SpawnOk \/ SpawnErr \/ DropCommand
  BY <1>6, Unseen DEF ForkFails, SpawnOk, SpawnErr, DropCommand
<1>7. CASE ReadSetupError
  <2>1. CASE spawned = "err"
    <3>1. CommandState # "live"
      BY <2>1 DEF RunInv, CommandState
    <3> QED
      BY <1>7, <2>1, <3>1, FailStepOfContract DEF ReadSetupError, Contract!CNext
  <2>2. CASE spawned # "err"
    BY <1>7, <2>2, Unseen DEF ReadSetupError
  <2> QED
    BY <2>1, <2>2
<1>8. CASE ReceiveListener \/ AbortKill \/ Attach \/ CallWait
  BY <1>8, Unseen DEF ReceiveListener, AbortKill, Attach, CallWait
<1>9. CASE AbortWait
  <2>1. CommandState # "live"
    BY <1>9 DEF AbortWait, ReapChild, RunInv, CommandState
  <2> QED
    BY <1>9, <2>1, FailStepOfContract DEF AbortWait, Contract!CNext
<1>10. CASE Finish
  <2>1. Trail = "open" /\ Answer = "pending" /\ CommandState # "live"
    BY <1>10, StartedIsOpen DEF Finish, TrailInv, RunInv, Answer, CommandState
  <2>2. UNCHANGED <<CommandState, Confined>>
    BY <1>10 DEF Finish, CommandState, Confined, Required, NetIsolate
  <2>3. Answer' \in {"timeout", "report"}
    BY <1>10 DEF Finish, Return, Answer
  <2>4. events' \in {<<"start", "timeout", "exit">>, <<"start", "exit">>}
    BY <1>10, ClosedTrail, TimedOutTrail DEF Finish, TrailInv
  <2>5. Trail' = "closed"
    <3>1. CASE events' = <<"start", "exit">>
      <4>1. Len(events') = 2 /\ events'[2] = "exit"
        BY <3>1
      <4>2. events' # <<>>
        BY <4>1
      <4> QED
        BY <4>1, <4>2 DEF Trail
    <3>2. CASE events' = <<"start", "timeout", "exit">>
      <4>1. Len(events') = 3 /\ events'[3] = "exit"
        BY <3>2
      <4>2. events' # <<>>
        BY <4>1
      <4> QED
        BY <4>1, <4>2 DEF Trail
    <3> QED
      BY <2>4, <3>1, <3>2
  <2> QED
    BY <2>1, <2>2, <2>3, <2>5 DEF Contract!Finish, Contract!CNext
<1>11. CASE ApplyStep
  <2>1. CommandState # "live"
    BY <1>11 DEF ApplyStep, AtStep, CommandState
  <2>2. UNCHANGED <<Trail, CommandState, Answer>>
    BY <1>11 DEF ApplyStep, AtStep, Trail, CommandState, Answer
  <2>3. Confined' \in BOOLEAN
    BY DEF Confined
  <2> QED
    BY <2>1, <2>2, <2>3 DEF Contract!Prepare, Contract!CNext
<1>12. CASE Exec
  <2>1. Trail = "open" /\ Answer = "pending" /\ CommandState = "never"
    BY <1>12, StartedIsOpen DEF Exec, TrailInv, RunInv, BeforeExec, Answer, CommandState
  <2>2. Confined
    BY <1>12, AllStepsPassed DEF Exec, Confined
  <2>3. CommandState' = "live"
    BY <1>12 DEF Exec, CommandState
  <2>4. UNCHANGED <<Trail, Confined, Answer>>
    BY <1>12 DEF Exec, Trail, Confined, Required, NetIsolate, Answer
  <2> QED
    BY <2>1, <2>2, <2>3, <2>4 DEF Contract!Launch, Contract!CNext
<1>13. CASE SkipStep \/ FailStep \/ ReportError \/ GiveUp \/ ExecFails \/ DieInSetup
  BY <1>13, Unseen DEF SkipStep, FailStep, ReportError, GiveUp, ExecFails, DieInSetup, AtStep,
     BeforeExec
<1>14. CASE CommandExits \/ SigkillDelivered
  <2>1. child' = "gone" /\ UNCHANGED <<req, events, ran, inForce, result>>
    BY <1>14 DEF CommandExits, SigkillDelivered
  <2>2. CASE child = "command"
    <3>1. CommandState = "live" /\ CommandState' = "dead"
      BY <2>1, <2>2 DEF RunInv, CommandState
    <3>2. UNCHANGED <<Trail, Confined, Answer>>
      BY <2>1 DEF Trail, Confined, Required, NetIsolate, Answer
    <3> QED
      BY <3>1, <3>2 DEF Contract!Die, Contract!CNext
  <2>3. CASE child # "command"
    BY <2>1, <2>3, Unseen
  <2> QED
    BY <2>2, <2>3
<1>15. CASE CommandForks \/ DescendantExits \/ Returned \/ UNCHANGED vars
  BY <1>15, Unseen DEF CommandForks, DescendantExits, Returned, vars
<1>16. CASE WaitStep \/ KillStep \/ ClockStep \/ Recycle
  BY <1>16, Unseen DEF WaitStep, KillStep, ClockStep, Recycle, Rest
<1> QED
  BY <1>1, <1>2, <1>3, <1>4, <1>5, <1>6, <1>7, <1>8, <1>9, <1>10, <1>11, <1>12, <1>13, <1>14,
     <1>15, <1>16 DEF Next, Parent, Plan, Spawn, Handoff, Child

\* A run of the Linux backend is a run that the contract of Sandbox::run allows.
THEOREM LinuxRunKeepsContract == Spec => ContractSpec
<1>1. Init => Contract!CInit
  BY DEF Init, Contract!CInit, Trail, CommandState, Confined, Answer
<1>2. TypeOK /\ SetupInv /\ RunInv /\ TrailInv /\ [Next]_vars => [Contract!CNext]_Contract!cvars
  BY StepRefines
<1> QED
  BY <1>1, <1>2, TypeCorrect, SetupInvariant, RunInvariant, TrailInvariant, PTL
     DEF Spec, ContractSpec, Contract!CSpec

-----------------------------------------------------------------------------
(* No setup step defeats a later one. *)

\* A step fails for good only where it is at that moment, so what makes
\* StepsCanSucceed inductive is what is not in force yet: the capabilities are
\* still there when the mounts are made, and the filter is not when namespaces,
\* mounts and Landlock are.
StepInv ==
  /\ \A i \in step..Len(SetupOrder) : SetupOrder[i] \notin inForce
  /\ StepsCanSucceed

\* A request whose steps can all succeed.
Feasible ==
  (req.isolate \/ req.landlock) /\ ~(req.mode = "allowlist" /\ req.filter = "errno")

LEMMA NoStepIsHopeless ==
  ASSUME TypeOK, SetupInv, StepInv, Feasible, AtStep, Planned(NextStep)
  PROVE  ~Hopeless(NextStep)
<1>1. step \in 1..9 /\ SetupOrder[step] = NextStep
  BY OrderLemma DEF AtStep, NextStep, TypeOK, RunTypeOK
<1>2. \A i \in 1..9 : i < step => Passed(SetupOrder[i])
  BY <1>1 DEF SetupInv
<1>3. \A i \in 1..9 : i >= step => SetupOrder[i] \notin inForce
  BY <1>1, OrderLemma DEF StepInv
<1>4. /\ step <= 2 => "caps" \notin inForce
      /\ step <= 7 => "seccomp" \notin inForce
  BY <1>1, <1>3 DEF SetupOrder
<1>5. /\ step > 1 => Passed("namespaces")
      /\ step > 4 => Passed("no_new_privs")
  BY <1>1, <1>2 DEF SetupOrder
<1>6. step > 4 => "no_new_privs" \in inForce
  BY <1>5 DEF Passed, Planned, Unsupported, Effect
<1>7. req.isolate /\ step > 1 => "namespaces" \in inForce
  BY <1>5 DEF Passed, Planned, Unsupported, Effect
<1>8. /\ NextStep = "namespaces" => step = 1
      /\ NextStep = "mounts" => step = 2
      /\ NextStep = "landlock" => step = 5
      /\ NextStep = "seccomp" => step = 7
      /\ NextStep = "notify" => step = 8
  BY <1>1 DEF SetupOrder
<1>9. Permitted(NextStep)
  <2>1. NextStep = "mounts" => req.isolate
    BY DEF Planned
  <2> QED
    BY <1>4, <1>6, <1>7, <1>8, <2>1 DEF Permitted
<1>10. ~(Filtered(NextStep) /\ req.filter # "kill")
  <2>1. NextStep = "notify" => req.mode = "allowlist"
    BY DEF Planned
  <2> QED
    BY <1>4, <1>8, <2>1 DEF Filtered, Feasible
<1>11. ~(Unsupported(NextStep) /\ ~req.isolate)
  BY DEF Unsupported, Feasible
<1> QED
  BY <1>9, <1>10, <1>11 DEF Hopeless

LEMMA StepInvInductive ==
  ASSUME TypeOK, SetupInv, StepInv, [Next]_vars
  PROVE  StepInv'
<1> USE DEF vars, parentVars, childVars
<1>1. CASE UNCHANGED <<req, step, inForce, failed>>
  BY <1>1 DEF StepInv, StepsCanSucceed
<1>2. CASE SkipStep \/ ApplyStep
  <2>1. UNCHANGED <<req, failed>> /\ step' = step + 1 /\ step \in 1..9 /\ step' \in 2..10
    BY <1>2, OrderLemma DEF SkipStep, ApplyStep, AtStep, TypeOK, RunTypeOK
  <2>2. inForce' \subseteq inForce \cup {SetupOrder[step], "netns"}
    BY <1>2 DEF SkipStep, ApplyStep, Effect, NextStep
  <2>3. ASSUME NEW i \in step'..9 PROVE SetupOrder[i] \notin inForce'
    <3>1. i \in 1..9 /\ i > step
      BY <2>1
    <3>2. SetupOrder[i] # SetupOrder[step] /\ SetupOrder[i] # "netns"
      BY <2>1, <3>1 DEF SetupOrder
    <3>3. SetupOrder[i] \notin inForce
      BY <2>1, <3>1, OrderLemma DEF StepInv
    <3> QED
      BY <2>2, <3>2, <3>3
  <2> QED
    BY <2>1, <2>3, OrderLemma DEF StepInv, StepsCanSucceed
<1>3. CASE FailStep
  <2>1. UNCHANGED <<req, step, inForce>>
    BY <1>3 DEF FailStep
  <2>2. Feasible => failed' # "step"
    <3>1. Feasible => ~Hopeless(NextStep)
      BY <1>3, NoStepIsHopeless DEF FailStep
    <3> QED
      BY <1>3, <3>1 DEF FailStep
  <2> QED
    BY <2>1, <2>2 DEF StepInv, StepsCanSucceed, Feasible
<1>4. CASE ExecFails
  BY <1>4 DEF ExecFails, StepInv, StepsCanSucceed
<1>5. CASE Fork \/ ReportError \/ GiveUp \/ Exec \/ DieInSetup \/ CommandExits \/ SigkillDelivered
  BY <1>1, <1>5 DEF Fork, ReportError, GiveUp, Exec, DieInSetup, CommandExits, SigkillDelivered
<1>6. CASE Plan \/ Handoff \/ Finish
  BY <1>1, <1>6 DEF Plan, Begin, PlanFails, RecordLayers, CreateCgroup, OpenChannels, Handoff,
     ReceiveListener, AbortKill, AbortWait, Attach, CallWait, Finish
<1>7. CASE ForkFails \/ SpawnOk \/ SpawnErr \/ DropCommand \/ ReadSetupError
  BY <1>1, <1>7 DEF ForkFails, SpawnOk, SpawnErr, DropCommand, ReadSetupError
<1>8. CASE WaitStep \/ KillStep \/ ClockStep \/ Recycle \/ CommandForks \/ DescendantExits
           \/ Returned \/ UNCHANGED vars
  BY <1>1, <1>8 DEF WaitStep, KillStep, ClockStep, Recycle, Rest, CommandForks, DescendantExits, Returned
<1> QED
  BY <1>2, <1>3, <1>4, <1>5, <1>6, <1>7, <1>8 DEF Next, Parent, Spawn, Child

\* On a host that can confine, a setup step fails only when the environment
\* fails it: nothing in the order of ExecPlan::apply takes from a later step what
\* it needs.
THEOREM StepsDoNotCollide == Spec => []StepsCanSucceed
<1>1. Init => StepInv
  BY DEF Init, StepInv, StepsCanSucceed
<1>2. TypeOK /\ SetupInv /\ StepInv /\ [Next]_vars => StepInv'
  BY StepInvInductive
<1>3. StepInv => StepsCanSucceed
  BY DEF StepInv
<1> QED
  BY <1>1, <1>2, <1>3, TypeCorrect, SetupInvariant, PTL DEF Spec
=============================================================================
