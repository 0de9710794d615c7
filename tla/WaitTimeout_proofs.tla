-------------------------- MODULE WaitTimeout_proofs --------------------------
(* Theorems about WaitTimeout, for every set of timeouts and every clock bound. *)
EXTENDS WaitTimeout, TLAPS

LEMMA TimeoutsAreNat == Timeouts \subseteq Nat
BY TimeAssumption

\* Every variable keeps its type.
THEOREM WTypeCorrect == WSpec => []WTypeOK
<1> USE DEF WTypeOK, ProcStates, WaiterStates, KillerStates
<1>1. WInit => WTypeOK
  <2> SUFFICES ASSUME WInit PROVE WTypeOK
    OBVIOUS
  <2> QED
    BY DEF WInit, Fresh, NoTimer
<1>2. WTypeOK /\ [WNext]_wvars => WTypeOK'
  <2> SUFFICES ASSUME WTypeOK, [WNext]_wvars PROVE WTypeOK'
    OBVIOUS
  <2> USE DEF kernel, timer
  <2>1. ASSUME NEW t \in {{}} \cup {{u} : u \in Timeouts}, StartWait(t) PROVE WTypeOK'
    <3>1. t \subseteq Nat
      BY TimeoutsAreNat
    <3> QED
      BY <2>1, <3>1 DEF StartWait
  <2>2. CASE WaitReturns \/ SetDone \/ JoinKiller
    BY <2>2 DEF WaitReturns, SetDone, JoinKiller, ReapChild
  <2>3. CASE Tick
    BY <2>3 DEF Tick
  <2>4. CASE KillerStarts
    BY <2>4 DEF KillerStarts
  <2>5. CASE KillerPolls \/ KillerLastCheck \/ KillerSignals
    BY <2>5 DEF KillerPolls, KillerLastCheck, KillerSignals, SendSigkill
  <2>6. CASE (ChildExits \/ ChildDies) /\ UNCHANGED timer
    BY <2>6 DEF ChildExits, ChildDies
  <2>7. CASE PidRecycled \/ Over \/ UNCHANGED wvars
    BY <2>7 DEF PidRecycled, Over, wvars
  <2> QED
    BY <2>1, <2>2, <2>3, <2>4, <2>5, <2>6, <2>7 DEF WNext, Start
<1> QED
  BY <1>1, <1>2, PTL DEF WSpec

-----------------------------------------------------------------------------
(* The two threads and the child. *)

\* A signal of ours is the mark of a killer thread that finished by killing,
\* and what ended the child is recorded from its death on.
SignalInv ==
  /\ sigkill => killer = "killed"
  /\ ended = "killed" => sigkill
  /\ proc \in {"zombie", "reaped"} => ended # "no"

\* How far the main thread and the killer thread can be apart.
JoinInv ==
  /\ waiter = "idle" => killer = "off"
  /\ waiter \in {"reaped", "joining", "returned"} => proc = "reaped"
  /\ waiter \in {"reaped", "joining"} => killer # "off"
  /\ waiter = "returned" => killer \in {"off", "stood_down", "killed"}
  /\ done => waiter \in {"joining", "returned"}
  /\ waiter = "joining" => done
  /\ waiter = "returned" /\ killer # "off" => done

\* Past the deadline the clock is past it for good, and a killer that decided
\* to signal did so before `done` was set, or is not in time for it any more.
DeadlineInv ==
  /\ killer \in {"last_check", "signal", "killed"} => limit <= now
  /\ killer \in {"signal", "killed"} /\ done => limit <= doneAt

WaitInv == SignalInv /\ JoinInv /\ DeadlineInv

LEMMA WaitInvInductive ==
  ASSUME WTypeOK, WaitInv, [WNext]_wvars
  PROVE  WaitInv'
<1> USE DEF WaitInv, SignalInv, JoinInv, DeadlineInv, WTypeOK, ProcStates, WaiterStates,
            KillerStates, kernel, timer
<1>1. ASSUME NEW t \in {{}} \cup {{u} : u \in Timeouts}, StartWait(t) PROVE WaitInv'
  BY <1>1 DEF StartWait
<1>2. CASE WaitReturns
  BY <1>2 DEF WaitReturns, ReapChild
<1>3. CASE SetDone \/ JoinKiller
  BY <1>3 DEF SetDone, JoinKiller
<1>4. CASE Tick \/ KillerStarts
  BY <1>4 DEF Tick, KillerStarts
<1>5. CASE KillerPolls \/ KillerLastCheck
  BY <1>5 DEF KillerPolls, KillerLastCheck
<1>6. CASE KillerSignals
  BY <1>6 DEF KillerSignals, SendSigkill
<1>7. CASE (ChildExits \/ ChildDies) /\ UNCHANGED timer
  BY <1>7 DEF ChildExits, ChildDies
<1>8. CASE PidRecycled \/ Over \/ UNCHANGED wvars
  BY <1>8 DEF PidRecycled, Over, wvars
<1> QED
  BY <1>1, <1>2, <1>3, <1>4, <1>5, <1>6, <1>7, <1>8 DEF WNext, Start

LEMMA WaitInvariant == WSpec => [](WTypeOK /\ WaitInv)
<1>1. WInit => WaitInv
  BY DEF WInit, Fresh, NoTimer, WaitInv, SignalInv, JoinInv, DeadlineInv
<1>2. WTypeOK /\ WaitInv /\ [WNext]_wvars => WaitInv'
  BY WaitInvInductive
<1> QED
  BY <1>1, <1>2, WTypeCorrect, PTL DEF WSpec

\* A child that our SIGKILL ended is never reported as one that ended by itself.
THEOREM KillsAreReported == WSpec => []NoUnreportedKill
<1>1. WTypeOK /\ WaitInv => NoUnreportedKill
  BY DEF WTypeOK, WaitInv, SignalInv, JoinInv, NoUnreportedKill, timed_out
<1> QED
  BY <1>1, WaitInvariant, PTL

\* wait_with_timeout returns joined, and with the child reaped.
THEOREM ReturnsJoined == WSpec => []NothingLeftBehind
<1>1. WaitInv => NothingLeftBehind
  BY DEF WaitInv, JoinInv, NothingLeftBehind
<1> QED
  BY <1>1, WaitInvariant, PTL

\* A wait whose `done` flag was stored before its deadline is never reported as
\* timed out, whatever the scheduling of the killer thread.
THEOREM NoTimeoutBeforeDeadline == WSpec => []NoFalseTimeout
<1>1. WTypeOK /\ WaitInv => NoFalseTimeout
  BY DEF WTypeOK, WaitInv, JoinInv, DeadlineInv, NoFalseTimeout, timed_out
<1> QED
  BY <1>1, WaitInvariant, PTL
=============================================================================
