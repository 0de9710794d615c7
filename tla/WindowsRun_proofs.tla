------------------------- MODULE WindowsRun_proofs -------------------------
(* Theorems about WindowsRun, for every set of requests, faults and timeouts. *)
EXTENDS WindowsRun, SequenceTheorems, TLAPS

\* What the assumptions say of the request of a run.
LEMMA RequestIs ==
  ASSUME req \in Requests
  PROVE  /\ req.container \in BOOLEAN /\ req.image \in BOOLEAN
         /\ req.available \in BOOLEAN /\ req.allowed \in BOOLEAN /\ req.dry \in BOOLEAN
         /\ req.timeout = {} \/ \E t \in Timeouts : req.timeout = {t}
BY RequestsAssumption DEF AllRequests

\* A wait that is not INFINITE is as long as the timeout of the profile.
LEMMA MillisIsTimeout ==
  ASSUME req \in Requests, Millis # Infinite
  PROVE  \E t \in Timeouts : req.timeout = {t} /\ Millis = t
<1>1. req.timeout # {}
  BY DEF Millis
<1>2. PICK t \in Timeouts : req.timeout = {t}
  BY <1>1, RequestIs
<1>3. (CHOOSE u \in req.timeout : TRUE) = t
  BY <1>2
<1>4. Millis = IF t < Infinite THEN t ELSE Infinite
  BY <1>1, <1>3 DEF Millis
<1> QED
  BY <1>2, <1>4

-----------------------------------------------------------------------------
(* Types. *)

LEMMA ReturnKeepsType ==
  ASSUME TypeOK, NEW r \in Answers, Return(r), events' \in Seq({"start", "timeout", "exit"})
  PROVE  TypeOK'
BY DEF TypeOK, Return, DropJob, EndMembers, tree, ParentStates

LEMMA TypeInductive ==
  ASSUME TypeOK, [Next]_vars
  PROVE  TypeOK'
<1> USE DEF Answers, ParentStates
<1>1. CASE Refuse
  BY <1>1, ReturnKeepsType DEF Refuse, TypeOK
<1>2. CASE Begin
  BY <1>2 DEF Begin, TypeOK, tree
<1>3. CASE BuildArgs
  <2>1. ASSUME NEW r \in Answers, Return(r), UNCHANGED events PROVE TypeOK'
    BY <2>1, ReturnKeepsType DEF TypeOK
  <2> QED
    BY <1>3, <2>1 DEF BuildArgs, TypeOK, tree
<1>4. CASE CreateJob
  <2>1. ASSUME NEW r \in Answers, Return(r), UNCHANGED events PROVE TypeOK'
    BY <2>1, ReturnKeepsType DEF TypeOK
  <2> QED
    BY <1>4, <2>1 DEF CreateJob, TypeOK, tree
<1>5. CASE RecordLayers
  <2>1. ASSUME NEW r \in Answers, Return(r), UNCHANGED events PROVE TypeOK'
    BY <2>1, ReturnKeepsType DEF TypeOK
  <2> QED
    BY <1>5, <2>1 DEF RecordLayers, TypeOK, tree
<1>6. CASE Spawn
  <2>1. ASSUME NEW r \in Answers, Return(r), UNCHANGED events PROVE TypeOK'
    BY <2>1, ReturnKeepsType DEF TypeOK
  <2> QED
    BY <1>6, <2>1 DEF Spawn, TypeOK
<1>7. CASE Assign
  <2>1. ASSUME NEW r \in Answers, Return(r), UNCHANGED events PROVE TypeOK'
    BY <2>1, ReturnKeepsType DEF TypeOK
  <2>2. CASE Return("assign")
    BY <1>7, <2>1, <2>2 DEF Assign
  <2>3. CASE /\ member' = TRUE /\ parent' = "wait"
             /\ UNCHANGED <<req, result, job, child, inside, outside, endedAt, elapsed, timedOut>>
    BY <1>7, <2>3 DEF Assign, TypeOK
  <2> QED
    BY <1>7, <2>2, <2>3 DEF Assign
<1>8. CASE WaitForProcess
  <2>1. child # "ended" => req.timeout # {}
    BY <1>8, MillisIsTimeout DEF WaitForProcess, Expired, TypeOK
  <2>2. CASE child = "ended"
    BY <1>8, <2>2 DEF WaitForProcess, TypeOK, tree
  <2>3. CASE child # "ended"
    BY <1>8, <2>1, <2>3 DEF WaitForProcess, TypeOK, tree
  <2> QED
    BY <2>2, <2>3
<1>9. CASE Terminate
  BY <1>9 DEF Terminate, EndMembers, TypeOK, tree
<1>10. CASE Finish
  <2> DEFINE E == {"start", "timeout", "exit"}
             new == IF timedOut THEN <<"timeout", "exit">> ELSE <<"exit">>
  <2>1. new \in Seq(E)
    <3>1. <<"exit">> \in Seq(E) /\ <<"timeout", "exit">> \in Seq(E)
      OBVIOUS
    <3> QED
      BY <3>1, Zenon
  <2>2. events \in Seq(E) /\ events' = events \o new
    BY <1>10 DEF Finish, TypeOK
  <2> HIDE DEF E, new
  <2>3. events' \in Seq(E)
    BY <2>1, <2>2, ConcatProperties
  <2> QED
    BY <1>10, <2>3, ReturnKeepsType DEF Finish, E
<1>11. CASE KillClient
  BY <1>11 DEF KillClient, TypeOK
<1>12. CASE Command
  BY <1>12 DEF Command, ChildEnds, Forks, OffspringEnds, TypeOK
<1>13. CASE Tick
  BY <1>13, TimeAssumption DEF Tick, TypeOK, tree
<1>14. CASE Over \/ UNCHANGED vars
  BY <1>14 DEF Over, vars, TypeOK
<1> QED
  BY <1>1, <1>2, <1>3, <1>4, <1>5, <1>6, <1>7, <1>8, <1>9, <1>10, <1>11, <1>12, <1>13, <1>14
  DEF Next, Parent

\* Every variable keeps its type, and only a run with a timeout times out.
THEOREM WinTypeCorrect == Spec => []TypeOK
<1>1. Init => TypeOK
  <2>1. 0 \in 0..MaxTime /\ <<>> \in Seq({"start", "timeout", "exit"})
    BY TimeAssumption
  <2> QED
    BY <2>1 DEF Init, TypeOK, ParentStates
<1>2. TypeOK /\ [Next]_vars => TypeOK'
  BY TypeInductive
<1> QED
  BY <1>1, <1>2, PTL DEF Spec

-----------------------------------------------------------------------------
(* The job. *)

BeforeSpawn == {"check", "args", "job", "plan", "spawn"}

WithJob == {"plan", "spawn", "assign", "wait", "terminate", "reap"}

Joined == {"wait", "terminate", "reap"}

\* Where the parent is, what its job is, and whom it holds: the job is open exactly
\* between its creation and the return; the command is a member from the assignment
\* on, in the Job Object backend; once the job is closed no member lives.
JobInv ==
  /\ parent \in WithJob /\ ~req.container => job = "open"
  /\ req.container \/ parent \in {"check", "args", "job"} => job = "none"
  /\ parent = "returned" => job # "open"
  /\ job = "closed" => parent = "returned" /\ inside # "live" /\ (member => child # "running")
  /\ parent \in BeforeSpawn => child = "none"
  /\ child = "none" => inside = "none" /\ outside = "none"
  /\ parent \in BeforeSpawn \cup {"assign"} => ~member
  /\ parent \in Joined /\ ~req.container => member
  /\ parent \in {"terminate", "reap", "assign", "plan", "job"} => ~req.container
  /\ parent = "args" => req.container
  /\ member => job # "none"
  /\ inside # "none" => member
  /\ parent = "returned" /\ child = "running" => result = "assign" /\ ~member

JobStep == TypeOK /\ JobInv

\* Any way out keeps it, if nothing is running or the assignment has failed.
LEMMA ReturnKeepsJob ==
  ASSUME JobStep, NEW r \in Answers, Return(r), parent # "returned",
         child = "running" => r = "assign" /\ ~member
  PROVE  JobInv'
BY RequestIs DEF JobStep, JobInv, TypeOK, ParentStates, Answers, Return, DropJob, EndMembers,
                tree, BeforeSpawn, WithJob, Joined

LEMMA JobInductive ==
  ASSUME JobStep, [Next]_vars
  PROVE  JobInv'
<1> USE DEF BeforeSpawn, WithJob, Joined
<1>a. /\ req.container \in BOOLEAN /\ parent \in ParentStates
      /\ child \in {"none", "running", "ended"} /\ member \in BOOLEAN
      /\ inside \in {"none", "live", "ended"} /\ job \in {"none", "open", "closed"}
  BY RequestIs DEF JobStep, TypeOK
<1>b. JobInv
  BY DEF JobStep
<1>1. CASE Refuse
  BY <1>1, <1>b, ReturnKeepsJob DEF Refuse, JobInv, Answers
<1>2. CASE Begin
  BY <1>2, <1>a, <1>b DEF Begin, JobInv, tree
<1>3. CASE BuildArgs
  <2>1. ASSUME NEW r \in Answers, Return(r) PROVE JobInv'
    BY <1>3, <1>b, <2>1, ReturnKeepsJob DEF BuildArgs, JobInv
  <2> QED
    BY <1>3, <1>a, <1>b, <2>1 DEF BuildArgs, JobInv, tree, Answers
<1>4. CASE CreateJob
  <2>1. ASSUME NEW r \in Answers, Return(r) PROVE JobInv'
    BY <1>4, <1>b, <2>1, ReturnKeepsJob DEF CreateJob, JobInv
  <2> QED
    BY <1>4, <1>a, <1>b, <2>1 DEF CreateJob, JobInv, tree, Answers
<1>5. CASE RecordLayers
  <2>1. ASSUME NEW r \in Answers, Return(r) PROVE JobInv'
    BY <1>5, <1>b, <2>1, ReturnKeepsJob DEF RecordLayers, JobInv
  <2> QED
    BY <1>5, <1>a, <1>b, <2>1 DEF RecordLayers, JobInv, tree, Answers
<1>6. CASE Spawn
  <2>1. ASSUME NEW r \in Answers, Return(r) PROVE JobInv'
    BY <1>6, <1>b, <2>1, ReturnKeepsJob DEF Spawn, JobInv
  <2> QED
    BY <1>6, <1>a, <1>b, <2>1 DEF Spawn, JobInv, Answers
<1>7. CASE Assign
  <2>1. ASSUME Return("assign") PROVE JobInv'
    BY <1>7, <1>b, <2>1, ReturnKeepsJob DEF Assign, JobInv, Answers
  <2> QED
    BY <1>7, <1>a, <1>b, <2>1 DEF Assign, JobInv
<1>8. CASE WaitForProcess
  BY <1>8, <1>a, <1>b DEF WaitForProcess, JobInv, tree
<1>9. CASE Terminate
  BY <1>9, <1>a, <1>b DEF Terminate, EndMembers, JobInv, tree
<1>10. CASE Finish
  <2>1. child = "ended" /\ parent # "returned"
    BY <1>10, <1>a DEF Finish, Reaped
  <2>2. PICK r \in Answers : Return(r)
    BY <1>10 DEF Finish, Answers
  <2> QED
    BY <2>1, <2>2, ReturnKeepsJob
<1>11. CASE KillClient
  BY <1>11, <1>a, <1>b DEF KillClient, JobInv
<1>12. CASE Command
  BY <1>12, <1>a, <1>b DEF Command, ChildEnds, Forks, OffspringEnds, JobInv
<1>13. CASE Tick
  BY <1>13, <1>b DEF Tick, JobInv, tree
<1>14. CASE Over \/ UNCHANGED vars
  BY <1>14, <1>b DEF Over, vars, JobInv
<1> QED
  BY <1>1, <1>2, <1>3, <1>4, <1>5, <1>6, <1>7, <1>8, <1>9, <1>10, <1>11, <1>12, <1>13, <1>14
  DEF Next, Parent

\* The invariant holds in every behaviour.
LEMMA JobAlways == Spec => []JobInv
<1>1. Init => JobInv
  BY DEF Init, JobInv, BeforeSpawn, WithJob, Joined
<1>2. TypeOK /\ JobInv /\ [Next]_vars => JobInv'
  BY JobInductive DEF JobStep
<1> QED
  BY <1>1, <1>2, WinTypeCorrect, PTL DEF Spec

\* Whichever way run() goes, no member of its job is left: Drop closes the handle.
THEOREM JobEnds == Spec => []JobEndsWithRun
<1>1. TypeOK /\ JobInv => JobEndsWithRun
  BY DEF TypeOK, JobInv, JobEndsWithRun
<1> QED
  BY <1>1, WinTypeCorrect, JobAlways, PTL

\* Only a child that could not be assigned to the job outlives run().
THEOREM UnassignedAtMost == Spec => []OnlyUnassignedSurvives
<1>1. JobInv => OnlyUnassignedSurvives
  BY DEF JobInv, OnlyUnassignedSurvives
<1> QED
  BY <1>1, JobAlways, PTL

-----------------------------------------------------------------------------
(* The timeout. *)

\* A verdict of the Job Object backend, once taken, stays true: the deadline has
\* passed, and a command that has ended since ended after it.  TimeoutIsGenuine
\* speaks of the answer, which is given later than the verdict.
VerdictInv ==
  /\ result = "timeout" => timedOut /\ parent = "returned"
  /\ endedAt # {} => child = "ended"
  /\ \A e \in endedAt : e \in Nat
  /\ timedOut /\ ~req.container =>
       \A t \in req.timeout : elapsed >= t /\ \A e \in endedAt : e >= t

LEMMA ReturnKeepsVerdict ==
  ASSUME TypeOK, VerdictInv, NEW r \in Answers, Return(r), r = "timeout" => timedOut
  PROVE  VerdictInv'
BY DEF TypeOK, VerdictInv, Return, DropJob, EndMembers, tree

LEMMA VerdictInductive ==
  ASSUME TypeOK, JobInv, VerdictInv, [Next]_vars
  PROVE  VerdictInv'
<1>a. ASSUME NEW r \in Answers, r # "timeout", Return(r) PROVE VerdictInv'
  BY <1>a, ReturnKeepsVerdict
<1>1. CASE Refuse
  BY <1>1, <1>a DEF Refuse, Answers
<1>2. CASE Begin \/ BuildArgs \/ CreateJob \/ RecordLayers
  BY <1>2, <1>a DEF Begin, BuildArgs, CreateJob, RecordLayers, Answers, VerdictInv, tree
<1>3. CASE Spawn \/ Assign
  <2>1. parent = "spawn" => child = "none"
    BY DEF JobInv, BeforeSpawn
  <2> QED
    BY <1>3, <1>a, <2>1 DEF Spawn, Assign, Answers, VerdictInv
<1>4. CASE WaitForProcess
  <2>1. ASSUME child # "ended", NEW t \in req.timeout PROVE elapsed >= t
    BY <1>4, <2>1, MillisIsTimeout DEF WaitForProcess, Expired, TypeOK
  <2>2. CASE child = "ended"
    <3>1. timedOut' = FALSE
      BY <1>4, <2>2 DEF WaitForProcess
    <3> QED
      BY <1>4, <2>2, <3>1 DEF WaitForProcess, VerdictInv, tree, TypeOK, JobInv, BeforeSpawn
  <2>3. CASE child # "ended"
    <3>1. endedAt = {} /\ timedOut' = TRUE
      BY <1>4, <2>3 DEF WaitForProcess, VerdictInv
    <3> QED
      BY <1>4, <2>1, <2>3, <3>1 DEF WaitForProcess, VerdictInv, tree
  <2> QED
    BY <2>2, <2>3
<1>5. CASE Terminate
  BY <1>5 DEF Terminate, EndMembers, VerdictInv, TypeOK, tree
<1>6. CASE Finish
  BY <1>6, ReturnKeepsVerdict DEF Finish, Answers, TypeOK
<1>7. CASE KillClient
  BY <1>7 DEF KillClient, VerdictInv, TypeOK
<1>8. CASE ChildEnds
  BY <1>8, TimeAssumption DEF ChildEnds, VerdictInv, TypeOK
<1>9. CASE Forks \/ OffspringEnds
  BY <1>9 DEF Forks, OffspringEnds, VerdictInv
<1>10. CASE Tick
  <2>1. req.timeout \subseteq Nat /\ elapsed \in Nat
    BY RequestIs, TimeAssumption DEF TypeOK
  <2> QED
    BY <1>10, <2>1 DEF Tick, VerdictInv, TypeOK, tree
<1>11. CASE Over \/ UNCHANGED vars
  BY <1>11 DEF Over, vars, VerdictInv
<1> QED
  BY <1>1, <1>2, <1>3, <1>4, <1>5, <1>6, <1>7, <1>8, <1>9, <1>10, <1>11
  DEF Next, Parent, Command

\* A run answers with a timeout only for a command that did not end before it,
\* whatever the scheduling.
THEOREM WinTimeoutGenuine == Spec => []TimeoutIsGenuine
<1>1. Init => VerdictInv
  BY DEF Init, VerdictInv
<1>2. TypeOK /\ JobInv /\ VerdictInv /\ [Next]_vars => VerdictInv'
  BY VerdictInductive
<1>3. VerdictInv => TimeoutIsGenuine
  BY DEF VerdictInv, TimeoutIsGenuine
<1> QED
  BY <1>1, <1>2, <1>3, WinTypeCorrect, JobAlways, PTL DEF Spec

-----------------------------------------------------------------------------
(* The trail. *)

LEMMA TrailsWhole ==
  /\ <<"start">> \o <<"exit">> = <<"start", "exit">>
  /\ <<"start">> \o <<"timeout", "exit">> = <<"start", "timeout", "exit">>
<1> DEFINE E == {"start", "timeout", "exit"}
           a == <<"start">>  b == <<"exit">>  c == <<"timeout", "exit">>
           ab == <<"start", "exit">>  ac == <<"start", "timeout", "exit">>
<1>1. /\ a \in Seq(E) /\ b \in Seq(E) /\ c \in Seq(E) /\ ab \in Seq(E) /\ ac \in Seq(E)
      /\ Len(a) = 1 /\ Len(b) = 1 /\ Len(c) = 2 /\ Len(ab) = 2 /\ Len(ac) = 3
  OBVIOUS
<1>2. /\ a[1] = ab[1] /\ b[1] = ab[2]
      /\ a[1] = ac[1] /\ c[1] = ac[2] /\ c[2] = ac[3]
  OBVIOUS
<1> HIDE DEF E, a, b, c, ab, ac
<1>3. /\ a \o b \in Seq(E) /\ Len(a \o b) = 2
      /\ (a \o b)[1] = a[1] /\ (a \o b)[2] = b[1]
  BY <1>1, ConcatProperties
<1>4. /\ a \o c \in Seq(E) /\ Len(a \o c) = 3
      /\ (a \o c)[1] = a[1] /\ (a \o c)[2] = c[1] /\ (a \o c)[3] = c[2]
  <2>1. /\ a \o c \in Seq(E) /\ Len(a \o c) = Len(a) + Len(c)
        /\ \A i \in 1..Len(a) + Len(c) :
             (a \o c)[i] = IF i <= Len(a) THEN a[i] ELSE c[i - Len(a)]
    BY <1>1, ConcatProperties
  <2> QED
    BY <1>1, <2>1
<1>5. \A i \in 1..2 : (a \o b)[i] = ab[i]
  <2>1. \A i \in 1..2 : i = 1 \/ i = 2
    OBVIOUS
  <2>2. (a \o b)[1] = ab[1] /\ (a \o b)[2] = ab[2]
    BY <1>2, <1>3, Zenon
  <2> QED
    BY <2>1, <2>2, Zenon
<1>6. \A i \in 1..3 : (a \o c)[i] = ac[i]
  BY <1>2, <1>4
<1>7. a \o b = ab
  BY <1>1, <1>3, <1>5, SeqEqual
<1>8. a \o c = ac
  BY <1>1, <1>4, <1>6, SeqEqual
<1> QED
  BY <1>7, <1>8 DEF a, b, c, ab, ac

\* Until it returns, run() has recorded the start alone, from Begin on.
OpenTrail ==
  parent # "returned" => events = IF parent = "check" THEN <<>> ELSE <<"start">>

TrailInv == OpenTrail /\ TrailTellsOutcome

LEMMA TrailInductive ==
  ASSUME TypeOK, TrailInv, [Next]_vars
  PROVE  TrailInv'
<1> USE DEF TrailInv, OpenTrail, TrailTellsOutcome
<1>1. CASE Refuse
  BY <1>1 DEF Refuse, Return
<1>2. CASE Begin
  BY <1>2 DEF Begin
<1>3. CASE BuildArgs \/ CreateJob \/ RecordLayers \/ Spawn \/ Assign
  BY <1>3 DEF BuildArgs, CreateJob, RecordLayers, Spawn, Assign, Return
<1>4. CASE WaitForProcess \/ Terminate \/ KillClient
  BY <1>4 DEF WaitForProcess, Terminate, KillClient
<1>5. CASE Finish
  <2>1. events = <<"start">>
    BY <1>5 DEF Finish, Reaped
  <2>2. /\ parent' = "returned"
        /\ result' = IF timedOut THEN "timeout" ELSE "report"
        /\ events' = events \o (IF timedOut THEN <<"timeout", "exit">> ELSE <<"exit">>)
    BY <1>5 DEF Finish, Return
  <2>3. CASE timedOut
    <3>1. events' = events \o <<"timeout", "exit">> /\ result' = "timeout"
      BY <2>2, <2>3, Zenon
    <3>2. events' = <<"start", "timeout", "exit">> /\ result' = "timeout"
      BY <2>1, <3>1, TrailsWhole, Zenon
    <3> HIDE DEF TrailInv, OpenTrail, TrailTellsOutcome
    <3>3. OpenTrail'
      BY <2>2 DEF OpenTrail
    <3>4. TrailTellsOutcome'
      BY <3>2 DEF TrailTellsOutcome
    <3> QED
      BY <3>3, <3>4 DEF TrailInv
  <2>4. CASE ~timedOut
    <3>1. events' = events \o <<"exit">> /\ result' = "report"
      BY <2>2, <2>4, Zenon
    <3>2. events' = <<"start", "exit">> /\ result' = "report"
      BY <2>1, <3>1, TrailsWhole, Zenon
    <3> HIDE DEF TrailInv, OpenTrail, TrailTellsOutcome
    <3>3. OpenTrail'
      BY <2>2 DEF OpenTrail
    <3>4. TrailTellsOutcome'
      BY <3>2 DEF TrailTellsOutcome
    <3> QED
      BY <3>3, <3>4 DEF TrailInv
  <2> QED
    BY <2>3, <2>4
<1>6. CASE Command \/ Tick \/ Over \/ UNCHANGED vars
  BY <1>6 DEF Command, ChildEnds, Forks, OffspringEnds, Tick, Over, vars
<1> QED
  BY <1>1, <1>2, <1>3, <1>4, <1>5, <1>6 DEF Next, Parent

\* The lifecycle events agree with the answer on every way out, refusals included.
THEOREM WinTrailIsRight == Spec => []TrailTellsOutcome
<1>1. Init => TrailInv
  BY DEF Init, TrailInv, OpenTrail, TrailTellsOutcome
<1>2. TypeOK /\ TrailInv /\ [Next]_vars => TrailInv'
  BY TrailInductive
<1> QED
  BY <1>1, <1>2, WinTypeCorrect, PTL DEF Spec, TrailInv
=============================================================================
