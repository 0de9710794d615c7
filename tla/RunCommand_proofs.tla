--------------------------- MODULE RunCommand_proofs ---------------------------
(***************************************************************************)
(* Proofs about RunCommand, for every set of inputs.  RunInv says where in *)
(* the pipeline the trail, the command and the answer can be what; the     *)
(* other invariants rest on it, one per property.                          *)
(***************************************************************************)
EXTENDS RunCommand, EnvPolicy_proofs, NaturalsInduction, WellFoundedInduction, TLAPS

-----------------------------------------------------------------------------
(* Types. *)

LEMMA ExitCodeTyped ==
  ASSUME NEW e \in [code : SUBSET {0, 3}, signal : SUBSET {9}]
  PROVE  ProcessExitCode(e) \in 0..255
<1>1. CASE e.code # {}
  BY <1>1 DEF ProcessExitCode
<1>2. CASE e.code = {} /\ e.signal # {}
  BY <1>2 DEF ProcessExitCode
<1>3. CASE e.code = {} /\ e.signal = {}
  BY <1>3 DEF ProcessExitCode
<1> QED
  BY <1>1, <1>2, <1>3

LEMMA PlanErrorTyped == PlanError \in PlanErrors
  BY DEF PlanError, PlanErrors, Compile

\* The types of a state, and of what a step changes.
THEOREM TypeCorrect == Spec => []RcTypeOK
<1>1. Init => RcTypeOK
  <2>1. Init => host \in AllHosts
    BY InputsAssumption DEF Init
  <2>2. Init => /\ stage \in Stages /\ status \in 0..255
                /\ ended \in [code : SUBSET {0, 3}, signal : SUBSET {9}]
    BY DEF Init, Stages
  <2>4. Init => /\ switched \in BOOLEAN /\ allow_namespaces \in BOOLEAN
                /\ probed \in SUBSET BOOLEAN
    BY DEF Init
  <2>5. Init => plan \in [isolate : BOOLEAN, net_isolate : BOOLEAN, error : PlanErrors]
    BY DEF Init, PlanErrors
  <2>3. Init => Contract!CTypeOK
    BY DEF Init, Contract!CTypeOK
  <2> QED
    BY <2>1, <2>2, <2>3, <2>4, <2>5 DEF RcTypeOK
<1>2. RcTypeOK /\ [Next]_vars => RcTypeOK'
  <2> SUFFICES ASSUME RcTypeOK, [Next]_vars PROVE RcTypeOK'
    OBVIOUS
  <2> USE DEF RcTypeOK, Stages, Contract!CTypeOK, Exit, Proceed, inputs, cli, backend, outcome
  <2>1. CASE Load \/ ValidateProfile \/ ShowProfile \/ CheckProfile \/ OpenAudit
    BY <2>1 DEF Load, ValidateProfile, ShowProfile, CheckProfile, OpenAudit
  <2>2. CASE ChooseIsolation
    <3>1. probed' \in SUBSET BOOLEAN
      BY <2>2 DEF ChooseIsolation, Remember, AllHosts
    <3>2. allow_namespaces' \in BOOLEAN
      BY <2>2 DEF ChooseIsolation
    <3> QED
      BY <2>2, <3>1, <3>2 DEF ChooseIsolation
  <2>3. CASE HostChanges
    <3>1. \E b \in BOOLEAN : \/ host' = [host EXCEPT !.sysctl = b]
                            \/ host' = [host EXCEPT !.mapping = b]
      BY <2>3, Zenon DEF HostChanges
    <3>2. \A b \in BOOLEAN : /\ [host EXCEPT !.sysctl = b] \in AllHosts
                            /\ [host EXCEPT !.mapping = b] \in AllHosts
      BY DEF AllHosts
    <3>3. host' \in AllHosts
      BY <3>1, <3>2
    <3> QED
      BY <2>3, <3>3 DEF HostChanges
  <2>4. CASE Dispatch
    BY <2>4 DEF Dispatch, Contract!Refuse, Contract!Open
  <2>5. CASE MakePlan
    <3>1. probed' \in SUBSET BOOLEAN
      BY <2>5 DEF MakePlan, Remember, AllHosts
    <3>2. plan' \in [isolate : BOOLEAN, net_isolate : BOOLEAN, error : PlanErrors]
      BY <2>5, PlanErrorTyped DEF MakePlan, AllHosts
    <3> QED
      BY <2>5, <3>1, <3>2 DEF MakePlan, Contract!Fail, Contract!AnswerPlan
  <2>6. CASE StartFails \/ StartLost
    BY <2>6 DEF StartFails, StartLost, Contract!Fail
  <2>7. CASE SetUp \/ Exec \/ WindowsStart
    BY <2>7 DEF SetUp, Exec, WindowsStart, Contract!Prepare, Contract!Launch
  <2>8. CASE CommandEnds \/ Finish
    BY <2>8 DEF CommandEnds, Finish, Contract!Die, Contract!Finish
  <2>9. CASE Answered
    BY <2>9, ExitCodeTyped DEF Answered, ExitStatus
  <2>10. CASE UNCHANGED vars
    BY <2>10 DEF vars
  <2> QED
    BY <2>1, <2>2, <2>3, <2>4, <2>5, <2>6, <2>7, <2>8, <2>9, <2>10
       DEF Next, CommandLine, Run
<1> QED
  BY <1>1, <1>2, PTL DEF Spec
-----------------------------------------------------------------------------
(* Where in the pipeline what can be. *)

BeforeRun == {"load", "loaded", "detect", "audit", "dispatch"}

Lost == [code |-> {}, signal |-> {9}]
Ends == {[code |-> {0}, signal |-> {}], [code |-> {3}, signal |-> {}], Lost}

RunInv ==
  /\ stage \in BeforeRun => trail = "none" /\ command = "never" /\ answer = "pending"
  /\ stage \in BeforeRun \cup {"plan"} => plan.error = "none"
  /\ stage \in {"plan", "start", "exec"} => command = "never"
  /\ stage \in {"plan", "start", "exec", "waiting", "hung"} => trail = "open" /\ answer = "pending"
  /\ stage \in {"start", "exec", "waiting", "hung"} => ~cmd.dry /\ plan.error = "none"
  /\ Started => ~cmd.dry /\ plan.error = "none" /\ trail # "none"
                  /\ stage \in {"waiting", "answered", "exited"}
  /\ command = "dead" => ended \in Ends
  /\ stage = "waiting" /\ command = "never" => ended = Lost
  /\ answer = "planned" => cmd.dry
  /\ answer = "report" => ~cmd.dry /\ (command = "dead" \/ ended = Lost)

LEMMA RunInvInductive == RcTypeOK /\ RunInv /\ [Next]_vars => RunInv'
<1> SUFFICES ASSUME RcTypeOK, RunInv, [Next]_vars PROVE RunInv'
  OBVIOUS
<1> USE DEF RunInv, Started, BeforeRun, Exit, Proceed, inputs, cli, backend, outcome
<1>1. CASE Load \/ ValidateProfile \/ ShowProfile \/ CheckProfile
  BY <1>1 DEF Load, ValidateProfile, ShowProfile, CheckProfile
<1>2. CASE ChooseIsolation \/ OpenAudit
  BY <1>2 DEF ChooseIsolation, OpenAudit
<1>3. CASE HostChanges
  BY <1>3 DEF HostChanges
<1>4. CASE Dispatch
  BY <1>4 DEF Dispatch, Contract!Refuse, Contract!Open
<1>5. CASE MakePlan
  <2>1. stage = "plan" /\ command = "never" /\ trail = "open" /\ answer = "pending"
    BY <1>5 DEF MakePlan
  <2>2. plan'.error = PlanError /\ UNCHANGED <<cmd, ended>>
    BY <1>5 DEF MakePlan
  <2>3. CASE PlanError # "none" /\ Contract!Fail /\ Proceed("answered")
    BY <2>1, <2>2, <2>3 DEF Contract!Fail
  <2>4. CASE PlanError = "none" /\ cmd.dry /\ Contract!AnswerPlan /\ Proceed("answered")
    BY <2>1, <2>2, <2>4 DEF Contract!AnswerPlan
  <2>5. CASE PlanError = "none" /\ ~cmd.dry /\ UNCHANGED backend /\ Proceed("start")
    BY <2>1, <2>2, <2>5
  <2> QED
    BY <1>5, <2>3, <2>4, <2>5 DEF MakePlan
<1>6. CASE StartFails \/ StartLost
  BY <1>6 DEF StartFails, StartLost, Contract!Fail, Lost
<1>7. CASE SetUp \/ Exec \/ WindowsStart
  BY <1>7 DEF SetUp, Exec, WindowsStart, Contract!Prepare, Contract!Launch
<1>8. CASE CommandEnds
  BY <1>8 DEF CommandEnds, Contract!Die, Ends, Lost
<1>9. CASE Finish
  BY <1>9 DEF Finish, Contract!Finish, RcTypeOK, Contract!CTypeOK
<1>10. CASE Answered \/ UNCHANGED vars
  BY <1>10 DEF Answered, vars
<1> QED
  BY <1>1, <1>2, <1>3, <1>4, <1>5, <1>6, <1>7, <1>8, <1>9, <1>10 DEF Next, CommandLine, Run

LEMMA RunInvariant == Spec => []RunInv
<1>1. Init => RunInv
  BY DEF Init, RunInv, Started, BeforeRun
<1>2. RcTypeOK /\ RunInv /\ [Next]_vars => RunInv'
  BY RunInvInductive
<1> QED
  BY <1>1, <1>2, TypeCorrect, PTL DEF Spec
-----------------------------------------------------------------------------
(* The exit status. *)

FindingsInv ==
  /\ stage \in {"load", "loaded"} => findings = {}
  /\ stage \notin {"load", "loaded", "exited"} => IsValid(findings) /\ findings = Validate(profile)
  /\ ~IsValid(findings) => stage = "exited" /\ status = 1 /\ trail = "none"
  /\ trail # "none" => IsValid(findings) /\ findings = Validate(profile)

LEMMA FindingsInvInductive == RunInv /\ FindingsInv /\ [Next]_vars => FindingsInv'
<1> SUFFICES ASSUME RunInv, FindingsInv, [Next]_vars PROVE FindingsInv'
  OBVIOUS
<1> USE DEF FindingsInv, RunInv, BeforeRun, Exit, Proceed, inputs, cli, backend, outcome
<1>1. CASE Load
  BY <1>1 DEF Load, IsValid, Errors
<1>2. CASE ValidateProfile \/ ShowProfile \/ CheckProfile
  BY <1>2 DEF ValidateProfile, ShowProfile, CheckProfile, IsValid, Errors
<1>3. CASE ChooseIsolation \/ OpenAudit \/ HostChanges \/ Answered
  BY <1>3 DEF ChooseIsolation, OpenAudit, HostChanges, Answered
<1>4. CASE Dispatch \/ MakePlan
  BY <1>4 DEF Dispatch, MakePlan, Contract!Refuse, Contract!Open, Contract!Fail,
     Contract!AnswerPlan
<1>5. CASE StartFails \/ StartLost \/ SetUp \/ Exec \/ WindowsStart
  BY <1>5 DEF StartFails, StartLost, SetUp, Exec, WindowsStart, Contract!Fail, Contract!Prepare,
     Contract!Launch
<1>6. CASE CommandEnds \/ Finish
  BY <1>6 DEF CommandEnds, Finish, Contract!Die, Contract!Finish
<1>7. CASE UNCHANGED vars
  BY <1>7 DEF vars
<1> QED
  BY <1>1, <1>2, <1>3, <1>4, <1>5, <1>6, <1>7 DEF Next, CommandLine, Run

LEMMA FindingsInvariant == Spec => []FindingsInv
<1>1. Init => FindingsInv
  BY DEF Init, FindingsInv, IsValid, Errors
<1>2. RunInv /\ FindingsInv /\ [Next]_vars => FindingsInv'
  BY FindingsInvInductive
<1> QED
  BY <1>1, <1>2, RunInvariant, PTL DEF Spec

\* Only a command that ended by itself with 0 makes the status 0.
LEMMA ZeroIsZero ==
  ASSUME RcTypeOK, answer = "report", command = "dead" => ended \in Ends,
         command = "dead" \/ ended = Lost, ExitStatus = 0
  PROVE  command = "dead" /\ ended.code = {0}
<1>1. ExitStatus = ProcessExitCode(ended)
  BY DEF ExitStatus
<1>2. ended \in Ends
  BY DEF Ends
<1>3. CASE ended = [code |-> {3}, signal |-> {}]
  <2>1. ended.code = {3}
    BY <1>3
  <2> QED
    BY <1>1, <2>1 DEF ProcessExitCode
<1>4. CASE ended = Lost
  <2>1. ended.code = {} /\ ended.signal = {9}
    BY <1>4 DEF Lost
  <2> QED
    BY <1>1, <2>1 DEF ProcessExitCode
<1>5. CASE ended = [code |-> {0}, signal |-> {}]
  BY <1>5 DEF Lost
<1> QED
  BY <1>2, <1>3, <1>4, <1>5 DEF Ends

ZeroInv ==
  cmd.sub = "run" /\ stage = "exited" /\ status = 0 =>
    \/ cmd.dry /\ answer = "planned"
    \/ ~cmd.dry /\ answer = "report" /\ command = "dead" /\ ended.code = {0}

\* The exit status agrees with what became of the command, for every profile,
\* host and command line.
THEOREM StatusIsRight == Spec => []StatusTells
<1>1. Init => ZeroInv
  BY DEF Init, ZeroInv
<1>2. RcTypeOK /\ RunInv /\ ZeroInv /\ [Next]_vars => ZeroInv'
  <2> SUFFICES ASSUME RcTypeOK, RunInv, ZeroInv, [Next]_vars PROVE ZeroInv'
    OBVIOUS
  <2> USE DEF ZeroInv, Exit, Proceed, inputs, cli, backend, outcome
  <2>1. CASE Load \/ ValidateProfile \/ ShowProfile \/ CheckProfile \/ OpenAudit
    BY <2>1 DEF Load, ValidateProfile, ShowProfile, CheckProfile, OpenAudit
  <2>2. CASE ChooseIsolation \/ HostChanges
    BY <2>2 DEF ChooseIsolation, HostChanges
  <2>3. CASE Answered
    <3>1. UNCHANGED <<cmd, answer, command, ended>> /\ status' = ExitStatus
      BY <2>3 DEF Answered
    <3>2. CASE answer = "planned"
      BY <3>1, <3>2 DEF RunInv
    <3>3. CASE answer = "report"
      BY <3>1, <3>3, ZeroIsZero DEF RunInv
    <3>4. CASE answer \notin {"planned", "report"}
      BY <3>1, <3>4 DEF ExitStatus
    <3> QED
      BY <3>2, <3>3, <3>4
  <2>4. CASE Run
    BY <2>4 DEF Run, Dispatch, MakePlan, StartFails, StartLost, SetUp, Exec, WindowsStart,
       CommandEnds, Finish
  <2>5. CASE UNCHANGED vars
    BY <2>5 DEF vars
  <2> QED
    BY <2>1, <2>2, <2>3, <2>4, <2>5 DEF Next, CommandLine
<1>3. RunInv /\ FindingsInv /\ ZeroInv => StatusTells
  BY DEF RunInv, FindingsInv, ZeroInv, StatusTells
<1> QED
  BY <1>1, <1>2, <1>3, TypeCorrect, RunInvariant, FindingsInvariant, PTL DEF Spec
-----------------------------------------------------------------------------
(* The isolation asked for. *)

IsolationInv ==
  /\ stage \notin {"load", "loaded", "detect", "exited"} =>
       (allow_namespaces <=> cmd.isolation # "confine")
  /\ stage \in {"audit", "dispatch", "plan"} /\ cmd.isolation = "namespaces"
       /\ host.platform = "linux" /\ ~switched => UserNamespaces /\ host.mnt
  /\ stage \in {"start", "exec", "waiting"} \/ Started =>
       /\ cmd.isolation = "namespaces" /\ host.platform = "linux" => plan.isolate \/ switched
       /\ cmd.isolation = "confine" => ~plan.isolate

LEMMA IsolationInvInductive == RcTypeOK /\ RunInv /\ IsolationInv /\ [Next]_vars => IsolationInv'
<1> SUFFICES ASSUME RcTypeOK, RunInv, IsolationInv, [Next]_vars PROVE IsolationInv'
  OBVIOUS
<1> USE DEF IsolationInv, RunInv, Started, BeforeRun, Exit, Proceed, inputs, cli, backend, outcome
<1>1. CASE Load \/ ValidateProfile \/ ShowProfile \/ CheckProfile
  BY <1>1 DEF Load, ValidateProfile, ShowProfile, CheckProfile
<1>2. CASE ChooseIsolation
  BY <1>2 DEF ChooseIsolation, Remember, UserNamespaces
<1>3. CASE HostChanges
  <2>1. switched' /\ UNCHANGED <<cmd, stage, allow_namespaces, plan, command>>
    BY <1>3 DEF HostChanges
  <2>2. stage \in {"audit", "dispatch", "plan", "start"}
    BY <1>3 DEF HostChanges
  <2>3. host'.platform = host.platform
    BY <1>3 DEF HostChanges, RcTypeOK, AllHosts
  <2> QED
    BY <2>1, <2>2, <2>3
<1>4. CASE OpenAudit \/ Dispatch
  <2>1. UNCHANGED <<cmd, host, probed, switched, allow_namespaces, plan, command>>
    BY <1>4 DEF OpenAudit, Dispatch, Contract!Refuse, Contract!Open
  <2>2. UserNamespaces' <=> UserNamespaces
    BY <2>1 DEF UserNamespaces
  <2>3. stage \in {"audit", "dispatch"} /\ stage' \in {"dispatch", "plan", "answered", "exited"}
    BY <1>4 DEF OpenAudit, Dispatch
  <2> QED
    BY <2>1, <2>2, <2>3
<1>5. CASE MakePlan
  <2>1. /\ stage = "plan" /\ stage' \in {"start", "answered"} /\ command' = "never"
        /\ UNCHANGED <<cmd, host, switched, allow_namespaces>>
    BY <1>5 DEF MakePlan, Contract!Fail, Contract!AnswerPlan
  <2>2. plan'.isolate <=> allow_namespaces /\ UserNamespaces /\ host.mnt
    BY <1>5, Zenon DEF MakePlan
  <2> QED
    BY <2>1, <2>2
<1>6. CASE StartFails \/ StartLost \/ SetUp \/ Exec \/ WindowsStart
  BY <1>6 DEF StartFails, StartLost, SetUp, Exec, WindowsStart, Contract!Fail, Contract!Prepare,
     Contract!Launch
<1>7. CASE CommandEnds \/ Finish \/ Answered
  BY <1>7 DEF CommandEnds, Finish, Answered, Contract!Die, Contract!Finish
<1>8. CASE UNCHANGED vars
  BY <1>8 DEF vars, UserNamespaces
<1> QED
  BY <1>1, <1>2, <1>3, <1>4, <1>5, <1>6, <1>7, <1>8 DEF Next, CommandLine, Run

\* A command that was to be isolated runs without namespaces only if somebody
\* changed the host on the way.
THEOREM IsolationIsAsAsked == Spec => []NamespacesAsAsked
<1>1. Init => IsolationInv
  BY DEF Init, IsolationInv, Started
<1>2. RcTypeOK /\ RunInv /\ IsolationInv /\ [Next]_vars => IsolationInv'
  BY IsolationInvInductive
<1>3. IsolationInv => NamespacesAsAsked
  BY DEF IsolationInv, NamespacesAsAsked
<1> QED
  BY <1>1, <1>2, <1>3, TypeCorrect, RunInvariant, PTL DEF Spec
-----------------------------------------------------------------------------
(* What an accepted profile is. *)

LEMMA NoError ==
  ASSUME NEW code, NEW when \in BOOLEAN, NEW found,
         IsValid(found), Error(code, when) \subseteq found
  PROVE  ~when
<1> SUFFICES ASSUME when PROVE FALSE
  OBVIOUS
<1> DEFINE d == [severity |-> "error", code |-> code]
<1>1. d \in found
  BY DEF Error
<1>2. d.severity = "error"
  OBVIOUS
<1>3. d \in {x \in found : x.severity = "error"}
  BY <1>1, <1>2
<1> QED
  BY <1>3, Zenon DEF IsValid, Errors

LEMMA Accepted ==
  ASSUME NEW pr, IsValid(Validate(pr))
  PROVE  /\ pr.rest.keep \subseteq KNOWN_CAPABILITIES
         /\ "" \notin pr.rest.image
         /\ pr.rest.network.mode = "allowlist" => \A e \in pr.rest.network.allow : IsValidHostPort(e)
         /\ Syscalls(pr).enabled /\ IsAllowlist(Syscalls(pr)) =>
              Syscalls(pr).preset # {} \/ Syscalls(pr).allow # {}
<1>1. pr.rest.keep \subseteq KNOWN_CAPABILITIES
  <2> DEFINE unknown == ~(pr.rest.keep \subseteq KNOWN_CAPABILITIES)
  <2>1. Error("capabilities.unknown", unknown) \subseteq Validate(pr)
    BY DEF Validate, ValidateCapabilities
  <2> QED
    BY <2>1, NoError
<1>2. "" \notin pr.rest.image
  <2>1. Error("windows.container_image.empty", "" \in pr.rest.image) \subseteq Validate(pr)
    BY DEF Validate, ValidateWindows
  <2> QED
    BY <2>1, NoError
<1>3. pr.rest.network.mode = "allowlist" => \A e \in pr.rest.network.allow : IsValidHostPort(e)
  <2> DEFINE bad == /\ pr.rest.network.mode = "allowlist"
                    /\ \E e \in pr.rest.network.allow : ~IsValidHostPort(e)
  <2>1. Error("network.bad_endpoint", bad) \subseteq Validate(pr)
    BY DEF Validate, ValidateNetwork
  <2>2. ~bad
    BY <2>1, NoError
  <2> QED
    BY <2>2
<1>4. Syscalls(pr).enabled /\ IsAllowlist(Syscalls(pr)) =>
        Syscalls(pr).preset # {} \/ Syscalls(pr).allow # {}
  <2> SUFFICES ASSUME Syscalls(pr).enabled PROVE ~(/\ IsAllowlist(Syscalls(pr))
                                                 /\ Syscalls(pr).preset = {}
                                                 /\ Syscalls(pr).allow = {})
    OBVIOUS
  <2> DEFINE empty == IsAllowlist(Syscalls(pr)) /\ Syscalls(pr).preset = {}
                        /\ Syscalls(pr).allow = {}
  <2>1. Error("syscalls.empty_allowlist", empty) \subseteq Validate(pr)
    BY DEF Validate, ValidateSyscalls
  <2>2. ~empty
    BY <2>1, NoError
  <2> QED
    BY <2>2
<1> QED
  BY <1>1, <1>2, <1>3, <1>4
-----------------------------------------------------------------------------
(* The plan of an accepted profile. *)

TypedProfile(pr) ==
  /\ pr.preset \in Optional(Presets)
  /\ {pr.rest.filter.default, pr.rest.filter.block_action} \subseteq Actions

PlanInv ==
  /\ TypedProfile(profile)
  /\ stage = "load" => TypedProfile(Loaded(text))
  /\ stage \in {"start", "exec", "waiting", "hung"} \/ Started \/ plan.error # "none"
       => plan.error = PlanError

LEMMA SamePlanError ==
  ASSUME profile' = profile, host'.platform = host.platform, host'.names = host.names
  PROVE  PlanError' = PlanError
BY DEF PlanError, Resolves

LEMMA TypedDefault == TypedProfile(DefaultProfile)
  BY DEF TypedProfile, DefaultProfile, DefaultPreset, DefaultRest, Optional, Presets, Actions

LEMMA TypedLoaded ==
  ASSUME NEW i \in Inputs PROVE TypedProfile(Loaded(i.text))
<1>1. Loaded(i.text).preset \in Optional(Presets)
  BY InputsAssumption DEF Loaded, OrDefault, DefaultPreset, Optional, Presets
<1>2. Loaded(i.text).rest = i.text.rest
  BY DEF Loaded
<1> QED
  BY <1>1, <1>2, InputsAssumption DEF TypedProfile

LEMMA PlanInvariant == Spec => []PlanInv
<1>1. Init => PlanInv
  BY TypedDefault, TypedLoaded DEF Init, PlanInv, Started
<1>2. RcTypeOK /\ RunInv /\ PlanInv /\ [Next]_vars => PlanInv'
  <2> SUFFICES ASSUME RcTypeOK, RunInv, PlanInv, [Next]_vars PROVE PlanInv'
    OBVIOUS
  <2> USE DEF PlanInv, Started, Exit, Proceed, inputs, cli, backend, outcome
  <2>1. CASE Load
    <3>1. /\ stage = "load" /\ stage' \in {"loaded", "exited"} /\ UNCHANGED <<command, plan>>
          /\ profile' = profile \/ profile' = Loaded(text)
      BY <2>1 DEF Load
    <3>2. command = "never" /\ plan.error = "none"
      BY <3>1 DEF RunInv, BeforeRun
    <3> QED
      BY <3>1, <3>2
  <2>2. ASSUME UNCHANGED <<profile, plan>>, host'.platform = host.platform,
               host'.names = host.names, stage' # "load",
               stage' \in {"start", "exec", "waiting", "hung"} \/ Started' =>
                 stage \in {"start", "exec", "waiting", "hung"} \/ Started
        PROVE  PlanInv'
    BY <2>2, SamePlanError
  <2>3. CASE ValidateProfile \/ ShowProfile \/ CheckProfile \/ ChooseIsolation \/ OpenAudit
               \/ Answered
    BY <2>2, <2>3 DEF ValidateProfile, ShowProfile, CheckProfile, ChooseIsolation, OpenAudit,
       Answered
  <2>4. CASE HostChanges
    <3>1. host'.platform = host.platform /\ host'.names = host.names
      BY <2>4 DEF HostChanges, RcTypeOK, AllHosts
    <3>2. UNCHANGED <<profile, plan, stage, command>> /\ stage # "load"
      BY <2>4 DEF HostChanges
    <3> QED
      BY <2>2, <3>1, <3>2
  <2>5. CASE Dispatch
    BY <2>2, <2>5 DEF Dispatch, Contract!Refuse, Contract!Open
  <2>6. CASE MakePlan
    <3>1. plan'.error = PlanError /\ UNCHANGED <<profile, host>> /\ stage' # "load"
      BY <2>6 DEF MakePlan
    <3> QED
      BY <3>1, SamePlanError
  <2>7. CASE StartFails \/ StartLost \/ SetUp \/ Exec \/ WindowsStart
    BY <2>2, <2>7 DEF StartFails, StartLost, SetUp, Exec, WindowsStart, Contract!Fail,
       Contract!Prepare, Contract!Launch
  <2>8. CASE CommandEnds \/ Finish
    BY <2>2, <2>8 DEF CommandEnds, Finish, Contract!Die, Contract!Finish
  <2>9. CASE UNCHANGED vars
    <3>1. UNCHANGED <<profile, text, plan, host, stage, command>>
      BY <2>9 DEF vars
    <3>2. Loaded(text)' = Loaded(text) /\ PlanError' = PlanError
      BY <3>1, SamePlanError DEF Loaded
    <3> QED
      BY <3>1, <3>2
  <2> QED
    BY <2>1, <2>3, <2>4, <2>5, <2>6, <2>7, <2>8, <2>9 DEF Next, CommandLine, Run
<1> QED
  BY <1>1, <1>2, TypeCorrect, RunInvariant, PTL DEF Spec

LEMMA OnlyHardenedIsEmpty ==
  ASSUME NEW pr, TypedProfile(pr), IsValid(Validate(pr)),
         Syscalls(pr).enabled, IsAllowlist(Syscalls(pr)), Listed(Syscalls(pr)) = {}
  PROVE  Syscalls(pr).preset = {"hardened"}
<1> DEFINE sc == Syscalls(pr)
<1>1. sc.preset \in Optional(Presets)
  BY DEF TypedProfile, Syscalls
<1>2. sc.allow = {} /\ PresetNames(sc) = {}
  BY DEF Listed, Explicit
<1>3. sc.preset # {}
  BY <1>2, Accepted
<1>4. sc.preset # {"assistant"} /\ sc.preset # {"minimal"}
  BY <1>2 DEF PresetNames, ASSISTANT_ALLOW, MINIMAL_ALLOW
<1> QED
  BY <1>1, <1>3, <1>4 DEF Optional, Presets

LEMMA ValidResolves ==
  ASSUME NEW e, IsValidHostPort(e), e.host \in host.names PROVE Resolves(e)
<1>1. e.port \in 0..MaxPort
  <2>1. e.port \in 1..MaxPort
    BY Zenon DEF IsValidHostPort
  <2>2. MaxPort \in Int
    BY SMT DEF MaxPort
  <2>3. \A i, j \in Int : i \in 1..j => i \in 0..j
    OBVIOUS
  <2> QED
    BY <2>1, <2>2, <2>3
<1>2. e.parts
  BY Zenon DEF IsValidHostPort
<1> QED
  BY <1>1, <1>2, Zenon DEF Resolves

\* Whatever profile was accepted, it plans, but for what the validator does not
\* look at.
THEOREM AcceptedPlans == Spec => []AcceptedIsPlannable
<1>1. RunInv /\ FindingsInv /\ PlanInv => AcceptedIsPlannable
  <2> SUFFICES ASSUME RunInv, FindingsInv, PlanInv, trail # "none"
               PROVE  AcceptedIsPlannable
    BY DEF AcceptedIsPlannable
  <2> DEFINE sc == Syscalls(profile)
             net == profile.rest.network
  <2>1. IsValid(Validate(profile)) /\ TypedProfile(profile)
    BY DEF FindingsInv, PlanInv
  <2>2. plan.error = "none" \/ plan.error = PlanError
    BY DEF PlanInv
  <2>3. /\ profile.rest.keep \subseteq ParsedCapabilities
        /\ "" \notin profile.rest.image
        /\ net.mode = "allowlist" => \A e \in net.allow : IsValidHostPort(e)
    BY <2>1, Accepted DEF ParsedCapabilities
  <2>4. plan.error \notin {"capability", "image"}
    BY <2>2, <2>3 DEF PlanError, Compile
  <2>5. plan.error = "identical_actions" => sc.default = "allow" /\ sc.block_action = "allow"
    <3>1. PlanError = "identical_actions" => MatchAction(sc) = MismatchAction(sc)
      BY DEF PlanError, Compile
    <3>2. MatchAction(sc) = MismatchAction(sc) => sc.default = "allow" /\ sc.block_action = "allow"
      BY DEF MatchAction, MismatchAction, IsAllowlist
    <3> QED
      BY <2>2, <3>1, <3>2
  <2>6. plan.error = "resolution" =>
          \E e \in net.allow : IsValidHostPort(e) /\ e.host \notin host.names
    <3>1. PlanError = "resolution" =>
            net.mode = "allowlist" /\ \E e \in net.allow : ~Resolves(e)
      BY DEF PlanError, Compile
    <3> QED
      BY <2>2, <2>3, <3>1, ValidResolves
  <2>7. sc.enabled /\ IsAllowlist(sc) /\ Listed(sc) = {} => sc.preset = {"hardened"}
    BY <2>1, OnlyHardenedIsEmpty
  <2> QED
    BY <2>4, <2>5, <2>6, <2>7 DEF AcceptedIsPlannable
<1> QED
  BY <1>1, RunInvariant, FindingsInvariant, PlanInvariant, PTL
-----------------------------------------------------------------------------
(* The filter. *)

Compiled(p) == Compile(p) \in {"none", "program"}

LEMMA StricterAnswer ==
  ASSUME NEW p, NEW mode, NEW c \in Calls, Verdict(p, c) \in Actions
  PROVE  /\ Effective(p, mode, c) \in {Verdict(p, c), "notify"}
         /\ c # "connect" => Effective(p, mode, c) = Verdict(p, c)
         /\ Effective(p, mode, c) = "notify" => mode = "allowlist" /\ c = "connect"
         /\ Verdict(p, c) # "allow" => Effective(p, mode, c) # "allow"
         /\ mode = "allowlist" /\ c = "connect" => Effective(p, mode, c) \notin {"allow", "log"}
<1> DEFINE v == Verdict(p, c)
<1>1. ~(Rank["allow"] > Rank[v]) /\ (v \in {"log", "allow"} => Rank["notify"] > Rank[v])
  BY DEF Rank, Actions
<1>2. CASE mode = "allowlist" /\ c = "connect"
  <2>1. Effective(p, mode, c) = IF Rank["notify"] > Rank[v] THEN "notify" ELSE v
    BY <1>2 DEF Effective, Notified
  <2> QED
    BY <1>1, <1>2, <2>1
<1>3. CASE ~(mode = "allowlist" /\ c = "connect")
  <2>1. Effective(p, mode, c) = IF Rank["allow"] > Rank[v] THEN "allow" ELSE v
    BY <1>3, Zenon DEF Effective, Notified
  <2> QED
    BY <1>1, <1>3, <2>1 DEF Actions
<1> QED
  BY <1>2, <1>3

LEMMA VerdictTyped ==
  ASSUME NEW p, NEW c, {p.default, p.block_action} \subseteq Actions
  PROVE  Verdict(p, c) \in Actions
BY DEF Verdict, MatchAction, MismatchAction, Actions

LEMMA DenylistDecides ==
  ASSUME NEW p, p.enabled, ~IsAllowlist(p), Compiled(p), NEW c \in Calls
  PROVE  /\ c \in Matched(p) => Verdict(p, c) # "allow"
         /\ c \notin Matched(p) => Verdict(p, c) = "allow"
         /\ "clone_newuser" \in Matched(p)
         /\ c \in Matched(p) => c \in Listed(p) \cup {"clone_newuser"}
         /\ p.preset = {"hardened"} /\ c \in DANGEROUS => c \in Matched(p)
         /\ c \in p.deny \ {"clone"} => c \in Matched(p)
<1>1. Explicit(p) = p.deny /\ p.deny \subseteq Resolvable /\ p.block_action # "allow"
  BY DEF Compiled, Compile, Explicit, MatchAction, MismatchAction
<1>2. Matched(p) = ((Listed(p) \cap Resolvable) \ {"clone"}) \cup {"clone_newuser"}
  BY DEF Matched, CloneRule
<1>3. p.preset = {"hardened"} => DANGEROUS \subseteq Listed(p)
  BY DEF Listed, PresetNames
<1> QED
  BY <1>1, <1>2, <1>3 DEF Verdict, MatchAction, MismatchAction, Listed, DANGEROUS, Resolvable

LEMMA AllowlistDecides ==
  ASSUME NEW p, p.enabled, IsAllowlist(p), NEW c \in Calls
  PROVE  /\ Verdict(p, c) = "allow" => c \in Listed(p) \cap Resolvable
         /\ Verdict(p, "clone_newuser") # "allow"
<1>1. Matched(p) \subseteq Listed(p) \cap Resolvable
  BY DEF Matched, CloneRule, Resolvable
<1>2. p.default # "allow" /\ "clone_newuser" \notin Resolvable
  BY DEF IsAllowlist, Resolvable
<1> QED
  BY <1>1, <1>2 DEF Verdict, MatchAction, MismatchAction

\* Whatever the lists of an accepted profile say, the filter of the started
\* command decides each call as FilterDecides says.
THEOREM FilterIsRight == Spec => []FilterDecides
<1>1. RunInv /\ PlanInv => FilterDecides
  <2> SUFFICES ASSUME RunInv, PlanInv, Started, host.platform = "linux"
               PROVE  FilterDecides
    BY DEF FilterDecides
  <2> DEFINE sc == Syscalls(profile)
             mode == profile.rest.network.mode
  <2>1. {sc.default, sc.block_action} \subseteq Actions
    BY DEF PlanInv, TypedProfile, Syscalls
  <2>2. Compiled(sc)
    <3>1. PlanError = "none"
      BY DEF PlanInv, RunInv
    <3>2. Compile(sc) \notin {"none", "program"} => PlanError # "none"
      BY DEF PlanError, Compile
    <3> QED
      BY <3>1, <3>2 DEF Compiled
  <2>3. \A c \in Calls : Verdict(sc, c) \in Actions
    BY <2>1, VerdictTyped
  <2>4. "clone_newuser" \in Calls /\ "connect" \in Calls
    BY DEF Calls, Resolvable
  <2>5. sc.enabled => Effective(sc, mode, "clone_newuser") # "allow"
    BY <2>2, <2>3, <2>4, StricterAnswer, DenylistDecides, AllowlistDecides
  <2>6. mode = "allowlist" => Effective(sc, mode, "connect") \notin {"allow", "log"}
    BY <2>3, <2>4, StricterAnswer
  <2>7. ASSUME sc.enabled, ~IsAllowlist(sc)
        PROVE  /\ sc.preset = {"hardened"} => \A c \in DANGEROUS : Effective(sc, mode, c) # "allow"
               /\ \A c \in Calls : Effective(sc, mode, c) \notin {"allow", "notify"} =>
                                     c \in Listed(sc) \cup {"clone_newuser"}
               /\ \A c \in sc.deny : Effective(sc, mode, c) = "allow" <=> c = "clone"
    <3>1. DANGEROUS \subseteq Calls /\ sc.deny \subseteq Calls
      BY <2>2, <2>7 DEF Compiled, Compile, Explicit, DANGEROUS, Calls, Resolvable
    <3>2. \A c \in Calls : c \in Matched(sc) => Effective(sc, mode, c) # "allow"
      BY <2>2, <2>3, <2>7, StricterAnswer, DenylistDecides
    <3>3. \A c \in Calls : Effective(sc, mode, c) \notin {"allow", "notify"} => c \in Matched(sc)
      BY <2>2, <2>3, <2>7, StricterAnswer, DenylistDecides
    <3>4. Effective(sc, mode, "clone") = "allow"
      <4>1. "clone" \in Calls /\ "clone" \notin Matched(sc)
        BY <2>7 DEF Calls, Resolvable, Matched, CloneRule
      <4> QED
        BY <2>2, <2>3, <2>7, <4>1, StricterAnswer, DenylistDecides
    <3> QED
      BY <2>2, <2>7, <3>1, <3>2, <3>3, <3>4, DenylistDecides
  <2>8. ASSUME sc.enabled, IsAllowlist(sc), NEW c \in Calls, Effective(sc, mode, c) = "allow"
        PROVE  c \in Listed(sc)
    BY <2>3, <2>8, StricterAnswer, AllowlistDecides
  <2> QED
    BY <2>5, <2>6, <2>7, <2>8 DEF FilterDecides
<1> QED
  BY <1>1, RunInvariant, PlanInvariant, PTL
-----------------------------------------------------------------------------
(* The environment of the command. *)

InContainer == host.platform = "windows" /\ profile.rest.image # {}

EnvInv ==
  /\ TypedPolicy(profile.rest.env)
  /\ stage = "load" => TypedPolicy(Loaded(text).rest.env)
  /\ stage = "exec" => host.platform = "linux"
  /\ Started => childEnv = IF InContainer
                           THEN Applied(ResolvedEnvVars(profile.rest.env, host.env))
                           ELSE ApplyEnv(profile.rest.env, host.env)

LEMMA EnvInvariant == Spec => []EnvInv
<1>1. Init => EnvInv
  <2> SUFFICES ASSUME Init PROVE EnvInv
    OBVIOUS
  <2>1. TypedPolicy(profile.rest.env)
    <3> DEFINE allow == <<"PATH", "HOME">>
    <3>1. allow \in Seq(ToSet(allow))
      <4>1. DOMAIN allow = 1..2 /\ allow[1] \in ToSet(allow) /\ allow[2] \in ToSet(allow)
        BY DEF ToSet
      <4>2. \A a, b : a \in ToSet(allow) /\ b \in ToSet(allow) => <<a, b>> \in Seq(ToSet(allow))
        OBVIOUS
      <4> QED
        BY <4>1, <4>2
    <3>2. profile.rest.env = [mode |-> "allowlist", allow |-> <<"PATH", "HOME">>, set |-> {}]
      BY DEF Init, DefaultProfile, DefaultRest
    <3> QED
      BY <3>1, <3>2 DEF TypedPolicy, EnvModes
  <2>2. TypedPolicy(Loaded(text).rest.env)
    <3>1. Loaded(text).rest = text.rest
      BY DEF Loaded
    <3> QED
      BY <3>1, InputsAssumption DEF Init, TypedPolicy
  <2> QED
    BY <2>1, <2>2 DEF Init, EnvInv, Started
<1>2. RcTypeOK /\ RunInv /\ EnvInv /\ [Next]_vars => EnvInv'
  <2> SUFFICES ASSUME RcTypeOK, RunInv, EnvInv, [Next]_vars PROVE EnvInv'
    OBVIOUS
  <2> USE DEF EnvInv, Started, InContainer, Exit, Proceed, inputs, cli, backend, outcome
  <2>1. CASE Load
    <3>1. /\ stage = "load" /\ stage' \in {"loaded", "exited"} /\ command' = command
          /\ profile' = profile \/ profile' = Loaded(text)
      BY <2>1 DEF Load
    <3>2. command = "never"
      BY <3>1 DEF RunInv, BeforeRun
    <3> QED
      BY <3>1, <3>2
  <2>2. ASSUME UNCHANGED <<profile, childEnv>>, host'.platform = host.platform,
               host'.env = host.env, stage' # "load", Started' => Started,
               stage' = "exec" => stage = "exec" \/ host.platform = "linux"
        PROVE  EnvInv'
    BY <2>2
  <2>3. CASE ValidateProfile \/ ShowProfile \/ CheckProfile \/ ChooseIsolation \/ OpenAudit
               \/ Answered
    BY <2>2, <2>3 DEF ValidateProfile, ShowProfile, CheckProfile, ChooseIsolation, OpenAudit,
       Answered
  <2>4. CASE HostChanges
    <3>1. host'.platform = host.platform /\ host'.env = host.env
      BY <2>4 DEF HostChanges, RcTypeOK, AllHosts
    <3>2. UNCHANGED <<profile, childEnv, stage, command>> /\ stage # "load"
      BY <2>4 DEF HostChanges
    <3> QED
      BY <2>2, <3>1, <3>2
  <2>5. CASE Dispatch \/ MakePlan
    BY <2>2, <2>5 DEF Dispatch, MakePlan, Contract!Refuse, Contract!Open, Contract!Fail,
       Contract!AnswerPlan
  <2>6. CASE StartFails \/ StartLost \/ SetUp
    BY <2>2, <2>6 DEF StartFails, StartLost, SetUp, Contract!Fail, Contract!Prepare
  <2>7. CASE Exec
    BY <2>7 DEF Exec, Contract!Launch
  <2>8. CASE WindowsStart
    BY <2>8 DEF WindowsStart
  <2>9. CASE CommandEnds \/ Finish
    BY <2>2, <2>9 DEF CommandEnds, Finish, Contract!Die, Contract!Finish
  <2>10. CASE UNCHANGED vars
    <3>1. UNCHANGED <<profile, text, host, stage, command, childEnv>>
      BY <2>10 DEF vars
    <3>2. Loaded(text)' = Loaded(text)
      BY <3>1 DEF Loaded
    <3> QED
      BY <3>1, <3>2
  <2> QED
    BY <2>1, <2>3, <2>4, <2>5, <2>6, <2>7, <2>8, <2>9, <2>10 DEF Next, CommandLine, Run
<1> QED
  BY <1>1, <1>2, TypeCorrect, RunInvariant, PTL DEF Spec

\* Each variable of the command comes from where the policy says, but that the
\* override of a name loses exactly if the allowlist has it twice and so has the
\* host.
THEOREM EnvironmentIsRight == Spec => []EnvAsListed
<1>1. EnvInv => EnvAsListed
  <2> SUFFICES ASSUME EnvInv, Started PROVE EnvAsListed
    BY DEF EnvAsListed
  <2> DEFINE env == profile.rest.env
  <2>1. TypedPolicy(env)
    BY DEF EnvInv
  <2>2. /\ AsListed(childEnv, env, host.env)
        /\ \A n \in DOMAIN host.env : Inherits(env, host.env, n)
             /\ (InContainer => n \in Readable(host.env)) => n \in DOMAIN childEnv
    BY <2>1, ResolvedAsListed, AppliedAsListed DEF EnvInv
  <2> HIDE DEF env
  <2>3. \A n \in DOMAIN childEnv :
          CASE childEnv[n] = "set"     -> n \in env.set
            [] childEnv[n] = "host"    -> Inherits(env, host.env, n)
            [] childEnv[n] = "default" -> n = "PATH" /\ DOMAIN childEnv \cap Paths = {"PATH"}
    BY <2>2 DEF AsListed
  <2>4. \A n \in env.set : childEnv[n] = "host" <=> Loses(env, host.env, n)
    BY <2>2 DEF AsListed
  <2> QED
    BY <2>2, <2>3, <2>4 DEF AsListed, EnvAsListed, InContainer, env
<1> QED
  BY <1>1, EnvInvariant, PTL

\* Unrestricted egress and a passthrough are both warned of.
LEMMA Warned ==
  ASSUME NEW pr, pr.rest.network.mode = "full", pr.rest.env.mode = "passthrough"
  PROVE  {"network.full", "env.passthrough"} \subseteq {d.code : d \in Validate(pr)}
<1>1. \A code : Warning(code, TRUE) = {[severity |-> "warning", code |-> code]}
  BY DEF Warning
<1>2. Warning("network.full", TRUE) \subseteq Validate(pr)
  BY DEF Validate, ValidateNetwork
<1>3. Warning("env.passthrough", TRUE) \subseteq Validate(pr)
  BY DEF Validate, ValidateEnv
<1>4. /\ [severity |-> "warning", code |-> "network.full"] \in Validate(pr)
      /\ [severity |-> "warning", code |-> "env.passthrough"] \in Validate(pr)
  BY <1>1, <1>2, <1>3
<1> QED
  BY <1>4

\* No accepted profile hands a listed credential to a command with unrestricted
\* egress.
THEOREM SecretsAreFlagged == Spec => []SecretsFlagged
<1>1. RunInv /\ FindingsInv /\ EnvInv => SecretsFlagged
  <2> SUFFICES ASSUME RunInv, FindingsInv, EnvInv, Started, profile.rest.network.mode = "full",
                      NEW n \in DOMAIN childEnv \cap Secrets
               PROVE  LET env == profile.rest.env IN
                      \/ /\ env.mode = "passthrough" /\ n \notin ToSet(env.allow) \cup env.set
                         /\ {"network.full", "env.passthrough"} \subseteq {d.code : d \in findings}
                      \/ env.mode = "clear" /\ childEnv[n] = "set"
    BY DEF SecretsFlagged
  <2> DEFINE env == profile.rest.env
  <2>1. IsValid(findings) /\ findings = Validate(profile)
    BY DEF RunInv, FindingsInv
  <2>2. AsListed(childEnv, env, host.env)
    BY ResolvedAsListed, AppliedAsListed DEF EnvInv
  <2>3. \/ childEnv[n] = "set" /\ n \in env.set
        \/ childEnv[n] = "host" /\ Inherits(env, host.env, n)
    BY <2>2, PathsAssumption, SecretsAssumption DEF AsListed
  <2>4. env.mode # "clear" => (ToSet(env.allow) \cup env.set) \cap Secrets = {}
    <3> DEFINE exposed == /\ profile.rest.network.mode = "full"
                          /\ profile.rest.env.mode # "clear"
                          /\ (ToSet(profile.rest.env.allow) \cup profile.rest.env.set) \cap Secrets # {}
    <3>1. Error("network.full_with_secrets", exposed) \subseteq Validate(profile)
      BY DEF Validate, ValidateSecretExposure
    <3>2. ~exposed
      BY <2>1, <3>1, NoError
    <3> QED
      BY <3>2
  <2>5. CASE env.mode = "clear"
    BY <2>3, <2>5 DEF Inherits
  <2>6. CASE env.mode # "clear"
    <3>1. n \notin ToSet(env.allow) \cup env.set
      BY <2>4, <2>6
    <3>2. env.mode = "passthrough"
      BY <2>3, <3>1 DEF Inherits
    <3>3. {"network.full", "env.passthrough"} \subseteq {d.code : d \in findings}
      BY <2>1, <3>2, Warned
    <3> QED
      BY <3>1, <3>2, <3>3
  <2> QED
    BY <2>5, <2>6
<1> QED
  BY <1>1, RunInvariant, FindingsInvariant, EnvInvariant, PTL
-----------------------------------------------------------------------------
(* Sizes as f64.  A power of two scales the f64s, and what has been rounded    *)
(* once stays as it is.                                                        *)

\* A set of numbers has a least one.
LEMMA LeastOf ==
  ASSUME NEW S \in SUBSET Nat, S # {}
  PROVE  \E m \in S : \A i \in S : m <= i
<1>1. PICK m \in S : \A i \in S : ~(<<i, m>> \in OpToRel(<, Nat))
  BY NatLessThanWellFounded, WFMin
<1>2. \A i \in S : ~(i < m)
  BY <1>1 DEF OpToRel
<1> QED
  BY <1>2

LEMMA SpacingIs ==
  ASSUME NEW n \in Nat, Reached(n)
  PROVE  /\ Spacing(n) \in Spacings /\ n < Exact * Spacing(n)
         /\ \A v \in Spacings : n < Exact * v => Spacing(n) <= v
<1> DEFINE S == {u \in Spacings : n < Exact * u}
<1>1. S \in SUBSET Nat /\ S # {}
  BY SizeAssumption DEF Reached
<1>2. PICK m \in S : \A i \in S : m <= i
  BY <1>1, LeastOf
<1> QED
  BY <1>2 DEF Spacing

\* Spacings are even, and half of one is one, or it is 2.
LEMMA SpacingHalves ==
  ASSUME NEW u \in Spacings
  PROVE  /\ u \in Nat /\ u >= 2 /\ u = 2 * (u \div 2) /\ u \div 2 \in Nat \ {0}
         /\ u # 2 => u \div 2 \in Spacings
<1>1. u \in Nat \ {0} /\ u # 1
  BY SizeAssumption, SpacingAssumption
<1>2. u >= 2
  BY <1>1
<1>3. u % 2 = 0 /\ (2 = u \/ u \div 2 \in Spacings)
  BY <1>2, SpacingAssumption
<1> QED
  BY <1>1, <1>2, <1>3

\* Multiplication keeps order and can be cancelled.
LEMMA Times ==
  /\ \A a, b, c \in Nat : a <= b => a * c <= b * c
  /\ \A a, b, c \in Nat : a * c < b * c => a < b
  /\ \A a, b, c \in Nat : a < b /\ c > 0 => a * c < b * c
<1>1. \A a, b, c \in Nat : a <= b => a * c <= b * c
  OBVIOUS
<1>2. \A a, b, c \in Nat : a < b /\ c > 0 => a * c < b * c
  OBVIOUS
<1>3. ASSUME NEW a \in Nat, NEW b \in Nat, NEW c \in Nat, a * c < b * c, ~(a < b) PROVE FALSE
  BY <1>1, <1>3
<1> QED
  BY <1>1, <1>2, <1>3

LEMMA Divided ==
  ASSUME NEW n \in Nat, NEW u \in Nat, u > 0
  PROVE  /\ n \div u \in Nat /\ n % u \in Nat /\ n % u < u /\ n = u * (n \div u) + (n % u)
         /\ \A q, r \in Nat : n = u * q + r /\ r < u => n \div u = q /\ n % u = r
<1>1. n \div u \in Nat /\ n % u \in Nat /\ n % u < u
  BY SMT
<1>2. n = u * (n \div u) + (n % u)
  BY SMT
<1>3. ASSUME NEW q \in Nat, NEW r \in Nat, NEW k \in Nat, NEW m \in Nat,
             u * q + r = u * k + m, r < u, q < k
      PROVE  FALSE
  <2>1. u * (q + 1) <= u * k
    BY <1>3, Times
  <2>2. u * (q + 1) = u * q + u
    OBVIOUS
  <2> DEFINE x == u * q
             y == u * k
  <2>3. x \in Nat /\ y \in Nat /\ x + u <= y /\ x + r = y + m
    BY <1>3, <2>1, <2>2
  <2> HIDE DEF x, y
  <2> QED
    BY <1>3, <2>3
<1>4. ASSUME NEW q \in Nat, NEW r \in Nat, n = u * q + r, r < u
      PROVE  n \div u = q /\ n % u = r
  <2> DEFINE k == n \div u
             m == n % u
  <2>1. k \in Nat /\ m \in Nat /\ m < u /\ n = u * k + m
    BY <1>1, <1>2
  <2> HIDE DEF k, m
  <2>2. ~(k < q) /\ ~(q < k)
    BY <1>3, <1>4, <2>1
  <2>3. k = q
    BY <2>1, <2>2
  <2>4. m = r
    BY <1>4, <2>1, <2>3
  <2> QED
    BY <2>3, <2>4 DEF k, m
<1> QED
  BY <1>1, <1>2, <1>4

LEMMA MultipleIs ==
  ASSUME NEW u \in Nat, u > 0, NEW k \in Nat
  PROVE  u * k \in Nat /\ (u * k) \div u = k /\ (u * k) % u = 0
<1> DEFINE n == u * k
<1>1. n \in Nat /\ n = u * k + 0
  OBVIOUS
<1> HIDE DEF n
<1>2. n \div u = k /\ n % u = 0
  BY <1>1, Divided
<1> QED
  BY <1>1, <1>2 DEF n

LEMMA Multiplier ==
  ASSUME NEW n \in Nat, NEW u \in Nat, u > 0, n % u = 0
  PROVE  \E k \in Nat : n = u * k
<1>1. n = u * (n \div u) + 0 /\ n \div u \in Nat
  BY Divided
<1>2. n = u * (n \div u)
  BY <1>1
<1> QED
  BY <1>1, <1>2

\* Where an f64 lies, between half the reach of its spacing and all of it.
LEMMA F64Is ==
  ASSUME NEW n \in Nat, n > Exact, Reached(n)
  PROVE  /\ Exact * (Spacing(n) \div 2) <= n
         /\ F64(n) \in Nat /\ F64(n) % Spacing(n) = 0 /\ F64(n) <= 2 * n
         /\ F64(n) <= Exact * Spacing(n)
         /\ n % Spacing(n) = 0 => F64(n) = n
<1> DEFINE u == Spacing(n)
           h == u \div 2
           e == Exact \div 2
           q == n \div u
           r == n % u
<1>1. u \in Spacings /\ n < Exact * u /\ \A v \in Spacings : n < Exact * v => u <= v
  BY SpacingIs
<1> HIDE DEF u
<1>2. /\ u \in Nat /\ u >= 2 /\ u = 2 * h /\ h \in Nat \ {0}
      /\ u # 2 => h \in Spacings
  BY <1>1, SpacingHalves
<1>3. Exact \in Nat /\ Exact >= 1 /\ Exact % 2 = 0
  BY SizeAssumption, SpacingAssumption
<1>4. Exact = 2 * e /\ e \in Nat /\ e >= 1
  BY <1>3
<1>5. q \in Nat /\ r \in Nat /\ r < u /\ n = u * q + r
  BY <1>2, Divided
<1> HIDE DEF h, e, q, r
<1>6. Exact * h <= n
  <2>1. CASE u = 2
    <3>1. h = 1
      BY <1>2, <2>1
    <3> QED
      BY <1>3, <3>1
  <2>2. CASE u # 2
    <3>1. h < u
      BY <1>2
    <3>2. ~(n < Exact * h)
      BY <1>1, <1>2, <2>2, <3>1
    <3>3. Exact * h \in Nat
      BY <1>2, <1>3
    <3> QED
      BY <3>2, <3>3
  <2> QED
    BY <2>1, <2>2
<1>7. Exact * h = u * e
  <2>1. \A a, b \in Nat : (2 * a) * b = (2 * b) * a
    OBVIOUS
  <2> QED
    BY <1>2, <1>4, <2>1
<1>8. e <= q /\ q < Exact
  <2>1. u * q \in Nat /\ u * e \in Nat /\ u * e <= u * q + r /\ u * q <= n
    BY <1>2, <1>4, <1>5, <1>6, <1>7
  <2>2. ~(q < e)
    <3> SUFFICES ASSUME q + 1 <= e PROVE FALSE
      BY <1>4, <1>5
    <3>1. u * (q + 1) <= u * e
      BY <1>2, <1>4, <1>5, Times
    <3>2. u * (q + 1) = u * q + u
      BY <1>2, <1>5
    <3> QED
      BY <1>2, <1>5, <2>1, <3>1, <3>2
  <2>3. u * q < u * Exact
    <3>1. Exact * u = u * Exact /\ u * Exact \in Nat
      BY <1>2, <1>3
    <3> QED
      BY <1>1, <2>1, <3>1
  <2>4. q < Exact
    BY <1>2, <1>3, <1>5, <2>3, Times
  <2> QED
    BY <1>4, <1>5, <2>2, <2>4
<1>9. n - r = u * q /\ u * (q + 1) = u * q + u /\ u * q \in Nat
  BY <1>2, <1>5
<1>10. F64(n) = IF 2 * r < u \/ (2 * r = u /\ ((n - r) \div u) % 2 = 0) THEN n - r ELSE (n - r) + u
  BY <1>3 DEF F64, u, r
<1>11. PICK k \in {q, q + 1} : F64(n) = u * k /\ (r = 0 => k = q)
  BY <1>2, <1>5, <1>9, <1>10
<1>12. F64(n) \in Nat /\ F64(n) % u = 0
  <2>1. k \in Nat
    BY <1>5
  <2>2. u * k \in Nat
    BY <1>2, <2>1
  <2>3. (u * k) % u = 0
    BY <1>2, <2>1, MultipleIs
  <2> QED
    BY <1>11, <2>2, <2>3, Zenon
<1>13. F64(n) <= Exact * u
  <2>1. k <= Exact /\ k \in Nat
    BY <1>3, <1>5, <1>8
  <2>2. u * k <= u * Exact /\ u * Exact = Exact * u
    BY <1>2, <1>3, <2>1, Times
  <2> QED
    BY <1>11, <2>2
<1>14. F64(n) <= 2 * n
  <2>1. u <= n
    <3>1. u * 1 <= u * q
      BY <1>2, <1>4, <1>5, <1>8, Times
    <3> QED
      BY <1>2, <1>5, <1>9, <3>1
  <2> QED
    BY <1>2, <1>5, <1>9, <1>11, <2>1
<1>15. r = 0 => F64(n) = n
  BY <1>5, <1>9, <1>11
<1> QED
  BY <1>6, <1>12, <1>13, <1>14, <1>15 DEF u, h, r

\* A multiple of its spacing is an f64 already, and so is all that F64 returns.
LEMMA F64Again ==
  ASSUME NEW n \in Nat, Reached(2 * n)
  PROVE  F64(n) \in Nat /\ F64(n) <= 2 * n /\ F64(F64(n)) = F64(n)
<1> DEFINE y == F64(n)
           u == Spacing(n)
           v == Spacing(y)
<1>1. Exact \in Nat /\ Exact % 2 = 0 /\ Exact >= 1
  BY SizeAssumption, SpacingAssumption
<1>2. CASE n <= Exact
  BY <1>2 DEF F64
<1>3. CASE n > Exact
  <2>1. PICK w \in Spacings : 2 * n < Exact * w
    BY DEF Reached
  <2>2. w \in Nat /\ Exact * w \in Nat
    BY <1>1, <2>1, SpacingHalves
  <2>3. Reached(n)
    BY <2>1, <2>2 DEF Reached
  <2>4. y \in Nat /\ y % u = 0 /\ y <= 2 * n /\ y <= Exact * u
    BY <1>3, <2>3, F64Is
  <2>5. u \in Spacings
    BY <2>3, SpacingIs
  <2> HIDE DEF y, u
  <2>6. CASE y <= Exact
    BY <2>4, <2>6 DEF F64, y
  <2>7. CASE y > Exact
    <3>1. Reached(y)
      BY <2>1, <2>2, <2>4 DEF Reached
    <3>2. /\ v \in Spacings /\ y < Exact * v
          /\ \A x \in Spacings : y < Exact * x => v <= x
      BY <2>4, <3>1, SpacingIs
    <3> HIDE DEF v
    <3>3. /\ u \in Nat /\ u >= 2 /\ v \in Nat /\ v >= 2
          /\ v = 2 * (v \div 2) /\ v \div 2 \in Nat \ {0} /\ (v # 2 => v \div 2 \in Spacings)
      BY <2>5, <3>2, SpacingHalves
    <3>4. PICK k \in Nat : y = u * k
      BY <2>4, <3>3, Divided
    <3>5. ASSUME y < Exact * u PROVE y % v = 0
      <4>1. v <= u
        BY <2>5, <3>2, <3>5
      <4>2. u % v = 0
        BY <2>5, <3>2, <4>1, SpacingAssumption
      <4>3. PICK j \in Nat : u = v * j
        BY <3>3, <4>2, Divided
      <4>4. y = v * (j * k) /\ j * k \in Nat
        BY <3>3, <3>4, <4>3
      <4> QED
        BY <3>3, <4>4, Divided
    <3>6. ASSUME y = Exact * u PROVE y % v = 0
      <4> DEFINE h == v \div 2
      <4>1. u < v
        <5>1. u * Exact < v * Exact
          BY <1>1, <3>2, <3>3, <3>6
        <5> QED
          BY <1>1, <3>3, <5>1, Times
      <4>2. h <= u
        <5>1. h \in Spacings /\ h \in Nat /\ h < v
          BY <3>3, <4>1
        <5>2. ~(y < Exact * h)
          BY <3>2, <3>3, <5>1
        <5>3. ~(u < h)
          BY <1>1, <3>3, <3>6, <5>1, <5>2, Times
        <5> QED
          BY <3>3, <5>1, <5>3
      <4>3. h \in Spacings /\ u % h = 0
        <5>1. h \in Spacings
          BY <3>3, <4>1
        <5> QED
          BY <2>5, <4>2, <5>1, SpacingAssumption
      <4>4. PICK j \in Nat : u = h * j
        BY <3>3, <4>3, Divided
      <4> HIDE DEF h
      <4>5. h \in Nat /\ h > 0 /\ v = 2 * h
        BY <3>3 DEF h
      <4>6. j = 1
        <5>1. h * 1 <= h * j /\ h * j < h * 2
          BY <4>1, <4>2, <4>4, <4>5
        <5> QED
          BY <4>4, <4>5, <5>1, Times
      <4>7. u = h
        BY <4>4, <4>5, <4>6
      <4>8. PICK e \in Nat : Exact = 2 * e
        BY <1>1
      <4>9. y = v * e
        BY <3>6, <4>5, <4>7, <4>8
      <4> QED
        BY <3>3, <4>8, <4>9, Divided
    <3>7. y % v = 0
      BY <1>1, <2>4, <3>3, <3>5, <3>6
    <3> QED
      BY <2>4, <2>7, <3>1, <3>7, F64Is DEF v, y
  <2> QED
    BY <1>1, <2>4, <2>6, <2>7 DEF y
<1> QED
  BY <1>1, <1>2, <1>3

\* Two spacings, one times the other.
LEMMA Quotient ==
  ASSUME NEW c \in Spacings, NEW w \in Spacings, c < w
  PROVE  \E v \in Spacings : w = c * v
<1>1. c \in Nat /\ c >= 2 /\ w \in Nat
  BY SpacingHalves
<1>2. w % c = 0 /\ w \div c \in Spacings
  BY <1>1, SpacingAssumption
<1>3. w = c * (w \div c)
  BY <1>1, <1>2, Divided
<1> QED
  BY <1>2, <1>3

\* A power of two scales the f64s.
LEMMA F64Scales ==
  ASSUME NEW c \in Spacings, NEW x \in Nat, Reached(c * x)
  PROVE  F64(c * x) = c * F64(x)
<1> DEFINE n == c * x
<1>1. Exact \in Nat /\ Exact % 2 = 0 /\ Exact >= 1
  BY SizeAssumption, SpacingAssumption
<1>2. c \in Nat /\ c >= 2 /\ n \in Nat /\ x <= n
  <2>1. c \in Nat /\ c >= 2
    BY SpacingHalves
  <2>2. 1 * x <= c * x
    BY <2>1, Times
  <2> QED
    BY <2>1, <2>2
<1>3. PICK top \in Spacings : n < Exact * top
  BY DEF Reached
<1> HIDE DEF n
\* What lies between the spacings of x and of c * x.
<1>4. ASSUME NEW w \in Spacings, n < Exact * w, x >= Exact
      PROVE  \E v \in Spacings : w = c * v /\ x < Exact * v
  <2>1. w \in Nat
    BY SpacingHalves
  <2>2. c < w
    <3>1. c * Exact <= c * x
      BY <1>1, <1>2, <1>4, Times
    <3>2. c * Exact < w * Exact
      BY <1>1, <1>2, <1>4, <2>1, <3>1 DEF n
    <3> QED
      BY <1>1, <1>2, <2>1, <3>2, Times
  <2>3. PICK v \in Spacings : w = c * v
    BY <2>2, Quotient
  <2>4. v \in Nat
    BY SpacingHalves
  <2>5. x * c < (Exact * v) * c
    <3>1. Exact * (c * v) = (Exact * v) * c /\ c * x = x * c
      BY <1>1, <1>2, <2>4
    <3> QED
      BY <1>4, <2>3, <3>1 DEF n
  <2>6. x < Exact * v
    <3>1. Exact * v \in Nat
      BY <1>1, <2>4
    <3> QED
      BY <1>2, <2>5, <3>1, Times
  <2> QED
    BY <2>3, <2>6
<1>5. CASE n <= Exact
  BY <1>1, <1>2, <1>5 DEF F64, n
<1>6. ASSUME n > Exact, x <= Exact PROVE F64(n) = c * F64(x)
  <2> DEFINE v == Spacing(n)
  <2>1. v \in Spacings /\ n < Exact * v /\ \A w \in Spacings : n < Exact * w => v <= w
    BY <1>2, <1>3, SpacingIs DEF Reached
  <2> HIDE DEF v
  <2>2. v \in Nat /\ v >= 2 /\ v = 2 * (v \div 2)
    BY <2>1, SpacingHalves
  <2>3. \E j \in Nat : n = v * j
    <3>1. CASE v <= c
      <4>1. c % v = 0
        BY <2>1, <3>1, SpacingAssumption
      <4>2. PICK k \in Nat : c = v * k
        BY <1>2, <2>2, <4>1, Multiplier
      <4>3. n = v * (k * x) /\ k * x \in Nat
        BY <2>2, <4>2 DEF n
      <4> QED
        BY <4>3
    <3>2. CASE v > c
      <4>1. PICK w \in Spacings : v = c * w
        BY <2>1, <3>2, Quotient
      <4>2. w \in Nat /\ w >= 2 /\ w = 2 * (w \div 2) /\ w \div 2 \in Nat \ {0}
        BY SpacingHalves
      <4> DEFINE h == w \div 2
      <4>3. v = 2 * (c * h) /\ c * h \in Nat /\ c * h < v /\ v \div 2 = c * h
        BY <1>2, <2>2, <4>1, <4>2
      <4>4. v # 2 /\ v \div 2 \in Spacings
        BY <1>2, <2>1, <3>2, SpacingHalves
      <4>5. ~(n < Exact * (c * h))
        BY <2>1, <2>2, <4>3, <4>4
      <4> HIDE DEF h
      <4>6. Exact * h <= x
        <5>1. Exact * (c * h) = (Exact * h) * c /\ n = x * c /\ Exact * h \in Nat
          BY <1>1, <1>2, <4>2 DEF n, h
        <5>2. ~(x < Exact * h)
          BY <1>2, <4>5, <5>1, Times
        <5> QED
          BY <5>1, <5>2
      <4>7. h = 1
        <5>1. h \in Nat \ {0}
          BY <4>2 DEF h
        <5>2. h * Exact <= 1 * Exact
          BY <1>1, <1>6, <4>6, <5>1
        <5>3. ~(2 * Exact <= h * Exact)
          BY <1>1, <5>1, <5>2
        <5>4. ~(2 <= h)
          BY <1>1, <5>1, <5>3, Times
        <5> QED
          BY <5>1, <5>4
      <4>8. x = Exact /\ v = 2 * c
        BY <1>1, <1>2, <1>6, <4>3, <4>6, <4>7
      <4>9. PICK e \in Nat : Exact = 2 * e
        BY <1>1
      <4>10. n = v * e
        BY <1>2, <4>8, <4>9 DEF n
      <4> QED
        BY <4>9, <4>10
    <3>3. v <= c \/ v > c
      BY <1>2, <2>2
    <3> QED
      BY <3>1, <3>2, <3>3, Zenon
  <2>4. n % v = 0
    <3>1. PICK j \in Nat : n = v * j
      BY <2>3
    <3>2. v \in Nat /\ v > 0
      BY <2>2
    <3>3. (v * j) % v = 0
      BY <3>2, MultipleIs
    <3> QED
      BY <3>1, <3>3, Zenon
  <2>5. F64(n) = n
    BY <1>2, <1>3, <1>6, <2>4, F64Is DEF v, Reached
  <2> QED
    BY <1>6, <2>5 DEF F64, n
<1>7. ASSUME x > Exact PROVE F64(n) = c * F64(x)
  <2> DEFINE u == Spacing(x)
             q == x \div u
             r == x % u
  <2>1. u \in Spacings /\ x < Exact * u /\ \A w \in Spacings : x < Exact * w => u <= w
    <3>1. Reached(x)
      <4>1. x < Exact * top
        <5>1. top \in Nat
          BY SpacingHalves
        <5> QED
          BY <1>1, <1>2, <1>3, <5>1
      <4> QED
        BY <4>1 DEF Reached
    <3> QED
      BY <3>1, SpacingIs
  <2> HIDE DEF u
  <2>2. u \in Nat /\ u >= 2 /\ c * u \in Nat /\ c * u >= 2
    <3>1. u \in Nat /\ u >= 2
      BY <2>1, SpacingHalves
    <3>2. 1 * u <= c * u
      BY <1>2, <3>1, Times
    <3> QED
      BY <1>2, <3>1, <3>2
  <2>3. \A w \in Spacings : n < Exact * w => c * u <= w
    <3> SUFFICES ASSUME NEW w \in Spacings, n < Exact * w PROVE c * u <= w
      OBVIOUS
    <3>1. PICK v \in Spacings : w = c * v /\ x < Exact * v
      BY <1>1, <1>4, <1>7
    <3>2. u <= v /\ v \in Nat
      BY <2>1, <3>1, SpacingHalves
    <3>3. u * c <= v * c
      BY <1>2, <2>2, <3>2, Times
    <3> QED
      BY <1>2, <2>2, <3>1, <3>2, <3>3
  <2>4. c * u \in Spacings
    <3>1. c * u <= top /\ top \in Nat
      BY <1>3, <2>3, SpacingHalves
    <3>2. ~(top < c * u)
      BY <2>2, <3>1
    <3> QED
      BY <2>1, <3>2, SpacingAssumption
  <2>5. n < Exact * (c * u)
    <3>1. x * c < (Exact * u) * c
      BY <1>1, <1>2, <2>1, <2>2, Times
    <3>2. x * c = n /\ (Exact * u) * c = Exact * (c * u)
      BY <1>1, <1>2, <2>2 DEF n
    <3> QED
      BY <3>1, <3>2
  <2>6. Spacing(n) = c * u
    <3>1. /\ Spacing(n) \in Spacings /\ n < Exact * Spacing(n)
          /\ \A w \in Spacings : n < Exact * w => Spacing(n) <= w
      BY <1>2, <1>3, SpacingIs DEF Reached
    <3>2. Spacing(n) \in Nat
      BY <3>1, SpacingHalves
    <3> QED
      BY <2>2, <2>3, <2>4, <2>5, <3>1, <3>2
  <2>7. q \in Nat /\ r \in Nat /\ r < u /\ x = u * q + r
    BY <2>2, Divided
  <2> HIDE DEF q, r
  <2>8. n % (c * u) = c * r /\ n \div (c * u) = q
    <3>1. n = (c * u) * q + c * r /\ c * r \in Nat
      BY <1>2, <2>2, <2>7 DEF n
    <3>2. c * r < c * u
      <4>1. r * c < u * c
        BY <1>2, <2>2, <2>7, Times
      <4> QED
        BY <1>2, <2>2, <2>7, <4>1
    <3> QED
      BY <1>2, <2>2, <2>7, <3>1, <3>2, Divided
  <2>9. x - r = u * q /\ n - c * r = (c * u) * q /\ u * q \in Nat
    BY <1>2, <2>2, <2>7 DEF n
  <2>10. (x - r) \div u = q /\ (n - c * r) \div (c * u) = q
    BY <2>2, <2>7, <2>9, MultipleIs
  <2>11. F64(x) = IF 2 * r < u \/ (2 * r = u /\ q % 2 = 0) THEN u * q ELSE u * q + u
    <3>1. F64(x) = IF 2 * r < u \/ (2 * r = u /\ ((x - r) \div u) % 2 = 0) THEN x - r ELSE (x - r) + u
      BY <1>1, <1>7 DEF F64, u, r
    <3> QED
      BY <2>9, <2>10, <3>1
  <2>12. F64(n) = IF 2 * (c * r) < c * u \/ (2 * (c * r) = c * u /\ q % 2 = 0)
                  THEN (c * u) * q ELSE (c * u) * q + c * u
    <3>1. n > Exact
      BY <1>1, <1>2, <1>7
    <3>2. F64(n) = IF 2 * (n % (c * u)) < c * u
                      \/ (2 * (n % (c * u)) = c * u
                          /\ ((n - (n % (c * u))) \div (c * u)) % 2 = 0)
                   THEN n - (n % (c * u)) ELSE (n - (n % (c * u))) + c * u
      BY <1>1, <1>2, <2>6, <3>1 DEF F64
    <3> QED
      BY <2>8, <2>9, <2>10, <3>2
  <2>13. (2 * (c * r) < c * u <=> 2 * r < u) /\ (2 * (c * r) = c * u <=> 2 * r = u)
    <3>1. 2 * (c * r) = (2 * r) * c /\ c * u = u * c /\ 2 * r \in Nat
      BY <1>2, <2>2, <2>7
    <3>2. /\ (2 * r) * c < u * c => 2 * r < u
          /\ u * c < (2 * r) * c => u < 2 * r
          /\ 2 * r < u => (2 * r) * c < u * c
          /\ u < 2 * r => u * c < (2 * r) * c
      BY <1>2, <2>2, <3>1, Times
    <3> QED
      BY <1>2, <2>2, <3>1, <3>2
  <2>14. c * (u * q) = (c * u) * q /\ c * (u * q + u) = (c * u) * q + c * u
    BY <1>2, <2>2, <2>7
  <2> QED
    BY <2>11, <2>12, <2>13, <2>14
<1> QED
  BY <1>1, <1>2, <1>5, <1>6, <1>7 DEF n

-----------------------------------------------------------------------------
(* What `profile show` writes. *)

\* A duration whose seconds an f64 can count, up to 2^53 of them, loses what is
\* below a second and nothing else.  (Of longer ones nothing is said: the hours are
\* rounded, or come out longer than a Duration.)
THEOREM DurationRoundTrip ==
  ASSUME NEW ms \in Nat, ms \div 1000 <= Exact
  PROVE  ParseDuration(HumanDuration(ms)) = {ms - (ms % 1000)}
<1> DEFINE t == HumanDuration(ms)
           s == ms \div 1000
           h == s \div Hour
           r == s % Hour
           m == r \div Minute
           q == r % Minute
<1>1. /\ t.form = "segments" /\ t.ms = 0 /\ t.d = 0 /\ t.h = h /\ t.m = m /\ t.s = q
  BY DEF HumanDuration
<1>2. /\ s \in Nat /\ s <= Exact /\ ms - (ms % 1000) = 1000 * s
      /\ Exact \in Nat /\ MaxU64 \in Nat /\ Exact <= MaxU64
  BY SizeAssumption, SMT
<1>3. Hour \in Nat /\ Hour > 0 /\ Minute \in Nat /\ Minute > 0 /\ Day \in Nat
  BY DurationAssumption
<1> HIDE DEF t, s
<1>4. h \in Nat /\ r \in Nat /\ s = Hour * h + r
  BY <1>2, <1>3, Divided
<1> HIDE DEF h, r
<1>5. m \in Nat /\ q \in Nat /\ r = Minute * m + q
  BY <1>3, <1>4, Divided
<1> HIDE DEF m, q
<1>6. ASSUME NEW n \in Nat, NEW u \in Nat, u > 0, n * u <= s PROVE Seconds(n, u) = n * u
  <2>1. n * 1 <= n * u /\ n * u \in Nat
    BY <1>6
  <2>2. n <= Exact /\ n * u <= Exact
    BY <1>2, <1>6, <2>1
  <2> QED
    BY <2>2 DEF Seconds, F64
<1> DEFINE x == h * Hour
           y == m * Minute
<1>7. x \in Nat /\ y \in Nat /\ s = x + (y + q)
  <2>1. x = Hour * h /\ y = Minute * m /\ x \in Nat /\ y \in Nat
    BY <1>3, <1>4, <1>5
  <2> QED
    BY <1>4, <1>5, <2>1
<1>8. Seconds(h, Hour) = x /\ Seconds(m, Minute) = y
  <2>1. x <= s /\ y <= s
    BY <1>5, <1>7, <1>2
  <2> QED
    BY <1>3, <1>4, <1>5, <1>6, <2>1
<1>9. Seconds(0, Day) = 0 /\ F64(q) = q
  <2>1. 0 * Day = 0 /\ q <= Exact /\ 0 <= Exact
    BY <1>2, <1>3, <1>5, <1>7
  <2> QED
    BY <2>1 DEF Seconds, F64
<1> HIDE DEF x, y
<1>10. Total(t) = 1000 * s
  <2>1. Total(t) = 0 + 1000 * (q + y + x + 0)
    BY <1>1, <1>8, <1>9 DEF Total
  <2> QED
    BY <1>5, <1>7, <2>1
<1>11. ~(Total(t) > MaxDuration)
  BY <1>2, <1>10 DEF MaxDuration
<1> QED
  BY <1>1, <1>2, <1>10, <1>11 DEF ParseDuration, t

LEMMA UnitDivides ==
  ASSUME NEW b \in Nat
  PROVE  /\ HumanUnit(b) \in DOMAIN UnitSize /\ UnitSize[HumanUnit(b)] \in Nat \ {0}
         /\ b % UnitSize[HumanUnit(b)] = 0
<1>1. CASE \E u \in Binary : Divides(u, b)
  <2> DEFINE D == {u \in Binary : Divides(u, b)}
             sizes == {UnitSize[u] : u \in D}
  <2>1. \E u \in D : \A v \in D : UnitSize[v] <= UnitSize[u]
    <3>1. \A u \in Binary : UnitSize[u] \in Nat
      BY SizeAssumption
    <3> QED
      BY <1>1, <3>1 DEF Binary
  <2>2. HumanUnit(b) \in Binary /\ Divides(HumanUnit(b), b)
    BY <1>1, <2>1 DEF HumanUnit
  <2> QED
    BY <2>2, SizeAssumption DEF Divides
<1>2. CASE ~\E u \in Binary : Divides(u, b)
  <2>1. HumanUnit(b) = "B"
    BY <1>2 DEF HumanUnit
  <2>2. b % 1 = 0
    BY SMT
  <2> QED
    BY <2>1, <2>2, SizeAssumption
<1> QED
  BY <1>1, <1>2

\* A size that an f64 holds comes back as it was; any other comes back as the
\* f64 next to it, up to the largest u64.
THEOREM SizeRoundTrip ==
  ASSUME NEW b \in 0..MaxU64
  PROVE  /\ ReadSize(HumanSize(b)) = {Saturated(F64(b))}
         /\ b <= Exact => Saturated(F64(b)) = b
<1> DEFINE unit == HumanUnit(b)
           u == UnitSize[unit]
           t == HumanSize(b)
<1>1. unit \in DOMAIN UnitSize /\ u \in Nat /\ u > 0 /\ b % u = 0 /\ b \in Nat /\ MaxU64 \in Nat
  BY UnitDivides, SizeAssumption
<1>2. u = 1 \/ u \in Spacings
  <2>1. unit \in Binary \cup {"B"}
    <3>1. CASE \E v \in Binary : Divides(v, b)
      <4>1. \E v \in Binary :
              Divides(v, b) /\ \A w \in Binary : Divides(w, b) => UnitSize[w] <= UnitSize[v]
        <5>1. \A v \in Binary : UnitSize[v] \in Nat
          BY SizeAssumption
        <5> QED
          BY <3>1, <5>1 DEF Binary
      <4> QED
        BY <3>1, <4>1 DEF HumanUnit
    <3>2. CASE ~\E v \in Binary : Divides(v, b)
      BY <3>2 DEF HumanUnit
    <3> QED
      BY <3>1, <3>2
  <2> HIDE DEF unit
  <2> QED
    BY <2>1, SizeAssumption, SpacingAssumption
<1>3. PICK n \in Nat : b = u * n /\ n = b \div u
  <2>1. b = u * (b \div u) + 0 /\ b \div u \in Nat
    BY <1>1, Divided
  <2>2. b = u * (b \div u)
    BY <1>1, <2>1
  <2> QED
    BY <2>1, <2>2
<1>4. t.form = "text" /\ t.halves = 2 * n /\ t.unit = unit
  BY <1>3 DEF HumanSize
<1> HIDE DEF unit, u, t
<1>5. n <= b /\ 2 * n \in Nat /\ 2 * b \in Nat /\ 2 * b = u * (2 * n)
  <2>1. 1 * n <= u * n
    BY <1>1, Times
  <2>2. 2 * (u * n) = u * (2 * n)
    BY <1>1
  <2> QED
    BY <1>1, <1>3, <2>1, <2>2
<1>6. \A k \in Nat : k <= 4 * MaxU64 => Reached(k)
  <2>1. PICK top \in Spacings : 4 * MaxU64 < Exact * top
    BY SpacingAssumption DEF Reached
  <2>2. Exact * top \in Nat
    BY SizeAssumption, SpacingHalves
  <2> QED
    BY <1>1, <2>1, <2>2 DEF Reached
<1> DEFINE x == F64(2 * n)
<1>7. x \in Nat /\ F64(x) = x
  <2>1. Reached(2 * (2 * n))
    BY <1>1, <1>5, <1>6
  <2> QED
    BY <1>5, <2>1, F64Again
<1>8. F64(2 * b) = u * x /\ F64(2 * b) <= 4 * MaxU64
  <2>1. Reached(2 * b) /\ Reached(2 * (2 * b))
    BY <1>1, <1>6
  <2>2. F64(2 * b) <= 4 * MaxU64
    <3>1. F64(2 * b) \in Nat /\ F64(2 * b) <= 2 * (2 * b)
      BY <1>5, <2>1, F64Again
    <3>2. 2 * (2 * b) <= 4 * MaxU64
      BY <1>1
    <3> HIDE DEF x
    <3> QED
      BY <1>1, <3>1, <3>2
  <2>3. CASE u = 1
    <3>1. 2 * b = 2 * n
      BY <1>1, <1>3, <2>3
    <3>2. u * x = x
      BY <1>7, <2>3
    <3> QED
      BY <2>2, <3>1, <3>2
  <2>4. CASE u \in Spacings
    <3>1. F64(u * (2 * n)) = u * F64(2 * n)
      BY <1>5, <2>1, <2>4, F64Scales
    <3> QED
      BY <1>5, <2>2, <3>1, Zenon
  <2> QED
    BY <1>2, <2>3, <2>4
<1> HIDE DEF x
<1>9. F64(x * u) = F64(2 * b)
  <2>1. x * u = u * x /\ u * x \in Nat
    BY <1>1, <1>7
  <2>2. CASE u = 1
    BY <1>7, <1>8, <2>2
  <2>3. CASE u \in Spacings
    <3>1. Reached(u * x)
      BY <1>6, <1>8, <2>1
    <3>2. F64(u * x) = u * F64(x)
      BY <1>7, <2>3, <3>1, F64Scales
    <3> QED
      BY <1>7, <1>8, <2>1, <3>2
  <2> QED
    BY <1>2, <2>2, <2>3
<1>10. F64(2 * b) \div 2 = F64(b)
  <2>1. Reached(2 * b) /\ 2 \in Spacings
    BY <1>1, <1>6, SpacingAssumption
  <2>2. F64(2 * b) = 2 * F64(b)
    BY <1>1, <2>1, F64Scales
  <2>3. F64(b) \in Nat
    BY <1>1, <2>1, F64Again
  <2> QED
    BY <2>2, <2>3
<1>11. ParseSize(t) = {Saturated(F64(b))}
  <2>1. ~(t.halves < 0) /\ t.unit \in DOMAIN UnitSize
    BY <1>1, <1>4, <1>5
  <2>2. ParseSize(t) = {Saturated(F64(F64(2 * n) * UnitSize[unit]) \div 2)}
    BY <1>4, <2>1 DEF ParseSize
  <2> QED
    BY <1>9, <1>10, <2>2 DEF x, u
<1>12. b <= Exact => Saturated(F64(b)) = b
  BY <1>1 DEF F64, Saturated
<1> QED
  BY <1>4, <1>11, <1>12 DEF ReadSize, t

\* A size that is read is a u64, a duration a Duration; what does not parse is none.
LEMMA SizeTyped ==
  ASSUME NEW t, Measured(t)
  PROVE  ReadSize(t) \in Optional(0..MaxU64)
<1>1. MaxU64 \in Nat
  BY SizeAssumption
<1>2. \A k : k \in Nat /\ Reached(k) => F64(k) \in Nat
  <2> TAKE k
  <2>1. CASE k <= Exact
    BY <2>1 DEF F64
  <2>2. ASSUME k \in Nat, Reached(k), ~(k <= Exact) PROVE F64(k) \in Nat
    <3>1. k > Exact
      BY <2>2, SizeAssumption
    <3> QED
      BY <2>2, <3>1, F64Is
  <2> QED
    BY <2>1, <2>2
<1>3. \A k \in Nat : Saturated(k) \in 0..MaxU64
  BY <1>1 DEF Saturated
<1>4. CASE t.form = "text"
  <2>1. ASSUME ~(t.halves < 0), t.unit \in DOMAIN UnitSize
        PROVE  ReadSize(t) \in Optional(0..MaxU64)
    <3> DEFINE u == UnitSize[t.unit]
               x == F64(t.halves)
               y == F64(x * u)
    <3>1. t.halves \in Nat /\ Reached(t.halves) /\ Reached(x * u)
      BY <1>4, <2>1 DEF Measured
    <3>2. x \in Nat /\ u \in Nat
      BY <1>2, <2>1, <3>1, SizeAssumption
    <3>3. x * u \in Nat
      <4> HIDE DEF x, u
      <4> QED
        BY <3>2
    <3>4. y \in Nat
      BY <1>2, <3>1, <3>3
    <3>5. ReadSize(t) = {Saturated(y \div 2)}
      BY <1>4, <2>1 DEF ReadSize, ParseSize
    <3> HIDE DEF y
    <3>6. y \div 2 \in Nat
      BY <3>4
    <3> QED
      BY <1>3, <3>5, <3>6 DEF Optional
  <2>2. CASE t.halves < 0 \/ t.unit \notin DOMAIN UnitSize
    BY <1>4, <2>2 DEF ReadSize, ParseSize, Optional
  <2> QED
    BY <2>1, <2>2
<1>5. CASE t.form # "text"
  <2>1. t.halves \in Int /\ t.halves \div 2 <= MaxU64
    BY <1>5 DEF Measured
  <2>2. CASE t.halves < 0
    BY <1>5, <2>2 DEF ReadSize, Optional
  <2>3. CASE ~(t.halves < 0)
    <3>1. t.halves \div 2 \in 0..MaxU64
      BY <1>1, <2>1, <2>3
    <3>2. ReadSize(t) = {t.halves \div 2}
      BY <1>5, <2>3 DEF ReadSize
    <3> QED
      BY <3>1, <3>2 DEF Optional
  <2> QED
    BY <2>2, <2>3
<1> QED
  BY <1>4, <1>5

LEMMA DurationTyped ==
  ASSUME NEW t, Timed(t)
  PROVE  ParseDuration(t) \in Optional(0..MaxDuration)
<1>1. \A k : k \in Nat /\ Reached(k) => F64(k) \in Nat
  <2> TAKE k
  <2>1. CASE k <= Exact
    BY <2>1 DEF F64
  <2>2. ASSUME k \in Nat, Reached(k), ~(k <= Exact) PROVE F64(k) \in Nat
    <3>1. k > Exact
      BY <2>2, SizeAssumption
    <3> QED
      BY <2>2, <3>1, F64Is
  <2> QED
    BY <2>1, <2>2
<1>2. /\ t.d \in Nat /\ t.h \in Nat /\ t.m \in Nat /\ t.s \in Nat /\ t.ms \in Nat
      /\ Reached(t.s)
  BY DEF Timed, DurationTexts
<1>3. ASSUME NEW n \in Nat, NEW u \in Nat, Reached(n), Reached(F64(n) * u)
      PROVE  Seconds(n, u) \in Nat
  <2>1. F64(n) * u \in Nat
    BY <1>1, <1>3
  <2> QED
    BY <1>1, <1>3, <2>1 DEF Seconds
<1>4. Seconds(t.m, Minute) \in Nat /\ Seconds(t.h, Hour) \in Nat /\ Seconds(t.d, Day) \in Nat
  <2>1. Minute \in Nat /\ Hour \in Nat /\ Day \in Nat
    BY DurationAssumption
  <2>2. /\ Reached(t.m) /\ Reached(F64(t.m) * Minute)
        /\ Reached(t.h) /\ Reached(F64(t.h) * Hour)
        /\ Reached(t.d) /\ Reached(F64(t.d) * Day)
    BY DEF Timed, Countable
  <2> QED
    BY <1>2, <1>3, <2>1, <2>2
<1>5. Total(t) \in Nat
  BY <1>1, <1>2, <1>4 DEF Total
<1>6. MaxDuration \in Nat
  BY SizeAssumption DEF MaxDuration
<1> QED
  BY <1>5, <1>6 DEF ParseDuration, Optional

\* At most one size and one duration, neither longer than its type.
SizedProfile(pr) ==
  pr.memory \in Optional(0..MaxU64) /\ pr.timeout \in Optional(0..MaxDuration)

LEMMA SizedLoaded ==
  ASSUME NEW i \in Inputs
  PROVE  SizedProfile(Loaded(i.text))
<1> DEFINE m == i.text.memory
           d == i.text.timeout
<1>1. /\ m.val \in Optional({v \in m.val : Measured(v)})
      /\ d.val \in Optional(d.val) /\ \A v \in d.val : Timed(v)
  BY InputsAssumption
<1>2. UNION {ReadSize(v) : v \in m.val} \in Optional(0..MaxU64)
  <2>1. CASE m.val = {}
    BY <2>1 DEF Optional
  <2>2. ASSUME NEW v, m.val = {v}, Measured(v)
        PROVE  UNION {ReadSize(w) : w \in m.val} \in Optional(0..MaxU64)
    <3>1. UNION {ReadSize(w) : w \in m.val} = ReadSize(v)
      BY <2>2
    <3> QED
      BY <2>2, <3>1, SizeTyped
  <2>3. m.val = {} \/ \E v : m.val = {v} /\ Measured(v)
    BY <1>1 DEF Optional
  <2> QED
    BY <2>1, <2>2, <2>3
<1>3. UNION {ParseDuration(v) : v \in d.val} \in Optional(0..MaxDuration)
  <2>1. CASE d.val = {}
    BY <2>1 DEF Optional
  <2>2. ASSUME NEW v, d.val = {v}, Timed(v)
        PROVE  UNION {ParseDuration(w) : w \in d.val} \in Optional(0..MaxDuration)
    <3>1. UNION {ParseDuration(w) : w \in d.val} = ParseDuration(v)
      BY <2>2
    <3> QED
      BY <2>2, <3>1, DurationTyped
  <2>3. d.val = {} \/ \E v : d.val = {v} /\ Timed(v)
    BY <1>1 DEF Optional
  <2> QED
    BY <2>1, <2>2, <2>3
<1>4. {DefaultMemory} \in Optional(0..MaxU64)
  BY DefaultMemoryAssumption DEF Optional
<1>5. /\ Loaded(i.text).memory = IF m.given THEN UNION {ReadSize(v) : v \in m.val}
                                 ELSE {DefaultMemory}
      /\ Loaded(i.text).timeout = UNION {ParseDuration(v) : v \in d.val}
  BY DEF Loaded
<1> HIDE DEF m, d
<1> QED
  BY <1>2, <1>3, <1>4, <1>5 DEF SizedProfile

\* The profile has sizes and durations that can be, and what was shown is what
\* that profile is written as.
ShowInv ==
  /\ SizedProfile(profile)
  /\ stage = "load" => SizedProfile(Loaded(text)) /\ shown = {}
  /\ \A t \in shown : \E format \in {"toml", "json"} :
       t = Shown(profile, format) /\ Serializes(profile, format)

LEMMA ShowInvariant == Spec => []ShowInv
<1>1. Init => ShowInv
  <2> SUFFICES ASSUME Init PROVE ShowInv
    OBVIOUS
  <2>1. SizedProfile(DefaultProfile)
    BY DefaultMemoryAssumption DEF DefaultProfile, SizedProfile, Optional
  <2>2. PICK i \in Inputs : text = i.text
    BY DEF Init
  <2>3. SizedProfile(Loaded(text))
    BY <2>2, SizedLoaded
  <2> QED
    BY <2>1, <2>3 DEF Init, ShowInv
<1>2. ShowInv /\ [Next]_vars => ShowInv'
  <2> SUFFICES ASSUME ShowInv, [Next]_vars PROVE ShowInv'
    OBVIOUS
  <2> USE DEF Exit, Proceed, inputs, cli, backend, outcome
  <2>1. ASSUME UNCHANGED <<profile, shown>>, stage' # "load" PROVE ShowInv'
    <3>1. \A t \in shown : \E format \in {"toml", "json"} :
          t = Shown(profile', format) /\ Serializes(profile', format)
      BY <2>1 DEF ShowInv
    <3> QED
      BY <2>1, <3>1 DEF ShowInv
  <2>2. CASE Load
    <3>1. /\ stage = "load" /\ stage' \in {"loaded", "exited"} /\ shown' = shown
          /\ profile' = profile \/ profile' = Loaded(text)
      BY <2>2 DEF Load
    <3>2. shown' = {} /\ SizedProfile(profile')
      BY <3>1 DEF ShowInv
    <3> QED
      BY <3>1, <3>2 DEF ShowInv
  <2>3. CASE ShowProfile
    <3>1. /\ stage' = "exited" /\ profile' = profile
          /\ \/ shown' = shown
             \/ \E format \in {"toml", "json"} :
                  shown' = {Shown(profile, format)} /\ Serializes(profile, format)
      BY <2>3 DEF ShowProfile
    <3>2. \A t \in shown' : \E format \in {"toml", "json"} :
          t = Shown(profile', format) /\ Serializes(profile', format)
      BY <3>1 DEF ShowInv
    <3> QED
      BY <3>1, <3>2 DEF ShowInv
  <2>4. CASE ValidateProfile \/ CheckProfile \/ ChooseIsolation \/ OpenAudit \/ Answered
    BY <2>1, <2>4 DEF ValidateProfile, CheckProfile, ChooseIsolation, OpenAudit, Answered
  <2>5. CASE HostChanges \/ Dispatch \/ MakePlan \/ StartFails \/ StartLost \/ SetUp
    BY <2>1, <2>5 DEF HostChanges, Dispatch, MakePlan, StartFails, StartLost, SetUp
  <2>6. CASE Exec \/ WindowsStart \/ CommandEnds \/ Finish
    BY <2>1, <2>6 DEF Exec, WindowsStart, CommandEnds, Finish
  <2>7. CASE UNCHANGED vars
    <3>1. UNCHANGED <<profile, text, stage, shown>>
      BY <2>7 DEF vars
    <3>2. Loaded(text)' = Loaded(text)
      BY <3>1 DEF Loaded
    <3>3. \A t \in shown : \E format \in {"toml", "json"} :
          t = Shown(profile', format) /\ Serializes(profile', format)
      BY <3>1 DEF ShowInv
    <3> QED
      BY <3>1, <3>2, <3>3 DEF ShowInv
  <2> QED
    BY <2>2, <2>3, <2>4, <2>5, <2>6, <2>7 DEF Next, CommandLine, Run
<1> QED
  BY <1>1, <1>2, PTL DEF Spec

\* What `profile show` writes reads back as the profile it was written from, but
\* for what its format or an f64 cannot hold.
THEOREM WrittenReadsBack == Spec => []ShownIsTheSame
<1>1. ShowInv => ShownIsTheSame
  <2> SUFFICES ASSUME ShowInv, NEW t \in shown, NEW again, again = Loaded(t)
               PROVE  /\ Loads(t) \/ \E d \in profile.timeout : d \div 1000 > Exact
                      /\ again.rest = profile.rest
                      /\ \/ again.memory = profile.memory
                         \/ profile.memory = {} /\ t.format = "toml"
                         \/ \E b \in profile.memory :
                              again.memory = {Saturated(F64(b))} /\ b > Exact
                      /\ \/ again.timeout = profile.timeout
                         \/ \E d \in profile.timeout :
                              \/ d % 1000 # 0 /\ again.timeout = {d - (d % 1000)}
                              \/ d \div 1000 > Exact
                      /\ again.cpu = profile.cpu
                           \/ (t.format = "json" /\ ~(profile.cpu \subseteq Finite("json", profile.cpu)))
                      /\ again.pids = profile.pids \/ (profile.pids = {} /\ t.format = "toml")
                      /\ again.open_files = profile.open_files
                           \/ (profile.open_files = {} /\ t.format = "toml")
                      /\ again.preset = profile.preset \/ (profile.preset = {} /\ t.format = "toml")
    BY DEF ShownIsTheSame
  <2> PICK format \in {"toml", "json"} : t = Shown(profile, format) /\ Serializes(profile, format)
    BY DEF ShowInv
  <2> DEFINE sizes == {HumanSize(b) : b \in profile.memory}
             durations == {HumanDuration(d) : d \in profile.timeout}
  <2>1. /\ t.format = format /\ t.rest = profile.rest
        /\ t.memory = Field(format, sizes)
        /\ t.timeout = Field(format, durations)
        /\ t.cpu = Field(format, Finite(format, profile.cpu))
        /\ t.pids = Field(format, profile.pids)
        /\ t.open_files = Field(format, profile.open_files)
        /\ t.preset = Field(format, profile.preset)
    BY DEF Shown
  <2>2. /\ again.memory = IF t.memory.given THEN UNION {ReadSize(m) : m \in t.memory.val}
                          ELSE {DefaultMemory}
        /\ again.timeout = UNION {ParseDuration(d) : d \in t.timeout.val}
        /\ again.cpu = OrDefault(t.cpu, {})
        /\ again.pids = OrDefault(t.pids, DefaultPids)
        /\ again.open_files = OrDefault(t.open_files, DefaultOpenFiles)
        /\ again.preset = OrDefault(t.preset, DefaultPreset)
        /\ again.rest = t.rest
    BY DEF Loaded
  <2>3. \A val, default :
          /\ Field(format, val).val = val
          /\ Field(format, val).given <=> (val # {} \/ format = "json")
          /\ OrDefault(Field(format, val), default) =
               IF val = {} /\ format = "toml" THEN default ELSE val
    BY DEF Field, OrDefault, Null, Absent
  <2> DEFINE read == UNION {ReadSize(m) : m \in sizes}
             waits == UNION {ParseDuration(w) : w \in durations}
  <2>4. /\ \A m \in sizes : ReadSize(m) # {}
        /\ read = profile.memory
             \/ \E b \in profile.memory : read = {Saturated(F64(b))} /\ b > Exact
    <3>1. CASE profile.memory = {}
      BY <3>1
    <3>2. ASSUME NEW size \in 0..MaxU64, profile.memory = {size}
          PROVE  /\ \A m \in sizes : ReadSize(m) # {}
                 /\ read = profile.memory
                      \/ \E b \in profile.memory : read = {Saturated(F64(b))} /\ b > Exact
      <4>1. /\ ReadSize(HumanSize(size)) = {Saturated(F64(size))}
            /\ size <= Exact => Saturated(F64(size)) = size
        BY SizeRoundTrip
      <4>2. sizes = {HumanSize(size)} /\ read = ReadSize(HumanSize(size))
        BY <3>2
      <4>3. size <= Exact \/ size > Exact
        BY SizeAssumption
      <4> HIDE DEF sizes, read
      <4> QED
        BY <3>2, <4>1, <4>2, <4>3
    <3> QED
      BY <3>1, <3>2 DEF ShowInv, SizedProfile, Optional
  <2>5. \/ /\ \A w \in durations : ParseDuration(w) # {}
           /\ waits = profile.timeout
                \/ \E d \in profile.timeout : d % 1000 # 0 /\ waits = {d - (d % 1000)}
        \/ \E d \in profile.timeout : d \div 1000 > Exact
    <3>1. CASE profile.timeout = {}
      BY <3>1
    <3>2. ASSUME NEW span \in 0..MaxDuration, profile.timeout = {span}, span \div 1000 <= Exact
          PROVE  /\ \A w \in durations : ParseDuration(w) # {}
                 /\ waits = profile.timeout
                      \/ \E d \in profile.timeout : d % 1000 # 0 /\ waits = {d - (d % 1000)}
      <4>1. ParseDuration(HumanDuration(span)) = {span - (span % 1000)}
        BY <3>2, DurationRoundTrip
      <4>2. durations = {HumanDuration(span)} /\ waits = ParseDuration(HumanDuration(span))
        BY <3>2
      <4>3. span % 1000 = 0 => span - (span % 1000) = span
        OBVIOUS
      <4> HIDE DEF durations, waits
      <4> QED
        BY <3>2, <4>1, <4>2, <4>3
    <3>3. ASSUME NEW span \in 0..MaxDuration, profile.timeout = {span}, ~(span \div 1000 <= Exact)
          PROVE  \E d \in profile.timeout : d \div 1000 > Exact
      <4>1. span \div 1000 > Exact
        BY <3>3, SizeAssumption
      <4> QED
        BY <3>3, <4>1
    <3> HIDE DEF durations, waits
    <3> QED
      BY <3>1, <3>2, <3>3 DEF ShowInv, SizedProfile, Optional
  <2>6. again.cpu = profile.cpu
          \/ (format = "json" /\ ~(profile.cpu \subseteq Finite("json", profile.cpu)))
    <3>1. again.cpu = Finite(format, profile.cpu)
      <4> DEFINE val == Finite(format, profile.cpu)
      <4>1. again.cpu = OrDefault(Field(format, val), {})
        BY <2>1, <2>2, Zenon
      <4> HIDE DEF val
      <4>2. again.cpu = IF val = {} /\ format = "toml" THEN {} ELSE val
        BY <2>3, <4>1
      <4> QED
        BY <4>2 DEF val
    <3> QED
      BY <3>1 DEF Finite
  <2>7. Loads(t) \/ \E d \in profile.timeout : d \div 1000 > Exact
    <3>1. /\ t.format \in {"toml", "json"} /\ Fits(t.format, t.open_files.val)
          /\ t.memory.val = sizes /\ t.timeout.val = durations
      BY <2>1, <2>3 DEF Serializes
    <3> HIDE DEF sizes, durations, waits
    <3> QED
      BY <2>4, <2>5, <3>1 DEF Loads
  <2>8. /\ again.memory = read \/ (profile.memory = {} /\ format = "toml")
        /\ again.timeout = waits
    <3>1. sizes = {} => profile.memory = {}
      OBVIOUS
    <3>2. t.memory.val = sizes /\ t.timeout.val = durations
      BY <2>1, <2>3
    <3>3. t.memory.given <=> (sizes # {} \/ format = "json")
      BY <2>1, <2>3
    <3> HIDE DEF sizes, durations
    <3> QED
      BY <2>2, <3>1, <3>2, <3>3
  <2>9. /\ again.pids = profile.pids \/ (profile.pids = {} /\ format = "toml")
        /\ again.open_files = profile.open_files \/ (profile.open_files = {} /\ format = "toml")
        /\ again.preset = profile.preset \/ (profile.preset = {} /\ format = "toml")
    BY <2>1, <2>2, <2>3
  <2> HIDE DEF sizes, durations, read, waits
  <2>10. t.format = format /\ again.rest = profile.rest
    BY <2>1, <2>2
  <2>11. /\ \/ again.memory = profile.memory
            \/ profile.memory = {} /\ t.format = "toml"
            \/ \E b \in profile.memory : again.memory = {Saturated(F64(b))} /\ b > Exact
         /\ \/ again.timeout = profile.timeout
            \/ \E d \in profile.timeout : \/ d % 1000 # 0 /\ again.timeout = {d - (d % 1000)}
                                         \/ d \div 1000 > Exact
    BY <2>4, <2>5, <2>8, <2>10
  <2> QED
    BY <2>6, <2>7, <2>9, <2>10, <2>11
<1> QED
  BY <1>1, ShowInvariant, PTL
=============================================================================
