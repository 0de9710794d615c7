------------------------------ MODULE RunContract ------------------------------
(***************************************************************************)
(* What Sandbox::run promises its caller, whatever the backend does inside *)
(* (trait Sandbox in lib.rs): a command runs only while its audit        *)
(* trail is open and only behind every boundary the policy asked for, and  *)
(* run answers, once, with an answer that agrees with what happened to the *)
(* command and with the trail.  LinuxRun implements it.                    *)
(***************************************************************************)

VARIABLES
  trail,     \* the audit trail of the run: "none", "open" after
             \* sandbox_start, "closed" after sandbox_exit
  command,   \* the sandboxed command: "never" started, "live", "dead"
  confined,  \* every boundary the policy asked for holds around the child
  answer     \* what run returned, "pending" until it does

cvars == <<trail, command, confined, answer>>

CTypeOK ==
  /\ trail \in {"none", "open", "closed"}
  /\ command \in {"never", "live", "dead"}
  /\ confined \in BOOLEAN
  /\ answer \in {"pending", "refused", "planned", "failed", "timeout", "report"}

CInit ==
  /\ trail = "none" /\ command = "never" /\ answer = "pending"
  /\ confined \in BOOLEAN

\* Refused before anything is recorded: no command, or a tool not allowed.
Refuse ==
  /\ trail = "none" /\ answer = "pending"
  /\ answer' = "refused"
  /\ UNCHANGED <<trail, command, confined>>

Open ==
  /\ trail = "none" /\ answer = "pending"
  /\ trail' = "open"
  /\ UNCHANGED <<command, confined, answer>>

\* A dry run answers without starting anything.
AnswerPlan ==
  /\ trail = "open" /\ command = "never" /\ answer = "pending"
  /\ answer' = "planned"
  /\ UNCHANGED <<trail, command, confined>>

\* The boundaries change only around a command that is not running.
Prepare ==
  /\ command # "live"
  /\ confined' \in BOOLEAN
  /\ UNCHANGED <<trail, command, answer>>

Launch ==
  /\ trail = "open" /\ answer = "pending"
  /\ command = "never" /\ confined
  /\ command' = "live"
  /\ UNCHANGED <<trail, confined, answer>>

Die ==
  /\ command = "live"
  /\ command' = "dead"
  /\ UNCHANGED <<trail, confined, answer>>

\* An error ends the run early, never with the command still live.
Fail ==
  /\ trail = "open" /\ command # "live" /\ answer = "pending"
  /\ answer' = "failed"
  /\ UNCHANGED <<trail, command, confined>>

\* The normal end: the trail is closed and the answer follows from it.
Finish ==
  /\ trail = "open" /\ command # "live" /\ answer = "pending"
  /\ trail' = "closed"
  /\ answer' \in {"timeout", "report"}
  /\ UNCHANGED <<command, confined>>

CNext ==
  \/ Refuse \/ Open \/ AnswerPlan \/ Prepare
  \/ Launch \/ Die \/ Fail \/ Finish

CSpec == CInit /\ [][CNext]_cvars
=============================================================================
