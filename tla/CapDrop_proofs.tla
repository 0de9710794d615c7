--------------------------- MODULE CapDrop_proofs ---------------------------
(* Theorems about CapDrop, for every set of capabilities. *)
EXTENDS CapDrop, TLAPS

Setting == Places \ {"exec", "command"}

\* One capset, granted or refused, leaves a credential the kernel can hold.
LEMMA CapsetKeepsType ==
  ASSUME CapTypeOK, ~nnp, NEW s \in Sets, NEW v \in SUBSET Caps, NEW n \in Setting,
         Capset(s, v, n)
  PROVE  CapTypeOK'
BY DEF CapTypeOK, Setting, Places, WellFormed, Sets, Capset, CapsetAllows, Settled,
       Proceed, Fail

LEMMA SetExactlyKeepsType ==
  ASSUME CapTypeOK, ~nnp, NEW s \in Sets, NEW h \in Setting, NEW n \in Setting,
         SetExactly(h, s, n)
  PROVE  CapTypeOK'
<1>1. cred[s] \subseteq Caps /\ keep \subseteq Caps
  BY DEF CapTypeOK
<1>2. ASSUME NEW c \in cred[s] \ keep, Capset(s, cred[s] \ {c}, h) PROVE CapTypeOK'
  <2>1. cred[s] \ {c} \in SUBSET Caps
    BY <1>1
  <2> QED
    BY <1>2, <2>1, CapsetKeepsType
<1>3. ASSUME NEW c \in keep \ cred[s], Capset(s, cred[s] \cup {c}, h) PROVE CapTypeOK'
  <2>1. cred[s] \cup {c} \in SUBSET Caps
    BY <1>1
  <2> QED
    BY <1>3, <2>1, CapsetKeepsType
<1>4. CASE Proceed(cred, n)
  BY <1>4 DEF Proceed, CapTypeOK, Setting, Places, WellFormed
<1> QED
  BY <1>2, <1>3, <1>4 DEF SetExactly

LEMMA CapTypeInductive ==
  ASSUME CapTypeOK, [CapNext]_cvars
  PROVE  CapTypeOK'
<1>1. {} \in SUBSET Caps
  OBVIOUS
<1>2. CASE ClearAmbient
  BY <1>2 DEF ClearAmbient, Proceed, CapTypeOK, Places, WellFormed, Sets
<1>3. CASE DropBounding
  BY <1>3 DEF DropBounding, Proceed, Fail, CapTypeOK, Places, WellFormed, Sets
<1>4. CASE Branch
  BY <1>4 DEF Branch, Proceed, CapTypeOK, Places, WellFormed
<1>5. CASE ClearInheritable \/ ClearEffective \/ ClearPermitted
  <2>1. ~nnp
    BY <1>5 DEF CapTypeOK, ClearInheritable, ClearEffective, ClearPermitted, Clear
  <2>2. \E s \in Sets, n \in Setting : Capset(s, {}, n)
    BY <1>5 DEF Sets, Setting, Places, ClearInheritable, ClearEffective, ClearPermitted, Clear
  <2> QED
    BY <1>1, <2>1, <2>2, CapsetKeepsType
<1>7. CASE SetInheritable \/ SetPermitted \/ SetEffective
  <2>1. ~nnp
    BY <1>7 DEF CapTypeOK, SetInheritable, SetPermitted, SetEffective, SetExactly
  <2>2. \E s \in Sets, h \in Setting, n \in Setting : SetExactly(h, s, n)
    BY <1>7 DEF Sets, Setting, Places, SetInheritable, SetPermitted, SetEffective
  <2> QED
    BY <2>1, <2>2, SetExactlyKeepsType
<1>8. CASE RaiseAmbient
  BY <1>8 DEF RaiseAmbient, Proceed, Fail, CapTypeOK, Places, WellFormed, Sets
<1>9. CASE SetNoNewPrivs
  BY <1>9 DEF SetNoNewPrivs, CapTypeOK, Places, WellFormed
<1>10. CASE Exec
  BY <1>10 DEF Exec, Executed, Brought, AmbientAfter, AsRoot, Files, CapTypeOK, Places,
              WellFormed, Sets
<1>11. CASE UNCHANGED cvars
  BY <1>11 DEF cvars, CapTypeOK, WellFormed
<1> QED
  BY <1>2, <1>3, <1>4, <1>5, <1>7, <1>8, <1>9, <1>10, <1>11 DEF CapNext, Apply

\* Every variable keeps its type and the credentials stay well-formed.
THEOREM CapTypeCorrect == CapSpec => []CapTypeOK
<1>1. CapInit => CapTypeOK
  BY DEF CapInit, CapTypeOK, Places
<1>2. CapTypeOK /\ [CapNext]_cvars => CapTypeOK'
  BY CapTypeInductive
<1> QED
  BY <1>1, <1>2, PTL DEF CapSpec

-----------------------------------------------------------------------------
(* What survives. *)

AtClears == {"clear_inheritable", "clear_effective", "clear_permitted"}
AtSets == {"set_inheritable", "set_permitted", "set_effective", "raise_ambient"}
After == {"done", "exec", "command"}

\* How far the sets have been cut down at each statement of apply(): the
\* ambient set first, the bounding set before the branch if CAP_SETPCAP was in
\* effect, then the inheritable set; each stays cut down for good.
CutInv ==
  /\ at \in {"ambient", "bounding", "branch"} => cred["effective"] = entered["effective"]
  /\ at \in {"branch"} \cup AtClears \cup AtSets \cup After /\ Setpcap \in entered["effective"] =>
       cred["bounding"] \subseteq keep
  /\ at \in AtClears => keep = {}
  /\ at \in {"clear_effective", "clear_permitted", "set_permitted", "set_effective",
              "raise_ambient"} \cup After => cred["inheritable"] \subseteq keep
  /\ at \in {"set_effective", "raise_ambient"} \cup After => cred["permitted"] \subseteq keep

LEMMA CutInvInductive ==
  ASSUME CapTypeOK, CutInv, [CapNext]_cvars
  PROVE  CutInv'
<1> USE DEF CapTypeOK, CutInv, Places, WellFormed, Sets, AtClears, AtSets, After
<1>1. CASE ClearAmbient \/ DropBounding \/ Branch
  BY <1>1 DEF ClearAmbient, DropBounding, Branch, Proceed, Fail
<1>2. CASE ClearInheritable
  BY <1>2 DEF ClearInheritable, Clear, Capset, Settled, Proceed, Fail
<1>3. CASE ClearEffective
  BY <1>3 DEF ClearEffective, Clear, Capset, Settled, Proceed, Fail
<1>4. CASE ClearPermitted
  BY <1>4 DEF ClearPermitted, Clear, Capset, Settled, Proceed, Fail
<1>5. CASE SetInheritable
  BY <1>5 DEF SetInheritable, SetExactly, Capset, Settled, Proceed, Fail
<1>6. CASE SetPermitted
  BY <1>6 DEF SetPermitted, SetExactly, Capset, Settled, Proceed, Fail
<1>7. CASE SetEffective
  BY <1>7 DEF SetEffective, SetExactly, Capset, Settled, Proceed, Fail
<1>8. CASE RaiseAmbient \/ SetNoNewPrivs
  BY <1>8 DEF RaiseAmbient, SetNoNewPrivs, Proceed, Fail
<1>9. CASE Exec
  BY <1>9 DEF Exec, Executed, Brought, AmbientAfter, AsRoot, Files
<1>10. CASE UNCHANGED cvars
  BY <1>10 DEF cvars
<1> QED
  BY <1>1, <1>2, <1>3, <1>4, <1>5, <1>6, <1>7, <1>8, <1>9, <1>10 DEF CapNext, Apply

LEMMA CutInvariant == CapSpec => []CutInv
<1>1. CapInit => CutInv
  BY DEF CapInit, CutInv, AtClears, AtSets, After
<1>2. CapTypeOK /\ CutInv /\ [CapNext]_cvars => CutInv'
  BY CutInvInductive
<1> QED
  BY <1>1, <1>2, CapTypeCorrect, PTL DEF CapSpec

\* A successful apply() leaves nothing outside the keep-set.
THEOREM OnlyKeptIsLeft == CapSpec => []OnlyKeptSurvive
<1>1. CapTypeOK /\ CutInv => OnlyKeptSurvive
  BY DEF CapTypeOK, WellFormed, CutInv, OnlyKeptSurvive, Sets, After
<1> QED
  BY <1>1, CapTypeCorrect, CutInvariant, PTL

\* Whatever the command executes, nothing it was not left with returns.
THEOREM DroppedForGood == CapSpec => []NothingReturns
<1>1. CapTypeOK /\ CutInv => NothingReturns
  BY DEF CapTypeOK, WellFormed, CutInv, NothingReturns, Sets, After
<1> QED
  BY <1>1, CapTypeCorrect, CutInvariant, PTL

-----------------------------------------------------------------------------
(* When apply() works. *)

\* What each statement may still count on of the caller's credentials, and what
\* the loops behind it have made of them.  The permitted set is shrunk to the
\* keep-set while what the caller had in effect still is: this is where a
\* keep-set that is not Keepable comes to grief.
WorkInv ==
  /\ cred["bounding"] \subseteq entered["bounding"]
  /\ entered["bounding"] \cap keep \subseteq cred["bounding"]
  /\ at = "bounding" => Setpcap \in cred["effective"]
  /\ at \in {"ambient", "bounding", "branch", "set_inheritable", "set_permitted"} =>
       cred["effective"] = entered["effective"]
  /\ at \in {"ambient", "bounding", "branch", "set_inheritable"} =>
       /\ cred["permitted"] = entered["permitted"]
       /\ entered["inheritable"] \cap keep \subseteq cred["inheritable"]
       /\ cred["inheritable"] \subseteq entered["inheritable"] \cup entered["bounding"]
  /\ at \in AtSets => keep # {}
  /\ at = "clear_permitted" => cred["effective"] = {}
  /\ at \in {"set_permitted", "set_effective", "raise_ambient"} =>
       /\ cred["inheritable"] = keep
       /\ keep \subseteq entered["inheritable"] \cup entered["bounding"]
  /\ at = "set_permitted" =>
       /\ cred["permitted"] \subseteq entered["permitted"]
       /\ entered["permitted"] \cap keep \subseteq cred["permitted"]
  /\ at \in {"set_effective", "raise_ambient"} => cred["permitted"] = keep /\ Keepable
  /\ at = "raise_ambient" => cred["effective"] = keep
  /\ at \in {"done", "exec"} => \A s \in Sets \ {"bounding"} : cred[s] = keep
  /\ WorksIfKeepable

LEMMA WorkInvInductive ==
  ASSUME CapTypeOK, CutInv, WorkInv, [CapNext]_cvars
  PROVE  WorkInv'
<1> USE DEF CapTypeOK, CutInv, WorkInv, WorksIfKeepable, Keepable, Places, WellFormed, Sets,
            AtClears, AtSets, After
<1>1. CASE ClearAmbient \/ DropBounding \/ Branch
  BY <1>1 DEF ClearAmbient, DropBounding, Branch, Proceed, Fail
<1>2. CASE ClearInheritable
  BY <1>2 DEF ClearInheritable, Clear, Capset, CapsetAllows, Settled, Proceed, Fail
<1>3. CASE ClearEffective
  BY <1>3 DEF ClearEffective, Clear, Capset, CapsetAllows, Settled, Proceed, Fail
<1>4. CASE ClearPermitted
  BY <1>4 DEF ClearPermitted, Clear, Capset, CapsetAllows, Settled, Proceed, Fail
<1>5. CASE SetInheritable
  BY <1>5 DEF SetInheritable, SetExactly, Capset, CapsetAllows, Settled, Proceed, Fail
<1>6. CASE SetPermitted
  <2>1. ASSUME NEW c \in cred["permitted"] \ keep,
               Capset("permitted", cred["permitted"] \ {c}, "set_permitted")
        PROVE  WorkInv'
    BY <1>6, <2>1 DEF SetPermitted, SetExactly, Capset, CapsetAllows, Settled, Proceed, Fail
  <2>2. ASSUME NEW c \in keep \ cred["permitted"],
               Capset("permitted", cred["permitted"] \cup {c}, "set_permitted")
        PROVE  WorkInv'
    BY <1>6, <2>2 DEF SetPermitted, SetExactly, Capset, CapsetAllows, Settled, Proceed, Fail
  <2>3. CASE cred["permitted"] = keep /\ Proceed(cred, "set_effective")
    BY <1>6, <2>3 DEF SetPermitted, SetExactly, Proceed
  <2> QED
    BY <1>6, <2>1, <2>2, <2>3 DEF SetPermitted, SetExactly
<1>7. CASE SetEffective
  BY <1>7 DEF SetEffective, SetExactly, Capset, CapsetAllows, Settled, Proceed, Fail
<1>8. CASE RaiseAmbient \/ SetNoNewPrivs
  BY <1>8 DEF RaiseAmbient, SetNoNewPrivs, Proceed, Fail
<1>9. CASE Exec
  BY <1>9 DEF Exec, Executed, Brought, AmbientAfter, AsRoot, Files
<1>10. CASE UNCHANGED cvars
  BY <1>10 DEF cvars
<1> QED
  BY <1>1, <1>2, <1>3, <1>4, <1>5, <1>6, <1>7, <1>8, <1>9, <1>10 DEF CapNext, Apply

LEMMA WorkInvariant == CapSpec => []WorkInv
<1>1. CapInit => WorkInv
  BY DEF CapInit, WorkInv, WorksIfKeepable, AtClears, AtSets
<1>2. CapTypeOK /\ CutInv /\ WorkInv /\ [CapNext]_cvars => WorkInv'
  BY WorkInvInductive
<1> QED
  BY <1>1, <1>2, CapTypeCorrect, CutInvariant, PTL DEF CapSpec

\* apply() succeeds for a keep-set that is Keepable and for no other; a profile
\* that keeps nothing can always be applied.
THEOREM KeepableDecides == CapSpec => []WorksIfKeepable
<1>1. WorkInv => WorksIfKeepable
  BY DEF WorkInv
<1> QED
  BY <1>1, WorkInvariant, PTL

\* A command starts with the kept capabilities in effect and no others.
THEOREM KeptAreInEffect == CapSpec => StartedWithKept
<1>1. CapTypeOK /\ WorkInv /\ [CapNext]_cvars =>
        [at = "exec" /\ at' = "command" => cred'["effective"] = keep]_cvars
  <2> SUFFICES ASSUME CapTypeOK, WorkInv, CapNext, at = "exec", at' = "command"
               PROVE  cred'["effective"] = keep
    BY DEF cvars
  <2>1. Exec
    BY DEF CapNext, Apply, ClearAmbient, DropBounding, Branch, ClearInheritable, ClearEffective,
           ClearPermitted, Clear, SetInheritable, SetPermitted, SetEffective, SetExactly,
           RaiseAmbient, SetNoNewPrivs
  <2> QED
    BY <2>1 DEF Exec, Executed, Brought, AmbientAfter, AsRoot, Files, CapTypeOK, WorkInv, Sets
<1> QED
  BY <1>1, CapTypeCorrect, WorkInvariant, PTL DEF CapSpec, StartedWithKept
=============================================================================
