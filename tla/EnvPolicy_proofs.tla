--------------------------- MODULE EnvPolicy_proofs ---------------------------
(***************************************************************************)
(* Proofs about EnvPolicy, for every policy and every host environment: of *)
(* each variable of the command, where its value comes from.               *)
(***************************************************************************)
EXTENDS EnvPolicy, NaturalsInduction, WellFoundedInduction, TLAPS

TypedPolicy(env) == env.mode \in EnvModes /\ env.allow \in Seq(ToSet(env.allow))

-----------------------------------------------------------------------------
(* The last pair of a name. *)

LEMMA GreatestPlace ==
  ASSUME NEW n \in Nat, NEW S \in SUBSET (1..n), S # {}
  PROVE  \E m \in S : \A i \in S : i <= m
<1> DEFINE T == {n - i : i \in S}
<1>1. T \subseteq Nat /\ T # {}
  <2>1. PICK i \in S : TRUE
    OBVIOUS
  <2>2. n - i \in T
    OBVIOUS
  <2>3. \A j \in S : n - j \in Nat
    OBVIOUS
  <2> QED
    BY <2>2, <2>3
<1>2. PICK x \in T : \A y \in T : ~(<<y, x>> \in OpToRel(<, Nat))
  BY <1>1, NatLessThanWellFounded, WFMin
<1>3. PICK m \in S : x = n - m
  BY <1>2
<1>4. \A i \in S : i <= m
  <2> SUFFICES ASSUME NEW i \in S, i > m PROVE FALSE
    BY DEF T
  <2>1. n - i \in T /\ n - i < x /\ n - i \in Nat /\ x \in Nat
    BY <1>3
  <2> QED
    BY <1>2, <2>1 DEF OpToRel
<1> QED
  BY <1>3, <1>4

\* What Command::env is given last of a name is what stands.
LEMMA LastStands ==
  ASSUME NEW pairs, NEW k \in Nat, \A p \in pairs : p.at \in 1..k, NEW n \in NamesOf(pairs)
  PROVE  \E p \in pairs : p.name = n /\ LastOf(p, pairs) /\ Applied(pairs)[n] = p.from
<1> DEFINE S == {p.at : p \in {q \in pairs : q.name = n}}
<1>1. S \in SUBSET (1..k)
  OBVIOUS
<1>2. S # {}
  BY DEF NamesOf
<1>3. PICK m \in S : \A i \in S : i <= m
  BY <1>1, <1>2, GreatestPlace
<1>4. \E p \in pairs : p.name = n /\ LastOf(p, pairs)
  BY <1>3 DEF LastOf
<1> DEFINE last == CHOOSE p \in pairs : p.name = n /\ LastOf(p, pairs)
<1>5. last \in pairs /\ last.name = n /\ LastOf(last, pairs)
  BY <1>4
<1>6. Applied(pairs)[n] = last.from
  BY DEF Applied
<1> QED
  BY <1>5, <1>6

-----------------------------------------------------------------------------
(* The pairs. *)

LEMMA InheritedPairs ==
  ASSUME NEW env, NEW host, TypedPolicy(env)
  PROVE  LET inherited == Inherited(env, host) IN
         /\ \A p \in inherited :
              /\ p.at \in 1..(Len(env.allow) + 1)
              /\ Inherits(env, host, p.name)
              /\ \A q \in inherited : q.name = p.name /\ q.at # p.at => Loses(env, host, p.name)
         /\ \A n : Inherits(env, host, n) /\ n \in Readable(host) => n \in NamesOf(inherited)
         /\ \A n : Loses(env, host, n) =>
              \E p, q \in inherited : p.name = n /\ q.name = n /\ p.at # q.at
<1>1. /\ Len(env.allow) \in Nat /\ DOMAIN env.allow = 1..Len(env.allow)
      /\ 1 \in 1..(Len(env.allow) + 1)
      /\ 1..Len(env.allow) \subseteq 1..(Len(env.allow) + 1)
  BY DEF TypedPolicy
<1>2. CASE env.mode = "passthrough"
  <2>1. Inherited(env, host) = {[name |-> n, at |-> 1] : n \in Readable(host)}
    BY <1>2 DEF Inherited
  <2>2. \A p \in Inherited(env, host) : p.at = 1 /\ p.name \in Readable(host)
    BY <2>1
  <2>3. \A n \in Readable(host) : [name |-> n, at |-> 1].name \in NamesOf(Inherited(env, host))
    BY <2>1 DEF NamesOf
  <2> QED
    BY <1>1, <1>2, <2>2, <2>3 DEF Inherits, Readable, Loses
<1>3. CASE env.mode = "allowlist"
  <2> DEFINE I == {j \in DOMAIN env.allow : env.allow[j] \in Readable(host)}
  <2>1. Inherited(env, host) = {[name |-> env.allow[i], at |-> i] : i \in I}
    BY <1>3 DEF Inherited
  <2>2. \A p \in Inherited(env, host) :
          p.at \in DOMAIN env.allow /\ p.name = env.allow[p.at] /\ p.name \in Readable(host)
    BY <2>1
  <2>3. \A i \in I : [name |-> env.allow[i], at |-> i].name \in NamesOf(Inherited(env, host))
    BY <2>1 DEF NamesOf
  <2>4. \A n : Inherits(env, host, n) => \E i \in I : n = env.allow[i]
    BY <1>3 DEF Inherits, ToSet
  <2>5. ASSUME NEW n, Loses(env, host, n)
        PROVE  \E p, q \in Inherited(env, host) : p.name = n /\ q.name = n /\ p.at # q.at
    <3>1. PICK i, j \in I : i # j /\ env.allow[i] = n /\ env.allow[j] = n
      BY <2>5 DEF Loses, Repeated
    <3> DEFINE p == [name |-> env.allow[i], at |-> i]
               q == [name |-> env.allow[j], at |-> j]
    <3>2. p \in Inherited(env, host) /\ q \in Inherited(env, host)
      BY <2>1
    <3>3. p.name = n /\ q.name = n /\ p.at # q.at
      BY <3>1
    <3> QED
      BY <3>2, <3>3
  <2>6. ASSUME NEW p \in Inherited(env, host), NEW q \in Inherited(env, host),
               q.name = p.name, q.at # p.at
        PROVE  Loses(env, host, p.name)
    BY <1>3, <2>2, <2>6 DEF Loses, Repeated, ToSet
  <2> QED
    BY <1>1, <1>3, <2>2, <2>3, <2>4, <2>5, <2>6 DEF Inherits, ToSet
<1>4. CASE env.mode = "clear"
  BY <1>4 DEF Inherited, Inherits, Loses
<1> QED
  BY <1>2, <1>3, <1>4 DEF TypedPolicy, EnvModes

LEMMA ResolvedPairs ==
  ASSUME NEW env, NEW host, TypedPolicy(env)
  PROVE  LET pairs == ResolvedEnvVars(env, host)
             given == NamesOf(Inherited(env, host)) \cup env.set IN
         /\ \A p \in pairs :
              /\ p.at \in 1..(Len(env.allow) + 1)
              /\ \/ p.from = "set" /\ p.name \in env.set
                 \/ /\ p.from = "host" /\ Inherits(env, host, p.name)
                    /\ p.name \in env.set => Loses(env, host, p.name)
                 \/ p.from = "default" /\ p.name \in DefaultPath(given)
              /\ Loses(env, host, p.name) /\ LastOf(p, pairs) => p.from = "host"
         /\ NamesOf(pairs) = given \cup DefaultPath(given)
<1> DEFINE inherited == Inherited(env, host)
           given == NamesOf(inherited) \cup env.set
           changed == Overridden(inherited, env.set)
           added == Appended(env.set \ NamesOf(inherited), "set")
           path == Appended(DefaultPath(given), "default")
<1>1. ResolvedEnvVars(env, host) = changed \cup added \cup path
  BY DEF ResolvedEnvVars
<1>2. \A p \in changed : \E q \in inherited :
        /\ p.at = q.at /\ p.name = q.name
        /\ p.from = IF q.name \in env.set /\ FirstOf(q, inherited) THEN "set" ELSE "host"
  BY DEF Overridden
<1>3. \A q \in inherited : ~FirstOf(q, inherited) => Loses(env, host, q.name)
  BY InheritedPairs DEF FirstOf
<1>4. \A p \in added : p.at = 1 /\ p.from = "set" /\ p.name \in env.set
  BY DEF Appended
<1>5. \A p \in path : p.at = 1 /\ p.from = "default" /\ p.name \in DefaultPath(given)
  BY DEF Appended
<1>6. Len(env.allow) \in Nat
  BY DEF TypedPolicy
<1>7. \A p \in changed :
        /\ p.at \in 1..(Len(env.allow) + 1)
        /\ \/ p.from = "set" /\ p.name \in env.set
           \/ /\ p.from = "host" /\ Inherits(env, host, p.name)
              /\ p.name \in env.set => Loses(env, host, p.name)
  <2> HIDE DEF inherited, changed
  <2>1. \A q \in inherited : q.at \in 1..(Len(env.allow) + 1) /\ Inherits(env, host, q.name)
    BY InheritedPairs DEF inherited
  <2> QED
    BY <1>2, <1>3, <2>1
<1>8. NamesOf(changed) = NamesOf(inherited)
  <2>1. \A q \in inherited : q.name \in NamesOf(changed)
    <3> TAKE q \in inherited
    <3> DEFINE p == [name |-> q.name, at |-> q.at,
                     from |-> IF q.name \in env.set /\ FirstOf(q, inherited) THEN "set" ELSE "host"]
    <3>1. p \in changed /\ p.name = q.name
      BY DEF Overridden
    <3> QED
      BY <3>1 DEF NamesOf
  <2> QED
    BY <1>2, <2>1 DEF NamesOf
<1>9. \A names, from : NamesOf(Appended(names, from)) = names
  <2> TAKE names, from
  <2>1. \A n \in names : \E p \in Appended(names, from) : p.name = n
    <3> TAKE n \in names
    <3>1. [name |-> n, at |-> 1, from |-> from] \in Appended(names, from)
      BY DEF Appended
    <3> QED
      BY <3>1
  <2>2. \A p \in Appended(names, from) : p.name \in names
    BY DEF Appended
  <2> QED
    BY <2>1, <2>2 DEF NamesOf
<1>10. NamesOf(changed \cup added \cup path) = NamesOf(changed) \cup NamesOf(added) \cup NamesOf(path)
  BY DEF NamesOf
<1>11. 1 \in 1..(Len(env.allow) + 1)
  BY <1>6
<1>12. NamesOf(changed \cup added \cup path) = given \cup DefaultPath(given)
  <2>1. NamesOf(added) = env.set \ NamesOf(inherited) /\ NamesOf(path) = DefaultPath(given)
    BY <1>9
  <2> HIDE DEF inherited, changed, added, path
  <2> QED
    BY <1>8, <1>10, <2>1
<1> HIDE DEF inherited, given, changed, added, path
<1>13. \A p \in changed \cup added \cup path :
         /\ p.at \in 1..(Len(env.allow) + 1)
         /\ \/ p.from = "set" /\ p.name \in env.set
            \/ /\ p.from = "host" /\ Inherits(env, host, p.name)
               /\ p.name \in env.set => Loses(env, host, p.name)
            \/ p.from = "default" /\ p.name \in DefaultPath(given)
  BY <1>4, <1>5, <1>7, <1>11
<1>14. given = NamesOf(Inherited(env, host)) \cup env.set
  BY DEF given, inherited
<1>15. ASSUME NEW p \in changed \cup added \cup path, Loses(env, host, p.name),
              LastOf(p, changed \cup added \cup path)
       PROVE  p.from = "host"
  <2>1. PICK a, b \in inherited : a.name = p.name /\ b.name = p.name /\ a.at # b.at
    BY <1>15, InheritedPairs DEF inherited
  <2>2. \E c, d \in changed : /\ c.name = p.name /\ d.name = p.name
                              /\ c.at = a.at /\ d.at = b.at
    <3>1. \A q \in inherited : \E c \in changed : c.name = q.name /\ c.at = q.at
      <4> TAKE q \in inherited
      <4> DEFINE c == [name |-> q.name, at |-> q.at,
                       from |-> IF q.name \in env.set /\ FirstOf(q, inherited) THEN "set" ELSE "host"]
      <4>1. c \in changed /\ c.name = q.name /\ c.at = q.at
        BY DEF changed, Overridden
      <4> QED
        BY <4>1
    <3>2. PICK c \in changed : c.name = a.name /\ c.at = a.at
      BY <3>1
    <3>3. PICK d \in changed : d.name = b.name /\ d.at = b.at
      BY <3>1
    <3> QED
      BY <2>1, <3>2, <3>3
  <2>3. a.at \in Nat /\ b.at \in Nat /\ p.at \in Nat /\ a.at <= p.at /\ b.at <= p.at
    <3>1. \A q \in inherited : q.at \in Nat
      BY <1>6, InheritedPairs DEF inherited
    <3>2. p.at \in Nat
      BY <1>6, <1>13
    <3>3. a.at <= p.at /\ b.at <= p.at
      BY <1>15, <2>2 DEF LastOf
    <3> QED
      BY <2>1, <3>1, <3>2, <3>3
  <2>4. p \in changed
    <3>1. p.name \in NamesOf(inherited)
      BY <2>1 DEF NamesOf
    <3>2. p \notin added
      BY <3>1 DEF added, Appended
    <3>3. p \notin path
      <4>1. p.name \in given
        BY <3>1 DEF given
      <4> QED
        BY <1>5, <4>1, PathsAssumption DEF DefaultPath
    <3> QED
      BY <1>15, <3>2, <3>3
  <2>5. PICK q \in inherited :
          /\ p.at = q.at /\ p.name = q.name
          /\ p.from = IF q.name \in env.set /\ FirstOf(q, inherited) THEN "set" ELSE "host"
    BY <1>2, <2>4
  <2>6. ~FirstOf(q, inherited)
    BY <2>1, <2>3, <2>5 DEF FirstOf
  <2> QED
    BY <2>5, <2>6
<1> QED
  BY <1>1, <1>12, <1>13, <1>14, <1>15

-----------------------------------------------------------------------------
(* The environment. *)

AsListed(child, env, host) ==
  /\ \A n \in DOMAIN child :
       \/ child[n] = "set" /\ n \in env.set
       \/ /\ child[n] = "host" /\ Inherits(env, host, n)
          /\ n \in env.set => Loses(env, host, n)
       \/ child[n] = "default" /\ n = "PATH" /\ DOMAIN child \cap Paths = {"PATH"}
  /\ env.set \subseteq DOMAIN child
  /\ \A n \in env.set : Loses(env, host, n) => child[n] = "host"
  /\ DOMAIN child \cap Paths # {}

\* What resolved_env_vars makes of a policy and apply_env applies is as the
\* policy says, but that a name inherited twice keeps the host's value; every value
\* that is text and is to be inherited is there.
THEOREM ResolvedAsListed ==
  ASSUME NEW env, NEW host, TypedPolicy(env)
  PROVE  LET child == Applied(ResolvedEnvVars(env, host)) IN
         /\ AsListed(child, env, host)
         /\ \A n \in Readable(host) : Inherits(env, host, n) => n \in DOMAIN child
<1> DEFINE pairs == ResolvedEnvVars(env, host)
           given == NamesOf(Inherited(env, host)) \cup env.set
           child == Applied(pairs)
<1>1. DOMAIN child = given \cup DefaultPath(given)
  BY ResolvedPairs DEF Applied
<1>2. DefaultPath(given) # {} => "PATH" \in DOMAIN child /\ DOMAIN child \cap Paths = {"PATH"}
  BY <1>1, PathsAssumption DEF DefaultPath
<1>3. \A n \in DefaultPath(given) : n = "PATH"
  BY DEF DefaultPath
<1>4. given \cap Paths # {} \/ DefaultPath(given) # {}
  BY DEF DefaultPath
<1>5. \A n \in DOMAIN child :
        \/ child[n] = "set" /\ n \in env.set
        \/ /\ child[n] = "host" /\ Inherits(env, host, n)
           /\ n \in env.set => Loses(env, host, n)
        \/ child[n] = "default" /\ n \in DefaultPath(given)
  <2> TAKE n \in DOMAIN child
  <2>1. n \in NamesOf(pairs)
    BY <1>1, ResolvedPairs
  <2>2. Len(env.allow) + 1 \in Nat
    BY DEF TypedPolicy
  <2>3. \A p \in pairs : p.at \in 1..(Len(env.allow) + 1)
    BY ResolvedPairs
  <2> HIDE DEF pairs
  <2>4. PICK p \in pairs : p.name = n /\ child[n] = p.from
    BY <2>1, <2>2, <2>3, LastStands
  <2> QED
    BY <2>4, ResolvedPairs DEF pairs
<1>6. \A n \in Readable(host) : Inherits(env, host, n) => n \in given
  BY InheritedPairs
<1>8. \A n \in DOMAIN child : Loses(env, host, n) => child[n] = "host"
  <2> TAKE n \in DOMAIN child
  <2>1. n \in NamesOf(pairs)
    BY <1>1, ResolvedPairs
  <2>2. Len(env.allow) + 1 \in Nat
    BY DEF TypedPolicy
  <2>3. \A p \in pairs : p.at \in 1..(Len(env.allow) + 1)
    BY ResolvedPairs
  <2> HIDE DEF pairs
  <2>4. PICK p \in pairs : p.name = n /\ LastOf(p, pairs) /\ child[n] = p.from
    BY <2>1, <2>2, <2>3, LastStands
  <2> QED
    BY <2>4, ResolvedPairs DEF pairs
<1> HIDE DEF child, given
<1>7. AsListed(child, env, host)
  <2>1. env.set \subseteq DOMAIN child
    BY <1>1 DEF given
  <2>2. DOMAIN child \cap Paths # {}
    BY <1>1, <1>2, <1>4
  <2> QED
    BY <1>2, <1>3, <1>5, <1>8, <2>1, <2>2 DEF AsListed
<1> QED
  BY <1>1, <1>6, <1>7 DEF child

\* So is what apply_env makes of it, raw values included.
THEOREM AppliedAsListed ==
  ASSUME NEW env, NEW host, TypedPolicy(env)
  PROVE  LET child == ApplyEnv(env, host) IN
         /\ AsListed(child, env, host)
         /\ \A n \in DOMAIN host : Inherits(env, host, n) => n \in DOMAIN child
<1>1. CASE env.mode # "passthrough"
  <2>1. ApplyEnv(env, host) = Applied(ResolvedEnvVars(env, host))
    BY <1>1 DEF ApplyEnv
  <2>2. \A n : Inherits(env, host, n) => n \in Readable(host)
    BY <1>1 DEF Inherits
  <2> QED
    BY <2>1, <2>2, ResolvedAsListed
<1>2. CASE env.mode = "passthrough"
  <2> DEFINE names == DOMAIN host \cup env.set
             child == ApplyEnv(env, host)
  <2>1. child = [n \in names \cup DefaultPath(names) |->
                   IF n \in env.set THEN "set" ELSE IF n \in DOMAIN host THEN "host" ELSE "default"]
    BY <1>2 DEF ApplyEnv
  <2>2. DOMAIN child = names \cup DefaultPath(names)
    BY <2>1
  <2>3. \A n \in DOMAIN child :
          child[n] = IF n \in env.set THEN "set" ELSE IF n \in DOMAIN host THEN "host" ELSE "default"
    BY <2>1
  <2>4. /\ DefaultPath(names) # {} => DefaultPath(names) = {"PATH"} /\ names \cap Paths = {}
        /\ names \cap Paths # {} \/ DefaultPath(names) = {"PATH"}
    BY DEF DefaultPath
  <2> HIDE DEF child
  <2>5. DOMAIN child \cap Paths # {}
    BY <2>2, <2>4, PathsAssumption
  <2>6. \A n \in DOMAIN child : n \notin names => n = "PATH" /\ DOMAIN child \cap Paths = {"PATH"}
    BY <2>2, <2>4, PathsAssumption
  <2>7. \A n \in DOMAIN host : Inherits(env, host, n)
    BY <1>2 DEF Inherits
  <2> QED
    BY <1>2, <2>2, <2>3, <2>5, <2>6, <2>7 DEF AsListed, child, Loses
<1> QED
  BY <1>1, <1>2
=============================================================================
