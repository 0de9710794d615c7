------------------------- MODULE MountPlan_proofs -------------------------
(***************************************************************************)
(* What MountPlan's runs show on a few plans, for every plan, host and set *)
(* of paths.  What the command sees and may write follows from PlanInv:    *)
(* mounts come in the order of the steps, each is one the lists ask for,   *)
(* each step done left its mount or had nothing to mount, and what the     *)
(* command could see at each moment is a tree.  What happens to the host,  *)
(* and where setup() fails, follows from HostInv and Placed, which say     *)
(* what the host still has in common with the one setup() was given, and   *)
(* which step each writable bind mount comes from.                         *)
(***************************************************************************)
EXTENDS MountPlan, SequenceTheorems, WellFoundedInduction, TLAPS

Anywhere == Paths \cup {<<>>}

LEMMA PathFacts ==
  /\ Anywhere \subseteq Seq(STRING)
  /\ \A p \in Anywhere : Prefixes(p) \subseteq Anywhere /\ p \in Prefixes(p) /\ <<>> \in Prefixes(p)
<1>1. Anywhere \subseteq Seq(STRING)
  <2>1. <<>> \in Seq(STRING)
    OBVIOUS
  <2>2. Paths \subseteq Seq(STRING)
    BY Zenon, PathsAssumption
  <2> QED
    BY Zenon, <2>1, <2>2 DEF Anywhere
<1>2. ASSUME NEW p \in Anywhere
      PROVE Prefixes(p) \subseteq Anywhere /\ p \in Prefixes(p) /\ <<>> \in Prefixes(p)
  <2>0. p \in Seq(STRING)
    BY <1>1
  <2>1. p \in Prefixes(p) 
    <3>1. SubSeq(p, 1, Len(p)) = p /\ Len(p) \in 0..Len(p)
      BY <2>0
    <3> QED
      BY <3>1 DEF Prefixes
  <2>2. <<>> \in Prefixes(p)
    <3>1. SubSeq(p, 1, 0) = <<>> /\ 0 \in 0..Len(p)
      BY <2>0
    <3> QED
      BY <3>1 DEF Prefixes
  <2>3. Prefixes(<<>>) \subseteq {<<>>}
    <3>1. ASSUME NEW q \in Prefixes(<<>>) PROVE q = <<>>
      <4>1. PICK l \in 0..0 : q = SubSeq(<<>>, 1, l)
        BY DEF Prefixes
      <4> QED
        BY <4>1
    <3> QED
      BY <3>1
  <2> QED
    BY <2>1, <2>2, <2>3, PathsAssumption DEF Anywhere
<1> QED
  BY <1>1, <1>2

LEMMA FirstNames ==
  ASSUME NEW p \in Seq(STRING), NEW n \in 0..Len(p)
  PROVE  /\ SubSeq(p, 1, n) \in Seq(STRING) /\ Len(SubSeq(p, 1, n)) = n
         /\ \A i \in 1..n : SubSeq(p, 1, n)[i] = p[i]
BY SubSeqProperties

LEMMA PrefixIs ==
  ASSUME NEW p \in Seq(STRING), NEW q \in Seq(STRING)
  PROVE  /\ q \in Prefixes(p) <=> IsPrefix(q, p)
         /\ IsPrefix(q, p) <=> Len(q) <= Len(p) /\ \A i \in 1..Len(q) : q[i] = p[i]
<1>1. IsPrefix(q, p) <=> Len(q) <= Len(p) /\ \A i \in 1..Len(q) : q[i] = p[i]
  <2>1. SubSeq(q, 1, Len(q)) = q
    OBVIOUS
  <2>2. ASSUME Len(q) <= Len(p)
        PROVE  /\ SubSeq(p, 1, Len(q)) \in Seq(STRING) /\ Len(SubSeq(p, 1, Len(q))) = Len(q)
               /\ \A i \in 1..Len(q) : SubSeq(p, 1, Len(q))[i] = p[i]
    BY <2>2, SubSeqProperties
  <2> QED
    BY <2>1, <2>2, SeqEqual DEF IsPrefix
<1>2. IsPrefix(q, p) => q \in Prefixes(p)
  BY DEF IsPrefix, Prefixes
<1>3. ASSUME q \in Prefixes(p) PROVE IsPrefix(q, p)
  <2>1. PICK l \in 0..Len(p) : q = SubSeq(p, 1, l)
    BY <1>3 DEF Prefixes
  <2>2. Len(q) = l
    BY <2>1, SubSeqProperties
  <2> QED
    BY <2>1, <2>2 DEF IsPrefix
<1> QED
  BY <1>1, <1>2, <1>3

LEMMA PrefixOrder ==
  ASSUME NEW p \in Seq(STRING), NEW q \in Seq(STRING), NEW r \in Seq(STRING)
  PROVE  /\ IsPrefix(p, p) /\ IsPrefix(<<>>, p)
         /\ IsPrefix(p, q) /\ IsPrefix(q, p) => p = q
         /\ IsPrefix(p, q) /\ IsPrefix(q, r) => IsPrefix(p, r)
         /\ IsPrefix(p, r) /\ IsPrefix(q, r) => IsPrefix(p, q) \/ IsPrefix(q, p)
<1>0. <<>> \in Seq(STRING)
  OBVIOUS
<1>1. IsPrefix(p, p) /\ IsPrefix(<<>>, p)
  <2>1. IsPrefix(p, p)
    BY PrefixIs
  <2>2. Len(<<>>) = 0 /\ Len(p) \in Nat
    OBVIOUS
  <2>3. IsPrefix(<<>>, p)
    <3>1. SubSeq(<<>>, 1, 0) = <<>> /\ SubSeq(p, 1, 0) = <<>>
      BY SubSeqEmpty
    <3> QED
      BY <2>2, <3>1 DEF IsPrefix
  <2> QED
    BY <2>1, <2>3
<1>2. ASSUME IsPrefix(p, q), IsPrefix(q, p) PROVE p = q
  <2>1. Len(p) = Len(q) /\ \A i \in 1..Len(p) : p[i] = q[i]
    BY <1>2, PrefixIs
  <2> QED
    BY <2>1, SeqEqual
<1>3. IsPrefix(p, q) /\ IsPrefix(q, r) => IsPrefix(p, r)
  BY PrefixIs
<1>4. IsPrefix(p, r) /\ IsPrefix(q, r) => IsPrefix(p, q) \/ IsPrefix(q, p)
  BY PrefixIs
<1> QED
  BY <1>1, <1>2, <1>3, <1>4

LEMMA FrontIs ==
  ASSUME NEW p \in Seq(STRING), p # <<>>
  PROVE  /\ Front(p) \in Seq(STRING) /\ IsPrefix(Front(p), p) /\ Front(p) # p
         /\ \A q \in Seq(STRING) : IsPrefix(q, p) /\ q # p => IsPrefix(q, Front(p))
<1>1. Len(p) > 0
  OBVIOUS
<1>2. Front(p) \in Seq(STRING) /\ Len(Front(p)) = Len(p) - 1
      /\ \A i \in 1..Len(p)-1 : Front(p)[i] = p[i]
  <2>1. Len(p) - 1 \in 0..Len(p)
    BY <1>1
  <2> QED
    BY <2>1, FirstNames DEF Front
<1>3. IsPrefix(Front(p), p) /\ Front(p) # p
  BY <1>1, <1>2, PrefixIs
<1>4. ASSUME NEW q \in Seq(STRING), IsPrefix(q, p), q # p PROVE IsPrefix(q, Front(p))
  <2>1. Len(q) <= Len(p) /\ \A i \in 1..Len(q) : q[i] = p[i]
    BY <1>4, PrefixIs
  <2>2. Len(q) # Len(p)
    BY <2>1, <1>4, SeqEqual
  <2> QED
    BY <1>2, <2>1, <2>2, PrefixIs
<1> QED
  BY <1>2, <1>3, <1>4

\* A set of numbers up to a bound has a greatest one.
LEMMA Greatest ==
  ASSUME NEW n \in Nat, NEW S \in SUBSET (1..n), S # {}
  PROVE  Max(S) \in S /\ \A i \in S : i <= Max(S)
<1> DEFINE T == {n - i : i \in S}
<1>1. T \subseteq Nat /\ T # {}
  <2>1. PICK i \in S : TRUE
    OBVIOUS
  <2>2. n - i \in T
    OBVIOUS
  <2>3. \A j \in S : n - j \in Nat
    OBVIOUS
  <2> QED
    BY <2>2, <2>3
<1>2. PICK x \in T : \A y \in T : ~(<<y, x>> \in OpToRel(<, Nat))
  BY <1>1, NatLessThanWellFounded, WFMin
<1>3. PICK m \in S : x = n - m
  BY <1>2
<1>4. \A i \in S : i <= m
  <2> SUFFICES ASSUME NEW i \in S, i > m PROVE FALSE
    BY DEF T
  <2>1. n - i \in T /\ n - i < x /\ n - i \in Nat /\ x \in Nat
    BY <1>3
  <2> QED
    BY <1>2, <2>1 DEF OpToRel
<1> QED
  BY <1>3, <1>4 DEF Max

\* The names of a path are ordered by IsPrefix, and Prefixes lists them.
LEMMA PathOrder ==
  /\ \A p \in Anywhere : IsPrefix(p, p) /\ IsPrefix(<<>>, p)
  /\ \A p, q \in Anywhere : IsPrefix(p, q) /\ IsPrefix(q, p) => p = q
  /\ \A p, q, r \in Anywhere : IsPrefix(p, q) /\ IsPrefix(q, r) => IsPrefix(p, r)
  /\ \A p, q, r \in Anywhere :
       IsPrefix(p, r) /\ IsPrefix(q, r) => IsPrefix(p, q) \/ IsPrefix(q, p)
  /\ \A p \in Anywhere : \A q : q \in Prefixes(p) <=> q \in Anywhere /\ IsPrefix(q, p)
  /\ <<>> \in Anywhere /\ <<>> \notin Paths /\ Paths \subseteq Anywhere
<1>1. Anywhere \subseteq Seq(STRING)
  BY PathFacts
<1>2. ASSUME NEW p \in Anywhere, NEW q
      PROVE q \in Prefixes(p) <=> q \in Anywhere /\ IsPrefix(q, p)
  BY <1>1, PathFacts, PrefixIs
<1>3. <<>> \in Anywhere /\ <<>> \notin Paths /\ Paths \subseteq Anywhere
  BY PathsAssumption, Zenon DEF Anywhere
<1>4. /\ \A p \in Anywhere : IsPrefix(p, p) /\ IsPrefix(<<>>, p)
      /\ \A p, q \in Anywhere : IsPrefix(p, q) /\ IsPrefix(q, p) => p = q
      /\ \A p, q, r \in Anywhere : IsPrefix(p, q) /\ IsPrefix(q, r) => IsPrefix(p, r)
      /\ \A p, q, r \in Anywhere :
           IsPrefix(p, r) /\ IsPrefix(q, r) => IsPrefix(p, q) \/ IsPrefix(q, p)
  BY <1>1, PrefixOrder
<1> QED
  BY <1>2, <1>3, <1>4

-----------------------------------------------------------------------------
(* What a path names, for any mounts ms, host h and nodes md. *)

TopIn(ms, p) == Max({i \in DOMAIN ms : IsPrefix(ms[i].at, p)})

HostNode(h, p) == IF h[p] = "emptied" THEN "file" ELSE h[p]

TheNode(here) == IF here = {} THEN "absent" ELSE (CHOOSE n \in here : TRUE).node

MadeAt(md, i, p) == TheNode({n \in md : n.on = i /\ n.at = p})

NodeIn(ms, h, md, p) ==
  IF p = ms[TopIn(ms, p)].at THEN ms[TopIn(ms, p)].node
  ELSE IF ms[TopIn(ms, p)].kind = "bind" THEN HostNode(h, p)
  ELSE MadeAt(md, TopIn(ms, p), p)

LEMMA NodeIsNodeIn ==
  \A p : /\ Top(p) = TopIn(mounts, p) /\ Governing(p) = mounts[TopIn(mounts, p)]
         /\ NodeOnHost(p) = HostNode(host, p)
         /\ Node(p) = NodeIn(mounts, host, made, p)
BY DEF Top, TopIn, Governing, NodeOnHost, HostNode, Node, NodeIn, NodeMade, MadeAt, TheNode

MountSet == [at : Anywhere, kind : Kinds, ro : BOOLEAN, node : {"dir", "file"}]
Root == [at |-> <<>>, kind |-> "root", ro |-> FALSE, node |-> "dir"]

MountsOK(ms) ==
  /\ ms \in Seq(MountSet) /\ Len(ms) > 0 /\ ms[1] = Root
  /\ \A i \in DOMAIN ms : i # 1 => ms[i].at \in Paths /\ ms[i].kind # "root"
  /\ \A i \in DOMAIN ms : ms[i].kind = "mask" /\ ms[i].node = "dir" => ms[i].ro

LEMMA MountFields ==
  ASSUME NEW ms, MountsOK(ms), NEW i \in DOMAIN ms
  PROVE  /\ ms[i].at \in Anywhere /\ ms[i].kind \in Kinds /\ ms[i].ro \in BOOLEAN
         /\ ms[i].node \in {"dir", "file"} /\ ms[i] \in MountSet
         /\ i # 1 => ms[i].at \in Paths /\ ms[i].kind # "root"
         /\ ms[i].kind = "mask" /\ ms[i].node = "dir" => ms[i].ro
<1>1. ms \in Seq(MountSet)
  BY DEF MountsOK
<1>2. ms[i] \in MountSet
  BY <1>1
<1> QED
  BY <1>2 DEF MountSet, MountsOK

LEMMA TopIs ==
  ASSUME NEW ms, MountsOK(ms), NEW p \in Anywhere
  PROVE  /\ TopIn(ms, p) \in DOMAIN ms /\ IsPrefix(ms[TopIn(ms, p)].at, p)
         /\ \A i \in DOMAIN ms : IsPrefix(ms[i].at, p) => i <= TopIn(ms, p)
<1> DEFINE S == {i \in DOMAIN ms : IsPrefix(ms[i].at, p)}
<1>1. ms[1].at = <<>> /\ 1 \in DOMAIN ms /\ DOMAIN ms = 1..Len(ms) /\ Len(ms) \in Nat
  BY DEF MountsOK, Root
<1>2. 1 \in S
  BY <1>1, PathOrder
<1>3. S \in SUBSET (1..Len(ms)) /\ S # {}
  BY <1>1, <1>2
<1>4. Max(S) \in S /\ \A i \in S : i <= Max(S)
  BY <1>1, <1>3, Greatest
<1> QED
  BY <1>4 DEF TopIn

\* The mount that governs p governs every path between its own and p.
LEMMA TopBetween ==
  ASSUME NEW ms, MountsOK(ms), NEW p \in Anywhere, NEW q \in Anywhere,
         IsPrefix(q, p), IsPrefix(ms[TopIn(ms, p)].at, q)
  PROVE  TopIn(ms, q) = TopIn(ms, p)
<1>1. /\ TopIn(ms, p) \in DOMAIN ms /\ TopIn(ms, q) \in DOMAIN ms
      /\ IsPrefix(ms[TopIn(ms, q)].at, q)
      /\ \A i \in DOMAIN ms : IsPrefix(ms[i].at, p) => i <= TopIn(ms, p)
      /\ \A i \in DOMAIN ms : IsPrefix(ms[i].at, q) => i <= TopIn(ms, q)
  BY TopIs
<1>2. ms[TopIn(ms, q)].at \in Anywhere
  BY <1>1, MountFields
<1>3. IsPrefix(ms[TopIn(ms, q)].at, p)
  BY <1>1, <1>2, PathOrder
<1>4. DOMAIN ms \subseteq Nat
  BY DEF MountsOK
<1> QED
  BY <1>1, <1>3, <1>4

LEMMA TopAfterMount ==
  ASSUME NEW ms, MountsOK(ms), NEW x \in MountSet, x.at \in Paths, x.kind # "root",
         x.kind = "mask" /\ x.node = "dir" => x.ro
  PROVE  /\ MountsOK(Append(ms, x))
         /\ DOMAIN Append(ms, x) = DOMAIN ms \cup {Len(ms) + 1}
         /\ \A i \in DOMAIN ms : Append(ms, x)[i] = ms[i]
         /\ Append(ms, x)[Len(ms) + 1] = x
         /\ \A p \in Anywhere : TopIn(Append(ms, x), p) =
                                  IF IsPrefix(x.at, p) THEN Len(ms) + 1 ELSE TopIn(ms, p)
<1> DEFINE ns == Append(ms, x)
<1>1. /\ DOMAIN ns = DOMAIN ms \cup {Len(ms) + 1} /\ Len(ns) = Len(ms) + 1
      /\ \A i \in DOMAIN ms : ns[i] = ms[i]
      /\ ns[Len(ms) + 1] = x /\ ns \in Seq(MountSet) /\ Len(ms) + 1 \notin DOMAIN ms
      /\ Len(ms) \in Nat /\ DOMAIN ms = 1..Len(ms) /\ 1 \in DOMAIN ms
  BY DEF MountsOK
<1> HIDE DEF ns
<1>2. MountsOK(ns)
  BY <1>1 DEF MountsOK
<1>3. ASSUME NEW p \in Anywhere
      PROVE  TopIn(ns, p) = IF IsPrefix(x.at, p) THEN Len(ms) + 1 ELSE TopIn(ms, p)
  <2>1. /\ TopIn(ns, p) \in DOMAIN ns /\ IsPrefix(ns[TopIn(ns, p)].at, p)
        /\ \A i \in DOMAIN ns : IsPrefix(ns[i].at, p) => i <= TopIn(ns, p)
    BY <1>2, TopIs
  <2>2. /\ TopIn(ms, p) \in DOMAIN ms /\ IsPrefix(ms[TopIn(ms, p)].at, p)
        /\ \A i \in DOMAIN ms : IsPrefix(ms[i].at, p) => i <= TopIn(ms, p)
    BY TopIs
  <2> QED
    BY <1>1, <2>1, <2>2
<1> QED
  BY <1>1, <1>2, <1>3 DEF ns

-----------------------------------------------------------------------------
(* The file system the sandbox will see is a tree at all times. *)

NodeSet == [on : Nat, at : Paths, node : {"dir", "file"}]

HostOK(h) == h \in [Paths -> {"absent", "dir", "file", "emptied"}] /\ IsTree(h)

\* A bind mount shows the kind of node the host has at its source.
BindsShow(ms, h) ==
  \A i \in DOMAIN ms : ms[i].kind = "bind" => HostNode(h, ms[i].at) = ms[i].node

MadeOK(ms, md) ==
  \A n \in md :
    /\ n \in NodeSet /\ n.on \in DOMAIN ms /\ ms[n.on].kind \in {"root", "tmpfs"}
    /\ Front(n.at) = ms[n.on].at \/ [on |-> n.on, at |-> Front(n.at), node |-> "dir"] \in md

VisibleTree(ms, h, md) ==
  \A p \in Paths : NodeIn(ms, h, md, p) # "absent" =>
    \A q \in Prefixes(p) \ {p} : NodeIn(ms, h, md, q) = "dir"

World(ms, h, md) ==
  MountsOK(ms) /\ HostOK(h) /\ BindsShow(ms, h) /\ MadeOK(ms, md) /\ VisibleTree(ms, h, md)

LEMMA NodeValues ==
  ASSUME NEW ms, NEW h, NEW md, MountsOK(ms), HostOK(h), MadeOK(ms, md)
  PROVE  /\ \A p \in Paths : HostNode(h, p) \in {"absent", "dir", "file"}
                            /\ (HostNode(h, p) = "absent" <=> h[p] = "absent")
                            /\ (HostNode(h, p) = "dir" <=> h[p] = "dir")
         /\ \A i, p : \/ MadeAt(md, i, p) = "absent" /\ \A n \in md : ~(n.on = i /\ n.at = p)
                      \/ /\ MadeAt(md, i, p) \in {"dir", "file"}
                         /\ [on |-> i, at |-> p, node |-> MadeAt(md, i, p)] \in md
         /\ \A p \in Anywhere : NodeIn(ms, h, md, p) \in {"absent", "dir", "file"}
         /\ NodeIn(ms, h, md, <<>>) = "dir"
<1>1. \A p \in Paths : HostNode(h, p) \in {"absent", "dir", "file"}
                       /\ (HostNode(h, p) = "absent" <=> h[p] = "absent")
                       /\ (HostNode(h, p) = "dir" <=> h[p] = "dir")
  BY DEF HostOK, HostNode
<1>2. ASSUME NEW i, NEW p
      PROVE \/ MadeAt(md, i, p) = "absent" /\ \A n \in md : ~(n.on = i /\ n.at = p)
            \/ /\ MadeAt(md, i, p) \in {"dir", "file"}
               /\ [on |-> i, at |-> p, node |-> MadeAt(md, i, p)] \in md
  <2> DEFINE here == {n \in md : n.on = i /\ n.at = p}
  <2>1. CASE here = {}
    BY <2>1 DEF MadeAt, TheNode
  <2>2. CASE here # {}
    <3>1. (CHOOSE n \in here : TRUE) \in here
      BY <2>2
    <3>2. PICK n \in here : MadeAt(md, i, p) = n.node
      BY <2>2, <3>1 DEF MadeAt, TheNode
    <3>3. n \in NodeSet
      BY <3>2 DEF MadeOK
    <3>4. n = [on |-> i, at |-> p, node |-> n.node] /\ n.node \in {"dir", "file"}
      BY <3>2, <3>3 DEF NodeSet
    <3> QED
      BY <3>2, <3>4
  <2> QED
    BY <2>1, <2>2
<1>3. ASSUME NEW p \in Anywhere PROVE NodeIn(ms, h, md, p) \in {"absent", "dir", "file"}
  <2>1. TopIn(ms, p) \in DOMAIN ms
    BY TopIs
  <2>2. ms[TopIn(ms, p)].node \in {"dir", "file"}
    BY <2>1, MountFields
  <2>3. p \in Paths \/ p = <<>>
    BY DEF Anywhere
  <2>4. p = <<>> => p = ms[TopIn(ms, p)].at
    <3>1. IsPrefix(ms[TopIn(ms, p)].at, p) /\ ms[TopIn(ms, p)].at \in Anywhere
      BY <2>1, TopIs, MountFields
    <3> QED
      BY <3>1, PathOrder
  <2> QED
    BY <1>1, <1>2, <2>2, <2>3, <2>4 DEF NodeIn
<1>4. NodeIn(ms, h, md, <<>>) = "dir"
  <2>1. /\ TopIn(ms, <<>>) \in DOMAIN ms /\ IsPrefix(ms[TopIn(ms, <<>>)].at, <<>>)
        /\ ms[TopIn(ms, <<>>)].at \in Anywhere
        /\ TopIn(ms, <<>>) # 1 => ms[TopIn(ms, <<>>)].at \in Paths
    BY TopIs, MountFields, PathOrder
  <2>2. ms[TopIn(ms, <<>>)].at = <<>>
    BY <2>1, PathOrder
  <2>3. TopIn(ms, <<>>) = 1
    BY <2>1, <2>2, PathOrder
  <2> QED
    BY <2>2, <2>3 DEF NodeIn, MountsOK, Root
<1> QED
  BY <1>1, <1>2, <1>3, <1>4

\* Mounting what a path names there keeps the tree, and hides what is below.
LEMMA MountKeepsWorld ==
  ASSUME NEW ms, NEW h, NEW md, World(ms, h, md),
         NEW x \in MountSet, x.at \in Paths, x.kind # "root", x.kind = "mask" /\ x.node = "dir" => x.ro,
         NodeIn(ms, h, md, x.at) = x.node,
         x.kind = "bind" => HostNode(h, x.at) = x.node
  PROVE  /\ World(Append(ms, x), h, md)
         /\ \A p \in Anywhere :
              /\ ~IsPrefix(x.at, p) => NodeIn(Append(ms, x), h, md, p) = NodeIn(ms, h, md, p)
              /\ IsPrefix(x.at, p) => Append(ms, x)[TopIn(Append(ms, x), p)] = x
<1> DEFINE ns == Append(ms, x)
           k  == Len(ms) + 1
<1>1. /\ MountsOK(ns) /\ DOMAIN ns = DOMAIN ms \cup {k}
      /\ \A i \in DOMAIN ms : ns[i] = ms[i]
      /\ ns[k] = x
      /\ \A p \in Anywhere : TopIn(ns, p) = IF IsPrefix(x.at, p) THEN k ELSE TopIn(ms, p)
  BY TopAfterMount DEF World
<1>2. k \notin DOMAIN ms
  BY DEF World, MountsOK
<1> HIDE DEF ns, k
<1> USE DEF World
<1>3. BindsShow(ns, h)
  BY <1>1 DEF BindsShow
<1>4. MadeOK(ns, md)
  BY <1>1 DEF MadeOK
<1>5. \A p \in Anywhere : ~IsPrefix(x.at, p) => NodeIn(ns, h, md, p) = NodeIn(ms, h, md, p)
  BY <1>1, TopIs DEF NodeIn
<1>6. \A p \in Anywhere : IsPrefix(x.at, p) => ns[TopIn(ns, p)] = x /\ TopIn(ns, p) = k
  BY <1>1
<1>7. NodeIn(ns, h, md, x.at) = x.node
  BY <1>6, PathOrder DEF NodeIn
<1>8. \A p \in Anywhere : IsPrefix(x.at, p) /\ p # x.at =>
        NodeIn(ns, h, md, p) = IF x.kind = "bind" THEN HostNode(h, p) ELSE "absent"
  <2>1. \A p : MadeAt(md, k, p) = "absent"
    BY <1>2 DEF MadeAt, TheNode, MadeOK
  <2> QED
    BY <1>6, <2>1 DEF NodeIn
<1>9. VisibleTree(ns, h, md)
  <2> SUFFICES ASSUME NEW p \in Paths, NodeIn(ns, h, md, p) # "absent",
                      NEW q, q \in Prefixes(p) \ {p}
               PROVE  NodeIn(ns, h, md, q) = "dir"
    BY DEF VisibleTree
  <2>1. p \in Anywhere /\ q \in Anywhere /\ IsPrefix(q, p) /\ q # p /\ x.at \in Anywhere
    BY PathOrder
  <2>2. \A r \in Paths : NodeIn(ms, h, md, r) # "absent" =>
          \A u \in Prefixes(r) \ {r} : NodeIn(ms, h, md, u) = "dir"
    BY DEF VisibleTree
  <2>3. CASE ~IsPrefix(x.at, p)
    <3>1. ~IsPrefix(x.at, q)
      BY <2>1, <2>3, PathOrder
    <3> QED
      BY <1>5, <2>1, <2>2, <2>3, <3>1
  <2>4. CASE IsPrefix(x.at, p) /\ ~IsPrefix(x.at, q)
    <3>1. IsPrefix(q, x.at) /\ q # x.at
      BY <2>1, <2>4, PathOrder
    <3>2. q \in Prefixes(x.at) \ {x.at} /\ x.node # "absent"
      BY <2>1, <3>1, PathOrder DEF MountSet
    <3> QED
      BY <1>5, <2>1, <2>2, <2>4, <3>2
  <2>5. CASE IsPrefix(x.at, q)
    <3>1. p # x.at /\ IsPrefix(x.at, p)
      BY <2>1, <2>5, PathOrder
    <3>2. x.kind = "bind" /\ HostNode(h, p) # "absent"
      BY <1>8, <2>1, <3>1
    <3>3. q # <<>> /\ q \in Paths
      BY <2>1, <2>5, PathOrder DEF Anywhere
    <3>4. h[p] # "absent"
      BY <3>2, NodeValues
    <3>5. h[q] = "dir"
      BY <3>3, <3>4 DEF HostOK, IsTree
    <3>6. HostNode(h, q) = "dir"
      BY <3>5 DEF HostNode
    <3> QED
      BY <1>7, <1>8, <2>1, <2>5, <3>2, <3>6
  <2> QED
    BY <2>3, <2>4, <2>5
<1> QED
  BY <1>1, <1>3, <1>4, <1>5, <1>6, <1>9 DEF ns

MissingIn(ms, h, md, t) == {q \in Prefixes(t) : NodeIn(ms, h, md, q) = "absent"}

\* The missing nodes all lie in the mount on top.
LEMMA MissingOnTop ==
  ASSUME NEW ms, NEW h, NEW md, World(ms, h, md), NEW t \in Paths,
         NEW q, q \in MissingIn(ms, h, md, t)
  PROVE  /\ q \in Paths /\ q \in Anywhere /\ IsPrefix(q, t) /\ TopIn(ms, q) = TopIn(ms, t)
         /\ IsPrefix(ms[TopIn(ms, t)].at, q) /\ q # ms[TopIn(ms, t)].at
         /\ ms[TopIn(ms, t)].kind = "bind" => HostNode(h, q) = "absent"
         /\ ms[TopIn(ms, t)].kind # "bind" => MadeAt(md, TopIn(ms, t), q) = "absent"
<1> DEFINE i == TopIn(ms, t)
           a == ms[i].at
<1>1. t \in Anywhere /\ q \in Anywhere /\ IsPrefix(q, t) /\ NodeIn(ms, h, md, q) = "absent"
  BY PathOrder DEF MissingIn
<1>2. q \in Paths
  BY <1>1, NodeValues DEF World, Anywhere
<1>3. i \in DOMAIN ms /\ IsPrefix(a, t) /\ a \in Anywhere /\ ms[i].node \in {"dir", "file"}
  BY <1>1, TopIs, MountFields DEF World
<1>4. TopIn(ms, a) = i
  BY <1>1, <1>3, TopBetween, PathOrder DEF World
<1> HIDE DEF i, a
<1>5. NodeIn(ms, h, md, a) # "absent"
  BY <1>3, <1>4 DEF NodeIn, a
<1>6. IsPrefix(a, q)
  <2> SUFFICES ASSUME ~IsPrefix(a, q) PROVE FALSE
    OBVIOUS
  <2>1. IsPrefix(q, a) /\ q # a
    BY <1>1, <1>3, PathOrder
  <2>2. a \in Paths
    BY <1>2, <1>3, <2>1, PathOrder DEF Anywhere
  <2>3. q \in Prefixes(a) \ {a}
    BY <1>1, <1>3, <2>1, PathOrder
  <2> QED
    BY <1>1, <1>5, <2>2, <2>3 DEF World, VisibleTree
<1>7. TopIn(ms, q) = i
  BY <1>1, <1>6, TopBetween DEF World, i, a
<1>8. q # a
  BY <1>1, <1>5
<1>9. /\ ms[i].kind = "bind" => HostNode(h, q) = "absent"
      /\ ms[i].kind # "bind" => MadeAt(md, i, q) = "absent"
  BY <1>1, <1>7, <1>8 DEF NodeIn, a
<1> QED
  BY <1>1, <1>2, <1>6, <1>7, <1>8, <1>9 DEF i, a

\* tn is made at t, or what is there is truncated, with its missing ancestors.
Makes(ms, h, md, t, tn, Tr, new, h2, md2) ==
  /\ t \in Paths /\ tn \in {"dir", "file"}
  /\ \A i \in DOMAIN ms : ms[i].kind \in {"root", "bind", "tmpfs"}
  /\ \A q \in Prefixes(t) \ {t} : NodeIn(ms, h, md, q) \in {"absent", "dir"}
  /\ NodeIn(ms, h, md, t) \in {"absent", tn}
  /\ Tr \in SUBSET {t}
  /\ Tr # {} => ms[TopIn(ms, t)].kind = "bind" /\ NodeIn(ms, h, md, t) = "file"
  /\ DOMAIN new = MissingIn(ms, h, md, t) \cup Tr
  /\ \A q \in DOMAIN new : new[q] =
       IF q # t THEN "dir" ELSE IF NodeIn(ms, h, md, t) = "absent" THEN tn ELSE "emptied"
  /\ IF ms[TopIn(ms, t)].kind = "bind"
       THEN /\ h2 = [q \in Paths |-> IF q \in DOMAIN new THEN new[q] ELSE h[q]]
            /\ md2 = md
       ELSE /\ md2 = md \cup {[on |-> TopIn(ms, t), at |-> q, node |-> new[q]] : q \in DOMAIN new}
            /\ h2 = h

\* Making what is missing, of a directory or of a file, keeps the tree and makes
\* exactly that.
LEMMA MakingKeepsWorld ==
  ASSUME NEW ms, NEW h, NEW md, World(ms, h, md), NEW t, NEW tn, NEW Tr, NEW new,
         NEW h2, NEW md2, Makes(ms, h, md, t, tn, Tr, new, h2, md2)
  PROVE  /\ World(ms, h2, md2)
         /\ \A p \in Anywhere : NodeIn(ms, h2, md2, p) =
              IF p \in MissingIn(ms, h, md, t) THEN IF p = t THEN tn ELSE "dir"
              ELSE NodeIn(ms, h, md, p)
         /\ \A p \in Paths :
              /\ HostNode(h, p) # "absent" => HostNode(h2, p) = HostNode(h, p)
              /\ HostNode(h2, p) # HostNode(h, p) =>
                   ms[TopIn(ms, t)].kind = "bind" /\ p \in MissingIn(ms, h, md, t)
<1> DEFINE i == TopIn(ms, t)
           a == ms[i].at
           Mis == MissingIn(ms, h, md, t)
           Kind(p) == IF p = t THEN tn ELSE "dir"
<1> USE DEF World, Makes
<1>1. \A q \in Mis : /\ q \in Paths /\ q \in Anywhere /\ IsPrefix(q, t) /\ TopIn(ms, q) = i
                     /\ IsPrefix(a, q) /\ q # a
                     /\ ms[i].kind = "bind" => HostNode(h, q) = "absent"
                     /\ ms[i].kind # "bind" => MadeAt(md, i, q) = "absent"
  BY MissingOnTop
<1>2. /\ t \in Anywhere /\ i \in DOMAIN ms /\ IsPrefix(a, t) /\ a \in Anywhere
      /\ ms[i].node \in {"dir", "file"}
  BY TopIs, MountFields, PathOrder
<1>3. \A q : q \in Mis <=> q \in Anywhere /\ IsPrefix(q, t) /\ NodeIn(ms, h, md, q) = "absent"
  BY <1>2, PathOrder DEF MissingIn
<1>4. \A q \in Anywhere : IsPrefix(q, t) /\ q # t => NodeIn(ms, h, md, q) \in {"absent", "dir"}
  BY <1>2, PathOrder
<1>5. Tr \cap Mis = {} /\ \A q \in Mis : new[q] = Kind(q)
  BY <1>3
<1>6. TopIn(ms, a) = i /\ NodeIn(ms, h, md, a) = ms[i].node
  BY <1>2, TopBetween, PathOrder DEF NodeIn
<1>11. \A p \in Paths : /\ HostNode(h, p) = "absent" <=> h[p] = "absent"
                        /\ HostNode(h, p) = "dir" <=> h[p] = "dir"
  BY NodeValues
<1> HIDE DEF i, Mis
<1> DEFINE Made2 ==
             /\ HostOK(h2) /\ BindsShow(ms, h2) /\ MadeOK(ms, md2)
             /\ \A p \in Anywhere : NodeIn(ms, h2, md2, p) =
                  IF p \in Mis THEN Kind(p) ELSE NodeIn(ms, h, md, p)
             /\ \A p \in Paths : /\ HostNode(h, p) # "absent" => HostNode(h2, p) = HostNode(h, p)
                                 /\ HostNode(h2, p) # HostNode(h, p) => ms[i].kind = "bind" /\ p \in Mis
<1>7. ASSUME ms[i].kind = "bind" PROVE Made2
  <2>1. h2 = [q \in Paths |-> IF q \in DOMAIN new THEN new[q] ELSE h[q]] /\ md2 = md
    BY <1>7 DEF i
  <2>2. /\ Tr = {t} => HostNode(h, t) = "file"
    BY <1>2, <1>7 DEF i, NodeIn, BindsShow
  <2>3. \A p \in Paths : /\ HostNode(h2, p) = IF p \in Mis THEN Kind(p) ELSE HostNode(h, p)
                         /\ h2[p] \in {"absent", "dir", "file", "emptied"}
    <3> SUFFICES ASSUME NEW p \in Paths
                 PROVE  /\ HostNode(h2, p) = IF p \in Mis THEN Kind(p) ELSE HostNode(h, p)
                        /\ h2[p] \in {"absent", "dir", "file", "emptied"}
      OBVIOUS
    <3>1. h2[p] = IF p \in DOMAIN new THEN new[p] ELSE h[p]
      BY <2>1
    <3>2. CASE p \in Mis
      BY <1>5, <3>1, <3>2 DEF HostNode, Mis
    <3>3. CASE p \in Tr
      <4>1. p = t /\ Tr = {t} /\ p \notin Mis /\ new[t] = "emptied"
        BY <1>5, <3>3
      <4> QED
        BY <2>2, <3>1, <3>3, <4>1 DEF HostNode
    <3>4. CASE p \notin Mis \cup Tr
      BY <3>1, <3>4 DEF HostNode, HostOK, Mis
    <3> QED
      BY <3>2, <3>3, <3>4
  <2>4. \A p \in Anywhere : NodeIn(ms, h2, md2, p) =
          IF p \in Mis THEN Kind(p) ELSE NodeIn(ms, h, md, p)
    <3> SUFFICES ASSUME NEW p \in Anywhere
                 PROVE  NodeIn(ms, h2, md2, p) = IF p \in Mis THEN Kind(p) ELSE NodeIn(ms, h, md, p)
      OBVIOUS
    <3>1. CASE p = <<>>
      <4>1. p = ms[TopIn(ms, p)].at
        BY <3>1, TopIs, MountFields, PathOrder
      <4>2. p \notin Mis
        BY <1>1, <3>1, PathOrder
      <4> QED
        BY <4>1, <4>2 DEF NodeIn
    <3>2. CASE p \in Paths
      BY <1>1, <1>7, <2>1, <2>3, <3>2 DEF NodeIn
    <3> QED
      BY <3>1, <3>2 DEF Anywhere
  <2>5. BindsShow(ms, h2)
    <3> SUFFICES ASSUME NEW j \in DOMAIN ms, ms[j].kind = "bind"
                 PROVE  HostNode(h2, ms[j].at) = ms[j].node
      BY DEF BindsShow
    <3>1. ms[j].at \in Paths /\ ms[j].node \in {"dir", "file"}
      BY MountFields DEF MountsOK, Root
    <3>2. HostNode(h, ms[j].at) = ms[j].node
      BY DEF BindsShow
    <3> QED
      BY <1>1, <1>7, <2>3, <3>1, <3>2
  <2>6. \A p \in Paths, q \in Paths : h[p] # "absent" /\ IsPrefix(q, p) /\ q # p => h[q] = "dir"
    BY PathOrder DEF HostOK, IsTree
  <2>7. IsTree(h2)
    <3> SUFFICES ASSUME NEW p \in Paths, h2[p] # "absent", NEW q, q \in Prefixes(p) \ {<<>>, p}
                 PROVE  h2[q] = "dir"
      BY DEF IsTree
    <3>1. q \in Paths /\ q \in Anywhere /\ p \in Anywhere /\ IsPrefix(q, p) /\ q # p
      BY PathOrder DEF Anywhere
    <3>2. HostNode(h2, p) # "absent"
      BY DEF HostNode
    <3>3. CASE p \notin Mis
      <4>1. h[p] # "absent"
        BY <2>3, <3>2, <3>3, <1>11
      <4>2. h[q] = "dir"
        BY <2>6, <3>1, <4>1
      <4>3. q \notin Mis
        BY <1>1, <1>7, <1>11, <3>1, <4>2
      <4>4. q \notin Tr
        BY <2>2, <4>2 DEF HostNode
      <4> QED
        BY <2>1, <3>1, <4>2, <4>3, <4>4 DEF Mis
    <3>4. CASE p \in Mis
      <4>1. IsPrefix(q, t) /\ q # t
        BY <1>1, <1>2, <3>1, <3>4, PathOrder
      <4>2. CASE q \in Mis
        BY <1>5, <2>1, <3>1, <4>1, <4>2 DEF Mis
      <4>3. CASE q \notin Mis
        <5>1. NodeIn(ms, h, md, q) = "dir"
          BY <1>3, <1>4, <3>1, <4>1, <4>3
        <5>2. HostNode(h, q) = "dir"
          <6>1. CASE IsPrefix(a, q)
            <7>1. TopIn(ms, q) = i
              BY <1>2, <3>1, <4>1, <6>1, TopBetween DEF i
            <7> QED
              BY <1>2, <1>7, <5>1, <7>1 DEF NodeIn, BindsShow
          <6>2. CASE ~IsPrefix(a, q)
            <7>1. IsPrefix(q, a) /\ q # a
              BY <1>2, <3>1, <4>1, <6>2, PathOrder
            <7>2. a \in Paths
              BY <1>2, <3>1, <7>1, PathOrder DEF Anywhere
            <7>3. HostNode(h, a) # "absent"
              BY <1>2, <1>7 DEF BindsShow
            <7>4. h[a] # "absent"
              BY <7>2, <7>3, <1>11
            <7> QED
              BY <2>6, <3>1, <7>1, <7>2, <7>4 DEF HostNode
          <6> QED
            BY <6>1, <6>2
        <5>3. h[q] = "dir" /\ q \notin Tr
          BY <3>1, <4>1, <5>2, <1>11
        <5> QED
          BY <2>1, <3>1, <4>3, <5>3 DEF Mis
      <4> QED
        BY <4>2, <4>3
    <3> QED
      BY <3>3, <3>4
  <2>8. HostOK(h2)
    BY <2>1, <2>3, <2>7 DEF HostOK
  <2>9. \A p \in Paths : /\ HostNode(h, p) # "absent" => HostNode(h2, p) = HostNode(h, p)
                         /\ HostNode(h2, p) # HostNode(h, p) => ms[i].kind = "bind" /\ p \in Mis
    BY <1>1, <1>7, <2>3
  <2> QED
    BY <2>1, <2>4, <2>5, <2>8, <2>9
<1>8. ASSUME ms[i].kind # "bind" PROVE Made2
  <2>1. /\ h2 = h /\ Tr = {}
        /\ md2 = md \cup {[on |-> i, at |-> q, node |-> new[q]] : q \in Mis}
    BY <1>8 DEF i, Mis
  <2>2. /\ i \in Nat /\ \A q \in Mis : /\ Kind(q) \in {"dir", "file"}
                                      /\ [on |-> i, at |-> q, node |-> Kind(q)] \in NodeSet
        /\ md2 = md \cup {[on |-> i, at |-> q, node |-> Kind(q)] : q \in Mis}
    BY <1>1, <1>2, <1>5, <2>1 DEF MountsOK, NodeSet
  <2>3. \A j, p : MadeAt(md2, j, p) =
          IF j = i /\ p \in Mis THEN Kind(p) ELSE MadeAt(md, j, p)
    <3> SUFFICES ASSUME NEW j, NEW p
                 PROVE MadeAt(md2, j, p) =
                         IF j = i /\ p \in Mis THEN Kind(p) ELSE MadeAt(md, j, p)
      OBVIOUS
    <3>1. CASE j = i /\ p \in Mis
      <4> DEFINE Rec(q) == [on |-> i, at |-> q, node |-> Kind(q)]
                 here   == {n \in md2 : n.on = j /\ n.at = p}
      <4>1. MadeAt(md, i, p) = "absent"
        BY <1>1, <1>8, <3>1
      <4>2. \A n \in md : ~(n.on = i /\ n.at = p)
        BY <4>1, NodeValues
      <4>3. Rec(p) \in here
        BY <2>2, <3>1
      <4>4. \A n \in here : n.node = Kind(p)
        <5> SUFFICES ASSUME NEW n \in md2, n.on = i, n.at = p PROVE n.node = Kind(p)
          BY <3>1
        <5>1. PICK q \in Mis : n = Rec(q)
          BY <2>2, <4>2
        <5> QED
          BY <5>1
      <4>5. (CHOOSE n \in here : TRUE).node = Kind(p)
        BY <4>3, <4>4
      <4> QED
        BY <3>1, <4>3, <4>5 DEF MadeAt, TheNode
    <3>2. CASE ~(j = i /\ p \in Mis)
      <4>1. {n \in md2 : n.on = j /\ n.at = p} = {n \in md : n.on = j /\ n.at = p}
        <5> SUFFICES ASSUME NEW n \in md2, n.on = j, n.at = p PROVE n \in md
          BY <2>2
        <5>1. CASE n \notin md
          <6>1. PICK q \in Mis : n = [on |-> i, at |-> q, node |-> Kind(q)]
            BY <2>2, <5>1
          <6> QED
            BY <3>2, <6>1
        <5> QED
          BY <5>1
      <4>2. MadeAt(md2, j, p) = MadeAt(md, j, p)
        BY <4>1 DEF MadeAt
      <4> QED
        BY <3>2, <4>2
    <3> QED
      BY <3>1, <3>2
  <2>4. \A p \in Anywhere : NodeIn(ms, h2, md2, p) =
          IF p \in Mis THEN Kind(p) ELSE NodeIn(ms, h, md, p)
    BY <1>1, <1>8, <2>1, <2>3 DEF NodeIn
  <2>5. MadeOK(ms, md2)
    <3>1. ASSUME NEW n \in md
          PROVE /\ n \in NodeSet /\ n.on \in DOMAIN ms /\ ms[n.on].kind \in {"root", "tmpfs"}
                /\ \/ Front(n.at) = ms[n.on].at
                   \/ [on |-> n.on, at |-> Front(n.at), node |-> "dir"] \in md2
      BY <2>1 DEF MadeOK
    <3>2. ASSUME NEW q \in Mis
          PROVE \/ Front(q) = a
                \/ [on |-> i, at |-> Front(q), node |-> "dir"] \in md2
      <4>1. q \in Paths /\ q \in Anywhere /\ IsPrefix(q, t) /\ IsPrefix(a, q) /\ q # a /\ q # <<>>
        BY <1>1, PathOrder
      <4>2. /\ Front(q) \in Anywhere /\ IsPrefix(Front(q), q) /\ Front(q) # q
            /\ IsPrefix(a, Front(q))
        <5>1. q \in Seq(STRING) /\ a \in Seq(STRING)
          BY <1>2, <4>1, PathFacts
        <5>2. Front(q) \in Seq(STRING) /\ IsPrefix(Front(q), q) /\ Front(q) # q
              /\ IsPrefix(a, Front(q))
          BY <4>1, <5>1, FrontIs
        <5>3. Front(q) \in Prefixes(q)
          BY <5>1, <5>2, PrefixIs
        <5> QED
          BY <4>1, <5>2, <5>3, PathFacts
      <4>3. IsPrefix(Front(q), t) /\ Front(q) # t
        BY <1>2, <4>1, <4>2, PathOrder
      <4>4. TopIn(ms, Front(q)) = i
        BY <1>2, <4>2, <4>3, TopBetween DEF i
      <4>5. CASE Front(q) \in Mis
        BY <2>2, <4>3, <4>5
      <4>6. CASE Front(q) \notin Mis /\ Front(q) # a
        <5>1. NodeIn(ms, h, md, Front(q)) = "dir"
          BY <1>3, <1>4, <4>2, <4>3, <4>6
        <5>2. MadeAt(md, i, Front(q)) = "dir"
          BY <1>8, <4>4, <4>6, <5>1 DEF NodeIn
        <5>3. [on |-> i, at |-> Front(q), node |-> "dir"] \in md
          BY <5>2, NodeValues
        <5> QED
          BY <2>1, <5>3
      <4> QED
        BY <4>5, <4>6
    <3>3. ASSUME NEW n \in md2, n \notin md
          PROVE /\ n \in NodeSet /\ n.on \in DOMAIN ms /\ ms[n.on].kind \in {"root", "tmpfs"}
                /\ \/ Front(n.at) = ms[n.on].at
                   \/ [on |-> n.on, at |-> Front(n.at), node |-> "dir"] \in md2
      <4>1. ms[i].kind \in {"root", "tmpfs"}
        BY <1>2, <1>8
      <4>2. PICK q \in Mis : n = [on |-> i, at |-> q, node |-> Kind(q)]
        BY <2>2, <3>3
      <4>3. n.on = i /\ n.at = q /\ n \in NodeSet
        BY <2>2, <4>2
      <4>5. Front(q) = a \/ [on |-> i, at |-> Front(q), node |-> "dir"] \in md2
        BY <3>2
      <4>6. n.on \in DOMAIN ms /\ ms[n.on].kind \in {"root", "tmpfs"}
        BY <1>2, <4>1, <4>3
      <4>7. \/ Front(n.at) = ms[n.on].at
            \/ [on |-> n.on, at |-> Front(n.at), node |-> "dir"] \in md2
        BY <4>3, <4>5
      <4> QED
        BY <4>3, <4>6, <4>7
    <3> QED
      BY <3>1, <3>3 DEF MadeOK
  <2>6. HostOK(h2) /\ BindsShow(ms, h2)
    BY <2>1
  <2> QED
    BY <2>1, <2>4, <2>5, <2>6
<1>9. Made2
  BY <1>7, <1>8
<1>10. VisibleTree(ms, h2, md2)
  <2> SUFFICES ASSUME NEW p \in Paths, NodeIn(ms, h2, md2, p) # "absent",
                      NEW q, q \in Prefixes(p) \ {p}
               PROVE  NodeIn(ms, h2, md2, q) = "dir"
    BY DEF VisibleTree
  <2>1. p \in Anywhere /\ q \in Anywhere /\ IsPrefix(q, p) /\ q # p
    BY PathOrder
  <2>2. CASE p \in Mis
    <3>1. IsPrefix(q, t) /\ q # t
      BY <1>1, <1>2, <2>1, <2>2, PathOrder
    <3>2. NodeIn(ms, h, md, q) = "dir" \/ q \in Mis
      BY <1>3, <1>4, <2>1, <3>1
    <3> QED
      BY <1>3, <1>9, <2>1, <3>1, <3>2
  <2>3. CASE p \notin Mis
    <3>1. NodeIn(ms, h, md, p) # "absent"
      BY <1>9, <2>1, <2>3
    <3>2. NodeIn(ms, h, md, q) = "dir"
      BY <3>1 DEF VisibleTree
    <3> QED
      BY <1>3, <1>9, <2>1, <3>2
  <2> QED
    BY <2>2, <2>3
<1> QED
  BY <1>9, <1>10 DEF Mis, i

-----------------------------------------------------------------------------
(* The calls of setup(). *)

Now == World(mounts, host, made)

EarlyMounts == \A i \in DOMAIN mounts : mounts[i].kind \in {"root", "bind", "tmpfs"}

\* The host loses nothing, and gains nodes below writable bind mounts only.
HostGrows ==
  \A p \in Paths :
    /\ HostNode(host, p) # "absent" => HostNode(host', p) = HostNode(host, p)
    /\ HostNode(host', p) # HostNode(host, p) =>
         \E i \in DOMAIN mounts : mounts[i].kind = "bind" /\ ~mounts[i].ro /\ IsPrefix(mounts[i].at, p)

LEMMA Gains ==
  ASSUME Now, NEW t \in Paths, ~(Node(t) = "absent" /\ Governing(t).ro),
         \A p \in Paths :
           /\ HostNode(host, p) # "absent" => HostNode(host', p) = HostNode(host, p)
           /\ HostNode(host', p) # HostNode(host, p) =>
                /\ mounts[TopIn(mounts, t)].kind = "bind"
                /\ p \in MissingIn(mounts, host, made, t)
  PROVE  HostGrows
<1> SUFFICES ASSUME NEW p \in Paths, mounts[TopIn(mounts, t)].kind = "bind",
                      p \in MissingIn(mounts, host, made, t)
               PROVE  \E i \in DOMAIN mounts :
                        mounts[i].kind = "bind" /\ ~mounts[i].ro /\ IsPrefix(mounts[i].at, p)
  BY DEF HostGrows
<1> USE DEF Now, World
<1>2. t \in Anywhere /\ TopIn(mounts, t) \in DOMAIN mounts
  BY PathOrder, TopIs
<1>3. IsPrefix(mounts[TopIn(mounts, t)].at, p) /\ p \in Prefixes(t)
  BY MissingOnTop DEF MissingIn
<1>4. Node(t) = "absent"
  <2>1. NodeIn(mounts, host, made, p) = "absent"
    BY DEF MissingIn
  <2>2. NodeIn(mounts, host, made, t) = "absent"
    BY <1>3, <2>1 DEF VisibleTree
  <2> QED
    BY <2>2, NodeIsNodeIn
<1>5. ~mounts[TopIn(mounts, t)].ro
  BY <1>4, NodeIsNodeIn
<1> QED
  BY <1>2, <1>3, <1>5

LEMMA DirsAreMade ==
  ASSUME Now, EarlyMounts, NEW t \in Paths, ~NoDir(t), MakeDirs(t)
  PROVE  \E new : Makes(mounts, host, made, t, "dir", {}, new, host', made')
<1> DEFINE new == [q \in Missing(t) |-> "dir"]
<1>1. t \in Anywhere /\ t \in Prefixes(t) /\ Prefixes(t) \subseteq Anywhere
  BY PathOrder
<1>2. \A q \in Prefixes(t) : NodeIn(mounts, host, made, q) \in {"absent", "dir"}
  <2>1. \A q \in Prefixes(t) : NodeIn(mounts, host, made, q) # "file"
    BY NodeIsNodeIn DEF NoDir
  <2>2. \A q \in Anywhere : NodeIn(mounts, host, made, q) \in {"absent", "dir", "file"}
    BY NodeValues DEF Now, World
  <2> QED
    BY <1>1, <2>1, <2>2
<1>3. DOMAIN new = MissingIn(mounts, host, made, t) \cup {}
  BY NodeIsNodeIn DEF Missing, MissingIn
<1>4. Create(t, new)
  BY DEF MakeDirs
<1>5. IF mounts[TopIn(mounts, t)].kind = "bind"
        THEN /\ host' = [q \in Paths |-> IF q \in DOMAIN new THEN new[q] ELSE host[q]]
             /\ made' = made
        ELSE /\ made' = made \cup {[on |-> TopIn(mounts, t), at |-> q, node |-> new[q]] :
                                     q \in DOMAIN new}
             /\ host' = host
  BY <1>4, NodeIsNodeIn DEF Create
<1>6. \A q \in DOMAIN new : new[q] =
        IF q # t THEN "dir"
        ELSE IF NodeIn(mounts, host, made, t) = "absent" THEN "dir" ELSE "emptied"
  BY <1>3 DEF MissingIn
<1> HIDE DEF new
<1>7. Makes(mounts, host, made, t, "dir", {}, new, host', made')
  BY <1>1, <1>2, <1>3, <1>5, <1>6 DEF Makes, EarlyMounts
<1> QED
  BY <1>7

LEMMA DirsMade ==
  ASSUME Now, EarlyMounts, NEW t \in Paths, ~NoDir(t), MakeDirs(t)
  PROVE  /\ World(mounts, host', made') /\ NodeIn(mounts, host', made', t) = "dir"
         /\ HostGrows
<1>1. t \in Anywhere /\ t \in Prefixes(t)
  BY PathOrder
<1>2. PICK new : Makes(mounts, host, made, t, "dir", {}, new, host', made')
  BY DirsAreMade
<1>3. NodeIn(mounts, host, made, t) \in {"absent", "dir"}
  BY <1>2 DEF Makes
<1>7. /\ World(mounts, host', made')
      /\ \A p \in Anywhere : NodeIn(mounts, host', made', p) =
           IF p \in MissingIn(mounts, host, made, t) THEN IF p = t THEN "dir" ELSE "dir"
           ELSE NodeIn(mounts, host, made, p)
      /\ \A p \in Paths :
           /\ HostNode(host, p) # "absent" => HostNode(host', p) = HostNode(host, p)
           /\ HostNode(host', p) # HostNode(host, p) =>
                /\ mounts[TopIn(mounts, t)].kind = "bind"
                /\ p \in MissingIn(mounts, host, made, t)
  BY <1>2, MakingKeepsWorld DEF Now
<1>8. NodeIn(mounts, host', made', t) = "dir"
  BY <1>1, <1>3, <1>7 DEF MissingIn
<1>9. HostGrows
  <2>1. ~(Node(t) = "absent" /\ Governing(t).ro)
    BY DEF NoDir
  <2> QED
    BY <1>7, <2>1, Gains
<1> QED
  BY <1>7, <1>8, <1>9

LEMMA FileIsMade ==
  ASSUME Now, EarlyMounts, NEW t \in Paths, ~NoFile(t), MakeFile(t)
  PROVE  \E Tr, new : /\ Makes(mounts, host, made, t, "file", Tr, new, host', made')
                      /\ Tr # {} => ~mounts[TopIn(mounts, t)].ro
<1> DEFINE Tr  == Truncated(t)
           new == [q \in Missing(t) \cup Tr |->
                     IF q # t THEN "dir" ELSE IF Node(t) = "absent" THEN "file" ELSE "emptied"]
<1>1. t \in Anywhere /\ t \in Prefixes(t) /\ Prefixes(t) \subseteq Anywhere
  BY PathOrder
<1>2. /\ NodeIn(mounts, host, made, t) \in {"absent", "file"}
      /\ \A q \in Prefixes(t) \ {t} : NodeIn(mounts, host, made, q) \in {"absent", "dir"}
  <2>1. \A q \in Prefixes(t) \ {t} : q \in Prefixes(Front(t))
    <3> SUFFICES ASSUME NEW q, q \in Prefixes(t) \ {t} PROVE q \in Prefixes(Front(t))
      OBVIOUS
    <3>1. q \in Anywhere /\ IsPrefix(q, t) /\ q # t /\ t # <<>>
      BY <1>1, PathOrder
    <3>2. t \in Seq(STRING) /\ q \in Seq(STRING)
      BY <1>1, <3>1, PathFacts
    <3> QED
      BY <3>1, <3>2, FrontIs, PrefixIs
  <2>2. \A q \in Prefixes(t) \ {t} : NodeIn(mounts, host, made, q) # "file"
    BY <2>1, NodeIsNodeIn DEF NoFile, NoDir
  <2>3. NodeIn(mounts, host, made, t) # "dir"
    BY NodeIsNodeIn DEF NoFile
  <2>4. \A q \in Anywhere : NodeIn(mounts, host, made, q) \in {"absent", "dir", "file"}
    BY NodeValues DEF Now, World
  <2> QED
    BY <1>1, <2>2, <2>3, <2>4
<1>3. /\ DOMAIN new = MissingIn(mounts, host, made, t) \cup Tr
      /\ Tr \in SUBSET {t}
      /\ Tr # {} => /\ mounts[TopIn(mounts, t)].kind = "bind"
                    /\ NodeIn(mounts, host, made, t) = "file"
  BY NodeIsNodeIn DEF Missing, MissingIn, Truncated
<1>4. Create(t, new)
  BY DEF MakeFile
<1>5. IF mounts[TopIn(mounts, t)].kind = "bind"
        THEN /\ host' = [q \in Paths |-> IF q \in DOMAIN new THEN new[q] ELSE host[q]]
             /\ made' = made
        ELSE /\ made' = made \cup {[on |-> TopIn(mounts, t), at |-> q, node |-> new[q]] :
                                     q \in DOMAIN new}
             /\ host' = host
  BY <1>4, NodeIsNodeIn DEF Create
<1>6. \A q \in DOMAIN new : new[q] =
        IF q # t THEN "dir"
        ELSE IF NodeIn(mounts, host, made, t) = "absent" THEN "file" ELSE "emptied"
  BY NodeIsNodeIn
<1>8. Tr # {} => ~mounts[TopIn(mounts, t)].ro
  BY NodeIsNodeIn DEF Truncated
<1> HIDE DEF new, Tr
<1>7. Makes(mounts, host, made, t, "file", Tr, new, host', made')
  BY <1>1, <1>2, <1>3, <1>5, <1>6 DEF Makes, EarlyMounts
<1> QED
  BY <1>7, <1>8

LEMMA FileMade ==
  ASSUME Now, EarlyMounts, NEW t \in Paths, ~NoFile(t), MakeFile(t)
  PROVE  /\ World(mounts, host', made') /\ NodeIn(mounts, host', made', t) = "file"
         /\ HostGrows
<1>1. t \in Anywhere /\ t \in Prefixes(t)
  BY PathOrder
<1>2. PICK Tr, new : Makes(mounts, host, made, t, "file", Tr, new, host', made')
  BY FileIsMade
<1>3. NodeIn(mounts, host, made, t) \in {"absent", "file"}
  BY <1>2 DEF Makes
<1>7. /\ World(mounts, host', made')
      /\ \A p \in Anywhere : NodeIn(mounts, host', made', p) =
           IF p \in MissingIn(mounts, host, made, t) THEN IF p = t THEN "file" ELSE "dir"
           ELSE NodeIn(mounts, host, made, p)
      /\ \A p \in Paths :
           /\ HostNode(host, p) # "absent" => HostNode(host', p) = HostNode(host, p)
           /\ HostNode(host', p) # HostNode(host, p) =>
                /\ mounts[TopIn(mounts, t)].kind = "bind"
                /\ p \in MissingIn(mounts, host, made, t)
  BY <1>2, MakingKeepsWorld DEF Now
<1>8. NodeIn(mounts, host', made', t) = "file"
  BY <1>1, <1>3, <1>7 DEF MissingIn
<1>9. HostGrows
  <2>1. ~(Node(t) = "absent" /\ Governing(t).ro)
    BY DEF NoFile
  <2> QED
    BY <1>7, <2>1, Gains
<1> QED
  BY <1>7, <1>8, <1>9

-----------------------------------------------------------------------------
(* The steps ahead are in order. *)

Ops == {"read_only", "read_write", "tmpfs", "dev", "proc", "deny"}
StepSet == [op : Ops, at : Paths]

Rank == [op \in Ops |->
  CASE op = "read_only" -> 1 [] op = "read_write" -> 2 [] op = "tmpfs" -> 3
    [] op = "dev" -> 4 [] op = "proc" -> 5 [] op = "deny" -> 6]

Elems(s) == {s[i] : i \in DOMAIN s}

\* d may come before e: procfs is mounted once.
Before(d, e) == Rank[d.op] <= Rank[e.op] /\ ~(d.op = "proc" /\ e.op = "proc")

Sorted(s) == \A j, k \in DOMAIN s : j < k => Before(s[j], s[k])

Listed(list, a) == \E j \in DOMAIN list : list[j] = a

Wanted(pl, e) ==
  \/ e.op = "read_only"  /\ Listed(pl.read_only, e.at)
  \/ e.op = "read_write" /\ Listed(pl.read_write, e.at)
  \/ e.op = "tmpfs"      /\ Listed(pl.tmpfs, e.at)
  \/ e.op = "dev"        /\ pl.minimal_dev /\ e.at = DEV
  \/ e.op = "proc"       /\ e.at = PROC
  \/ e.op = "deny"       /\ Listed(pl.deny, e.at)

LEMMA RankIs ==
  /\ Rank["read_only"] = 1 /\ Rank["read_write"] = 2 /\ Rank["tmpfs"] = 3
  /\ Rank["dev"] = 4 /\ Rank["proc"] = 5 /\ Rank["deny"] = 6
  /\ \A op \in Ops : Rank[op] \in 1..6
BY DEF Rank, Ops

LEMMA ConcatSorted ==
  ASSUME NEW s \in Seq(StepSet), NEW t \in Seq(StepSet), Sorted(s), Sorted(t),
         \A d \in Elems(s), e \in Elems(t) : Before(d, e)
  PROVE  /\ s \o t \in Seq(StepSet) /\ Sorted(s \o t) /\ Elems(s \o t) = Elems(s) \cup Elems(t)
<1> DEFINE u == s \o t
<1>1. /\ u \in Seq(StepSet) /\ Len(u) = Len(s) + Len(t)
      /\ \A i \in 1..Len(s) : u[i] = s[i]
      /\ \A i \in 1..Len(t) : u[Len(s) + i] = t[i]
  BY ConcatProperties
<1>2. /\ DOMAIN u = 1..Len(u) /\ DOMAIN s = 1..Len(s) /\ DOMAIN t = 1..Len(t)
      /\ Len(s) \in Nat /\ Len(t) \in Nat
  BY <1>1
<1> HIDE DEF u
<1>3. \A i \in DOMAIN u : (i \in DOMAIN s /\ u[i] = s[i])
                          \/ (i > Len(s) /\ i - Len(s) \in DOMAIN t /\ u[i] = t[i - Len(s)])
  <2> SUFFICES ASSUME NEW i \in DOMAIN u, i > Len(s)
               PROVE  i - Len(s) \in DOMAIN t /\ u[i] = t[i - Len(s)]
    BY <1>1, <1>2
  <2>1. i - Len(s) \in 1..Len(t) /\ Len(s) + (i - Len(s)) = i
    BY <1>1, <1>2
  <2> QED
    BY <1>1, <1>2, <2>1
<1>4. Sorted(u)
  <2> SUFFICES ASSUME NEW j \in DOMAIN u, NEW k \in DOMAIN u, j < k PROVE Before(u[j], u[k])
    BY DEF Sorted
  <2>1. CASE j \in DOMAIN s /\ k \in DOMAIN s
    BY <1>1, <1>2, <2>1 DEF Sorted
  <2>2. CASE j > Len(s) /\ k > Len(s)
    <3>1. j - Len(s) \in DOMAIN t /\ k - Len(s) \in DOMAIN t /\ j - Len(s) < k - Len(s)
      BY <1>2, <1>3, <2>2
    <3>2. u[j] = t[j - Len(s)] /\ u[k] = t[k - Len(s)]
      BY <1>2, <1>3, <2>2
    <3> QED
      BY <3>1, <3>2 DEF Sorted
  <2>3. CASE j \in DOMAIN s /\ k > Len(s)
    <3>1. u[j] \in Elems(s)
      BY <1>1, <1>2, <2>3 DEF Elems
    <3>2. u[k] \in Elems(t)
      BY <1>2, <1>3, <2>3 DEF Elems
    <3> QED
      BY <3>1, <3>2
  <2> QED
    BY <1>1, <1>2, <2>1, <2>2, <2>3
<1>5. Elems(u) = Elems(s) \cup Elems(t)
  <2>1. \A e \in Elems(u) : e \in Elems(s) \cup Elems(t)
    BY <1>3 DEF Elems
  <2>2. \A e \in Elems(s) : e \in Elems(u)
    BY <1>1, <1>2 DEF Elems
  <2>3. \A i \in DOMAIN t : Len(s) + i \in DOMAIN u
    BY <1>1, <1>2
  <2>4. \A e \in Elems(t) : e \in Elems(u)
    BY <1>1, <1>2, <2>3 DEF Elems
  <2> QED
    BY <2>1, <2>2, <2>4
<1> QED
  BY <1>1, <1>4, <1>5 DEF u

LEMMA EachIs ==
  ASSUME NEW op \in Ops \ {"proc"}, NEW list \in Seq(Paths)
  PROVE  /\ Each(op, list) \in Seq(StepSet) /\ Sorted(Each(op, list))
         /\ \A e \in StepSet : e \in Elems(Each(op, list)) <=> e.op = op /\ Listed(list, e.at)
         /\ \A e \in Elems(Each(op, list)) : e.op = op
<1> DEFINE s == Each(op, list)
<1>1. /\ DOMAIN s = DOMAIN list
      /\ \A i \in DOMAIN list : s[i] = [op |-> op, at |-> list[i]] /\ s[i] \in StepSet
  BY DEF Each, StepSet
<1>2. s \in Seq(StepSet)
  <2>1. s = [i \in 1..Len(list) |-> s[i]] /\ Len(list) \in Nat
    BY <1>1 DEF Each
  <2>2. \A i \in 1..Len(list) : s[i] \in StepSet
    BY <1>1
  <2> HIDE DEF s
  <2> QED
    BY <2>1, <2>2, IsASeq
<1> HIDE DEF s
<1>3. Sorted(s)
  BY <1>1, RankIs DEF Sorted, Before
<1>4. \A e \in StepSet : e \in Elems(s) <=> e.op = op /\ Listed(list, e.at)
  BY <1>1 DEF Elems, Listed, StepSet
<1>5. \A e \in Elems(s) : e.op = op
  BY <1>1 DEF Elems
<1> QED
  BY <1>2, <1>3, <1>4, <1>5 DEF s

LEMMA OneIs ==
  ASSUME NEW e \in StepSet
  PROVE  <<e>> \in Seq(StepSet) /\ Sorted(<<e>>) /\ Elems(<<e>>) = {e}
BY DEF Sorted, Elems

LEMMA StepsAre ==
  ASSUME NEW pl \in AllPlans
  PROVE  /\ Steps(pl) \in Seq(StepSet) /\ Sorted(Steps(pl))
         /\ \A e \in StepSet : e \in Elems(Steps(pl)) <=> Wanted(pl, e)
<1> DEFINE a == Each("read_only", pl.read_only)
           b == Each("read_write", pl.read_write)
           c == Each("tmpfs", pl.tmpfs)
           d == Dev(pl)
           f == <<[op |-> "proc", at |-> PROC]>>
           g == Each("deny", pl.deny)
<1>1. /\ pl.read_only \in Seq(Paths) /\ pl.read_write \in Seq(Paths)
      /\ pl.tmpfs \in Seq(Paths) /\ pl.deny \in Seq(Paths)
  BY DEF AllPlans
<1>2. /\ DEV \in Paths /\ PROC \in Paths
  BY PathsAssumption
<1>a. a \in Seq(StepSet) /\ Sorted(a) /\ (\A e \in Elems(a) : e.op = "read_only")
      /\ \A e \in StepSet : e \in Elems(a) <=> e.op = "read_only" /\ Listed(pl.read_only, e.at)
  BY <1>1, EachIs DEF Ops
<1>b. b \in Seq(StepSet) /\ Sorted(b) /\ (\A e \in Elems(b) : e.op = "read_write")
      /\ \A e \in StepSet : e \in Elems(b) <=> e.op = "read_write" /\ Listed(pl.read_write, e.at)
  BY <1>1, EachIs DEF Ops
<1>c. c \in Seq(StepSet) /\ Sorted(c) /\ (\A e \in Elems(c) : e.op = "tmpfs")
      /\ \A e \in StepSet : e \in Elems(c) <=> e.op = "tmpfs" /\ Listed(pl.tmpfs, e.at)
  BY <1>1, EachIs DEF Ops
<1>d. d \in Seq(StepSet) /\ Sorted(d) /\ (\A e \in Elems(d) : e.op = "dev")
      /\ \A e \in StepSet : e \in Elems(d) <=> e.op = "dev" /\ pl.minimal_dev /\ e.at = DEV
  <2> DEFINE e0 == [op |-> "dev", at |-> DEV]
  <2>1. e0 \in StepSet /\ e0.op = "dev" /\ e0.at = DEV
        /\ \A e \in StepSet : e = e0 <=> e.op = "dev" /\ e.at = DEV
    BY <1>2 DEF StepSet, Ops
  <2> HIDE DEF e0
  <2>2. CASE pl.minimal_dev
    <3>1. d = <<e0>>
      BY <2>2 DEF Dev, e0
    <3>2. <<e0>> \in Seq(StepSet) /\ Sorted(<<e0>>) /\ Elems(<<e0>>) = {e0}
      BY <2>1, OneIs
    <3> QED
      BY <2>1, <2>2, <3>1, <3>2
  <2>3. CASE ~pl.minimal_dev
    <3>1. d = <<>>
      BY <2>3 DEF Dev
    <3>2. <<>> \in Seq(StepSet) /\ Sorted(<<>>) /\ Elems(<<>>) = {}
      BY DEF Sorted, Elems
    <3> QED
      BY <2>3, <3>1, <3>2
  <2> QED
    BY <2>2, <2>3
<1>f. f \in Seq(StepSet) /\ Sorted(f) /\ (\A e \in Elems(f) : e.op = "proc")
      /\ \A e \in StepSet : e \in Elems(f) <=> e.op = "proc" /\ e.at = PROC
  <2> DEFINE e0 == [op |-> "proc", at |-> PROC]
  <2>1. e0 \in StepSet /\ e0.op = "proc" /\ e0.at = PROC
        /\ \A e \in StepSet : e = e0 <=> e.op = "proc" /\ e.at = PROC
    BY <1>2 DEF StepSet, Ops
  <2>2. f = <<e0>>
    OBVIOUS
  <2> HIDE DEF e0
  <2>3. <<e0>> \in Seq(StepSet) /\ Sorted(<<e0>>) /\ Elems(<<e0>>) = {e0}
    BY <2>1, OneIs
  <2> QED
    BY <2>1, <2>2, <2>3
<1>g. g \in Seq(StepSet) /\ Sorted(g) /\ (\A e \in Elems(g) : e.op = "deny")
      /\ \A e \in StepSet : e \in Elems(g) <=> e.op = "deny" /\ Listed(pl.deny, e.at)
  BY <1>1, EachIs DEF Ops
<1>3. Steps(pl) = ((((a \o b) \o c) \o d) \o f) \o g
  BY DEF Steps
<1> HIDE DEF a, b, c, d, f, g
<1>4. /\ a \o b \in Seq(StepSet) /\ Sorted(a \o b) /\ Elems(a \o b) = Elems(a) \cup Elems(b)
  <2>1. \A x \in Elems(a), y \in Elems(b) : Before(x, y)
    BY <1>a, <1>b, RankIs DEF Before
  <2> QED
    BY <1>a, <1>b, <2>1, ConcatSorted
<1> DEFINE ab == a \o b
<1> HIDE DEF ab
<1>5. /\ ab \o c \in Seq(StepSet) /\ Sorted(ab \o c) /\ Elems(ab \o c) = Elems(ab) \cup Elems(c)
  <2>1. \A x \in Elems(ab), y \in Elems(c) : Before(x, y)
    BY <1>a, <1>b, <1>c, <1>4, RankIs DEF Before, ab
  <2> QED
    BY <1>4, <1>c, <2>1, ConcatSorted DEF ab
<1> DEFINE abc == ab \o c
<1> HIDE DEF abc
<1>6. /\ abc \o d \in Seq(StepSet) /\ Sorted(abc \o d) /\ Elems(abc \o d) = Elems(abc) \cup Elems(d)
  <2>1. \A x \in Elems(abc), y \in Elems(d) : Before(x, y)
    BY <1>a, <1>b, <1>c, <1>d, <1>4, <1>5, RankIs DEF Before, ab, abc
  <2> QED
    BY <1>5, <1>d, <2>1, ConcatSorted DEF abc
<1> DEFINE abcd == abc \o d
<1> HIDE DEF abcd
<1>7. /\ abcd \o f \in Seq(StepSet) /\ Sorted(abcd \o f)
      /\ Elems(abcd \o f) = Elems(abcd) \cup Elems(f)
  <2>1. \A x \in Elems(abcd), y \in Elems(f) : Before(x, y)
    BY <1>a, <1>b, <1>c, <1>d, <1>f, <1>4, <1>5, <1>6, RankIs DEF Before, ab, abc, abcd
  <2> QED
    BY <1>6, <1>f, <2>1, ConcatSorted DEF abcd
<1> DEFINE abcdf == abcd \o f
<1> HIDE DEF abcdf
<1>8. /\ abcdf \o g \in Seq(StepSet) /\ Sorted(abcdf \o g)
      /\ Elems(abcdf \o g) = Elems(abcdf) \cup Elems(g)
  <2>1. \A x \in Elems(abcdf), y \in Elems(g) : Before(x, y)
    BY <1>a, <1>b, <1>c, <1>d, <1>f, <1>g, <1>4, <1>5, <1>6, <1>7, RankIs
       DEF Before, ab, abc, abcd, abcdf
  <2> QED
    BY <1>7, <1>g, <2>1, ConcatSorted DEF abcdf
<1>9. Elems(Steps(pl)) = Elems(a) \cup Elems(b) \cup Elems(c) \cup Elems(d) \cup Elems(f) \cup Elems(g)
  BY <1>3, <1>4, <1>5, <1>6, <1>7, <1>8 DEF ab, abc, abcd, abcdf
<1>10. \A e \in StepSet : e \in Elems(Steps(pl)) <=> Wanted(pl, e)
  BY <1>a, <1>b, <1>c, <1>d, <1>f, <1>g, <1>9 DEF Wanted
<1> QED
  BY <1>3, <1>8, <1>10 DEF ab, abc, abcd, abcdf

\* A step is done: what is left is in order, and the step came before it.
LEMMA TailIs ==
  ASSUME NEW s \in Seq(StepSet), s # <<>>, Sorted(s)
  PROVE  /\ Tail(s) \in Seq(StepSet) /\ Sorted(Tail(s)) /\ Head(s) \in StepSet
         /\ Elems(s) = {Head(s)} \cup Elems(Tail(s))
         /\ \A e \in Elems(Tail(s)) : Before(Head(s), e)
         /\ Elems(s) \subseteq StepSet
<1>1. /\ Len(s) \in Nat /\ Len(s) > 0 /\ DOMAIN s = 1..Len(s) /\ Head(s) = s[1]
      /\ Tail(s) \in Seq(StepSet) /\ DOMAIN Tail(s) = 1..Len(s) - 1
      /\ \A j \in DOMAIN Tail(s) : j + 1 \in DOMAIN s /\ Tail(s)[j] = s[j + 1]
  OBVIOUS
<1>2. \A k \in DOMAIN s : s[k] \in StepSet
  OBVIOUS
<1> DEFINE t == Tail(s)
<1> HIDE DEF t
<1>3. Sorted(t)
  BY <1>1 DEF Sorted, t
<1>4. \A k \in DOMAIN s : k = 1 \/ (k - 1 \in DOMAIN t /\ t[k - 1] = s[k])
  <2> SUFFICES ASSUME NEW k \in DOMAIN s, k # 1 PROVE k - 1 \in DOMAIN t /\ t[k - 1] = s[k]
    OBVIOUS
  <2>1. k - 1 \in DOMAIN t /\ (k - 1) + 1 = k
    BY <1>1 DEF t
  <2> QED
    BY <1>1, <2>1 DEF t
<1>5. Elems(s) = {s[1]} \cup Elems(t)
  <2>1. \A e \in Elems(s) : e \in {s[1]} \cup Elems(t)
    BY <1>4 DEF Elems
  <2>2. \A e \in Elems(t) : e \in Elems(s)
    BY <1>1 DEF Elems, t
  <2>3. s[1] \in Elems(s)
    BY <1>1 DEF Elems
  <2> QED
    BY <2>1, <2>2, <2>3
<1>6. \A e \in Elems(t) : Before(s[1], e)
  <2> SUFFICES ASSUME NEW j \in DOMAIN t PROVE Before(s[1], t[j])
    BY DEF Elems
  <2>1. j + 1 \in DOMAIN s /\ t[j] = s[j + 1] /\ 1 < j + 1 /\ 1 \in DOMAIN s
    BY <1>1 DEF t
  <2> QED
    BY <2>1 DEF Sorted
<1>7. Elems(s) \subseteq StepSet
  BY <1>2 DEF Elems
<1> QED
  BY <1>1, <1>2, <1>3, <1>5, <1>6, <1>7 DEF t

-----------------------------------------------------------------------------
(* The invariant.  What is mounted follows the order of the steps, so the mount  *)
(* on top of a path tells which lists the path is in; what was passed over had   *)
(* nothing on the host, and has something now only below a writable bind mount.  *)

MountRank(m) ==
  CASE m.kind = "root" -> 0
    [] m.kind = "bind" -> IF m.ro THEN 1 ELSE 2
    [] m.kind = "tmpfs" -> 3
    [] m.kind = "proc" -> 5
    [] m.kind = "mask" -> 6

Shape ==
  /\ plan \in AllPlans /\ given \in Hosts /\ status \in {"setup", "ready", "failed"}
  /\ todo \in Seq(StepSet) /\ Now
  /\ status = "ready" => todo = <<>>

InOrder ==
  /\ Sorted(todo)
  /\ \A m, e : m \in Elems(mounts) /\ e \in Elems(todo) =>
       MountRank(m) <= Rank[e.op] /\ (e.op = "proc" => m.kind # "proc")
  /\ \A i, j \in DOMAIN mounts : i < j => MountRank(mounts[i]) <= MountRank(mounts[j])

AsListed(m) ==
  /\ m.kind = "bind" /\ m.ro => Listed(plan.read_only, m.at)
  /\ m.kind = "bind" /\ ~m.ro => Listed(plan.read_write, m.at)
  /\ m.kind = "bind" => ~IsStrictPrefix(STAGE, m.at)
  /\ m.kind = "tmpfs" => ~m.ro /\ (Listed(plan.tmpfs, m.at) \/ (plan.minimal_dev /\ m.at = DEV))
  /\ m.kind = "proc" => m.at = PROC
  /\ m.kind = "mask" => Listed(plan.deny, m.at)

Covered(d) ==
  \A p \in Paths : IsPrefix(d, p) =>
    NodeIn(mounts, host, made, p) = "absent" \/ mounts[TopIn(mounts, p)].kind = "mask"

Served(e) ==
  /\ e.op \in {"read_only", "read_write"} =>
       \/ \E m \in Elems(mounts) : m.kind = "bind" /\ m.at = e.at /\ m.ro = (e.op = "read_only")
       \/ given[e.at] = "absent" \/ IsStrictPrefix(STAGE, e.at)
  /\ e.op \in {"tmpfs", "dev"} => \E m \in Elems(mounts) : m.kind = "tmpfs" /\ m.at = e.at
  /\ e.op = "deny" => Covered(e.at) /\ \A f \in Elems(todo) : f.op = "deny"

HostGrown ==
  \A p \in Paths :
    /\ given[p] # "absent" => host[p] # "absent"
    /\ host[p] # "absent" /\ given[p] = "absent" =>
         \E m \in Elems(mounts) : m.kind = "bind" /\ ~m.ro /\ IsPrefix(m.at, p)

PlanInv ==
  /\ Shape /\ InOrder
  /\ \A m \in Elems(mounts) : AsListed(m)
  /\ \A e \in StepSet : Wanted(plan, e) => e \in Elems(todo) \/ Served(e)
  /\ \A e \in Elems(todo) : Wanted(plan, e)
  /\ HostGrown

-----------------------------------------------------------------------------
(* What a step does. *)

Pops == status = "setup" /\ todo # <<>> /\ todo' = Tail(todo) /\ UNCHANGED <<plan, given, status>>

Skips == Pops /\ UNCHANGED <<host, mounts, made>>

Adds(x) ==
  /\ Pops /\ mounts' = Append(mounts, x)
  /\ x \in MountSet /\ x.at \in Paths /\ x.kind # "root" /\ (x.kind = "mask" /\ x.node = "dir" => x.ro)
  /\ World(mounts', host', made') /\ HostGrows

Bound(ro, node) == [at |-> Head(todo).at, kind |-> "bind", ro |-> ro, node |-> node]
Fresh  == [at |-> Head(todo).at, kind |-> "tmpfs", ro |-> FALSE, node |-> "dir"]
Procfs == [at |-> PROC, kind |-> "proc", ro |-> FALSE, node |-> "dir"]
Masked == [at |-> Head(todo).at, kind |-> "mask",
           ro |-> NodeIn(mounts, host, made, Head(todo).at) = "dir",
           node |-> NodeIn(mounts, host, made, Head(todo).at)]

Effect ==
  \/ UNCHANGED <<plan, given, host, mounts, made, todo>> /\ status' \in {"setup", "ready", "failed"}
     /\ (status' = "ready" => todo = <<>> \/ status = "ready")
  \/ /\ Head(todo).op \in {"read_only", "read_write"}
     /\ \/ Skips /\ Source(Head(todo).at) = "absent"
        \/ /\ Source(Head(todo).at) # "absent"
           /\ \E node \in {"dir", "file"} : Adds(Bound(Head(todo).op = "read_only", node))
  \/ Head(todo).op \in {"tmpfs", "dev"} /\ Adds(Fresh)
  \/ /\ Head(todo).op = "proc"
     /\ \/ Adds(Procfs)
        \/ Pops /\ UNCHANGED mounts /\ World(mounts', host', made') /\ HostGrows
  \/ /\ Head(todo).op = "deny"
     /\ \/ Skips /\ NodeIn(mounts, host, made, Head(todo).at) = "absent"
        \/ Adds(Masked) /\ UNCHANGED <<host, made>>

LEMMA MountRankIs ==
  ASSUME NEW m
  PROVE  /\ m.kind = "root" => MountRank(m) = 0
         /\ m.kind = "bind" => MountRank(m) = IF m.ro THEN 1 ELSE 2
         /\ m.kind = "tmpfs" => MountRank(m) = 3
         /\ m.kind = "proc" => MountRank(m) = 5
         /\ m.kind = "mask" => MountRank(m) = 6
BY DEF MountRank

LEMMA Heads ==
  ASSUME Shape, InOrder, todo # <<>>
  PROVE  /\ Head(todo) \in StepSet /\ Head(todo) \in Elems(todo) /\ Elems(todo) \subseteq StepSet
         /\ Head(todo).op # "deny" =>
              \A i \in DOMAIN mounts : /\ mounts[i].kind # "mask"
                                       /\ mounts[i].kind # "proc"
<1>1. /\ Head(todo) \in StepSet /\ Head(todo) \in Elems(todo) /\ Elems(todo) \subseteq StepSet
  BY TailIs DEF Shape, InOrder
<1>2. ASSUME Head(todo).op # "deny", NEW i \in DOMAIN mounts
      PROVE  mounts[i].kind # "mask" /\ mounts[i].kind # "proc"
  <2>1. mounts[i] \in Elems(mounts)
    BY DEF Elems
  <2>2. /\ MountRank(mounts[i]) <= Rank[Head(todo).op]
        /\ Head(todo).op = "proc" => mounts[i].kind # "proc"
    BY <1>1, <2>1 DEF InOrder
  <2>3. Head(todo).op \in Ops
    BY <1>1 DEF StepSet
  <2>4. Rank[Head(todo).op] <= 5 /\ (Head(todo).op # "proc" => Rank[Head(todo).op] <= 4)
    BY <1>2, <2>3, RankIs DEF Ops
  <2> QED
    BY <2>2, <2>3, <2>4, MountRankIs, RankIs
<1> QED
  BY <1>1, <1>2

LEMMA EarlyHead ==
  ASSUME Shape, InOrder, todo # <<>>, Head(todo).op # "deny"
  PROVE  EarlyMounts
<1>1. \A i \in DOMAIN mounts : mounts[i].kind \in Kinds
  BY MountFields DEF Shape, Now, World
<1> QED
  BY <1>1, Heads DEF EarlyMounts, Kinds

\* What is mounted at t is what a path names there.
LEMMA Mounted ==
  ASSUME World(mounts, host', made'), HostGrows, Pops, NEW x \in MountSet,
         mounts' = Append(mounts, x), x.at \in Paths, x.kind # "root", x.kind = "mask" /\ x.node = "dir" => x.ro,
         NodeIn(mounts, host', made', x.at) = x.node,
         x.kind = "bind" => HostNode(host', x.at) = x.node
  PROVE  Adds(x)
BY MountKeepsWorld DEF Adds

LEMMA Effects ==
  ASSUME Shape, InOrder, [Next]_vars
  PROVE  Effect
<1>1. ASSUME NEW p \in Paths, Bind(p) PROVE Effect
  <2>1. /\ status = "setup" /\ todo # <<>> /\ Head(todo).at = p
        /\ Head(todo).op \in {"read_only", "read_write"}
    BY <1>1 DEF Bind, Doing
  <2>2. EarlyMounts /\ Now
    BY <2>1, EarlyHead DEF Shape
  <2> DEFINE ro == Head(todo).op = "read_only"
  <2>3. CASE Source(p) = "absent" /\ Advance /\ UNCHANGED <<host, mounts, made>>
    BY <2>1, <2>3 DEF Advance, Effect, Skips, Pops
  <2>4. CASE Fail
    BY <2>4 DEF Fail, Effect
  <2>5. CASE Source(p) = "dir" /\ ~NoDir(p) /\ MakeDirs(p) /\ Mount(p, "bind", ro, "dir") /\ Advance
    <3>1. /\ World(mounts, host', made') /\ NodeIn(mounts, host', made', p) = "dir" /\ HostGrows
      BY <2>2, <2>5, DirsMade
    <3>2. HostNode(host, p) = "dir"
      BY <2>5, NodeIsNodeIn DEF Source
    <3>3. HostNode(host', p) = "dir"
      BY <3>1, <3>2 DEF HostGrows
    <3>4. Bound(ro, "dir") \in MountSet /\ mounts' = Append(mounts, Bound(ro, "dir"))
      BY <2>1, <2>5, PathOrder DEF Bound, Mount, MountSet, Kinds
    <3>5. Pops
      BY <2>1, <2>5 DEF Pops, Advance
    <3>6. Adds(Bound(ro, "dir"))
      BY <2>1, <3>1, <3>3, <3>4, <3>5, Mounted DEF Bound
    <3> QED
      BY <2>1, <2>5, <3>6 DEF Effect
  <2>6. CASE Source(p) = "file" /\ ~NoFile(p) /\ MakeFile(p) /\ Mount(p, "bind", ro, "file") /\ Advance
    <3>1. /\ World(mounts, host', made') /\ NodeIn(mounts, host', made', p) = "file" /\ HostGrows
      BY <2>2, <2>6, FileMade
    <3>2. HostNode(host, p) = "file"
      BY <2>6, NodeIsNodeIn DEF Source
    <3>3. HostNode(host', p) = "file"
      BY <3>1, <3>2 DEF HostGrows
    <3>4. Bound(ro, "file") \in MountSet /\ mounts' = Append(mounts, Bound(ro, "file"))
      BY <2>1, <2>6, PathOrder DEF Bound, Mount, MountSet, Kinds
    <3>5. Pops
      BY <2>1, <2>6 DEF Pops, Advance
    <3>6. Adds(Bound(ro, "file"))
      BY <2>1, <3>1, <3>3, <3>4, <3>5, Mounted DEF Bound
    <3> QED
      BY <2>1, <2>6, <3>6 DEF Effect
  <2> QED
    BY <1>1, <2>3, <2>4, <2>5, <2>6 DEF Bind
<1>2. ASSUME NEW p \in Paths, FreshTmpfs(p), Doing({"tmpfs", "dev"}, p) PROVE Effect
  <2>1. /\ status = "setup" /\ todo # <<>> /\ Head(todo).at = p /\ Head(todo).op \in {"tmpfs", "dev"}
    BY <1>2 DEF Doing
  <2>2. EarlyMounts /\ Now
    BY <2>1, EarlyHead DEF Shape
  <2>3. CASE Fail
    BY <2>3 DEF Fail, Effect
  <2>4. CASE ~NoDir(p) /\ MakeDirs(p) /\ Mount(p, "tmpfs", FALSE, "dir") /\ Advance
    <3>1. /\ World(mounts, host', made') /\ NodeIn(mounts, host', made', p) = "dir" /\ HostGrows
      BY <2>2, <2>4, DirsMade
    <3>2. Fresh \in MountSet /\ mounts' = Append(mounts, Fresh)
      BY <2>1, <2>4, PathOrder DEF Fresh, Mount, MountSet, Kinds
    <3>3. Pops
      BY <2>1, <2>4 DEF Pops, Advance
    <3>4. Adds(Fresh)
      BY <2>1, <3>1, <3>2, <3>3, Mounted DEF Fresh
    <3> QED
      BY <2>1, <3>4 DEF Effect
  <2> QED
    BY <1>2, <2>3, <2>4 DEF FreshTmpfs
<1>3. ASSUME SetupProc PROVE Effect
  <2>1. /\ status = "setup" /\ todo # <<>> /\ Head(todo).at = PROC /\ Head(todo).op = "proc"
        /\ PROC \in Paths
    BY <1>3, PathsAssumption DEF SetupProc, Doing
  <2>2. EarlyMounts /\ Now
    BY <2>1, EarlyHead DEF Shape
  <2>3. CASE Fail
    BY <2>3 DEF Fail, Effect
  <2>4. CASE ~NoDir(PROC) /\ MakeDirs(PROC) /\ Advance
             /\ (Mount(PROC, "proc", FALSE, "dir") \/ UNCHANGED mounts)
    <3>1. /\ World(mounts, host', made') /\ NodeIn(mounts, host', made', PROC) = "dir" /\ HostGrows
      BY <2>1, <2>2, <2>4, DirsMade
    <3>3. Pops
      BY <2>1, <2>4 DEF Pops, Advance
    <3>4. CASE Mount(PROC, "proc", FALSE, "dir")
      <4>1. Procfs \in MountSet /\ mounts' = Append(mounts, Procfs)
        BY <2>1, <3>4, PathOrder DEF Procfs, Mount, MountSet, Kinds
      <4>2. Adds(Procfs)
        BY <2>1, <3>1, <3>3, <4>1, Mounted DEF Procfs
      <4> QED
        BY <2>1, <4>2 DEF Effect
    <3>5. CASE UNCHANGED mounts
      BY <2>1, <3>1, <3>3, <3>5 DEF Effect
    <3> QED
      BY <2>4, <3>4, <3>5
  <2> QED
    BY <1>3, <2>3, <2>4 DEF SetupProc
<1>4. ASSUME NEW p \in Paths, Mask(p) PROVE Effect
  <2>1. /\ status = "setup" /\ todo # <<>> /\ Head(todo).at = p /\ Head(todo).op = "deny"
        /\ p \in Anywhere
    BY <1>4, PathOrder DEF Mask, Doing
  <2>2. CASE /\ Node(p) # "absent" /\ Mount(p, "mask", Node(p) = "dir", Node(p)) /\ Advance
            /\ UNCHANGED <<host, made>>
    <3>1. World(mounts, host', made') /\ HostGrows
      <4>1. host' = host /\ made' = made /\ World(mounts, host, made)
        BY <2>2 DEF Shape, Now
      <4> QED
        BY <4>1 DEF HostGrows
    <3>2. Pops
      BY <2>1, <2>2 DEF Pops, Advance
    <3>3. NodeIn(mounts, host, made, p) = Node(p) /\ Node(p) \in {"dir", "file"}
      <4>1. NodeIn(mounts, host, made, p) \in {"absent", "dir", "file"}
        BY <2>1, NodeValues DEF Shape, Now, World
      <4> QED
        BY <2>2, <4>1, NodeIsNodeIn
    <3>4. Masked \in MountSet /\ mounts' = Append(mounts, Masked)
      BY <2>1, <2>2, <3>3 DEF Masked, Mount, MountSet, Kinds
    <3>5. Adds(Masked)
      BY <2>1, <2>2, <3>1, <3>2, <3>3, <3>4, Mounted DEF Masked
    <3> QED
      BY <2>1, <2>2, <3>5 DEF Effect
  <2>3. CASE Node(p) = "absent" /\ Advance /\ UNCHANGED <<host, mounts, made>>
    BY <2>1, <2>3, NodeIsNodeIn DEF Effect, Skips, Pops, Advance
  <2>4. CASE Fail
    BY <2>4 DEF Fail, Effect
  <2> QED
    BY <1>4, <2>2, <2>3, <2>4 DEF Mask
<1>5. ASSUME Pivot \/ Over \/ UNCHANGED vars PROVE Effect
  BY <1>5 DEF Pivot, Over, vars, Effect, Shape
<1>6. DEV \in Paths
  BY PathsAssumption
<1> QED
  BY <1>1, <1>2, <1>3, <1>4, <1>5, <1>6 DEF Next, Tmpfs, SetupDev, Doing

-----------------------------------------------------------------------------
(* The invariant is kept. *)

LEMMA Begins == Init => PlanInv
<1> SUFFICES ASSUME Init PROVE PlanInv
  OBVIOUS
<1>1. /\ plan \in AllPlans /\ given \in Hosts /\ given \in AllHosts /\ host = given
      /\ mounts = <<Root>> /\ made = {} /\ todo = Steps(plan) /\ status = "setup"
  BY PlansAssumption, HostsAssumption DEF Init, Root
<1>2. Root \in MountSet /\ Root.at = <<>> /\ Root.kind = "root"
  BY PathOrder DEF Root, MountSet, Kinds
<1>3. mounts \in Seq(MountSet) /\ Len(mounts) = 1 /\ mounts[1] = Root /\ DOMAIN mounts = {1}
      /\ Elems(mounts) = {Root}
  BY <1>1, <1>2 DEF Elems
<1>4. MountsOK(mounts)
  BY <1>2, <1>3 DEF MountsOK
<1>5. HostOK(host)
  BY <1>1 DEF HostOK, AllHosts
<1>6. VisibleTree(mounts, host, made)
  <2> SUFFICES ASSUME NEW p \in Paths PROVE NodeIn(mounts, host, made, p) = "absent"
    BY DEF VisibleTree
  <2>1. TopIn(mounts, p) = 1
    BY <1>3, <1>4, TopIs, PathOrder
  <2>2. p # <<>>
    BY PathOrder
  <2>3. MadeAt(made, 1, p) = "absent"
    BY <1>1 DEF MadeAt, TheNode
  <2> QED
    BY <1>2, <1>3, <2>1, <2>2, <2>3 DEF NodeIn
<1>7. World(mounts, host, made)
  BY <1>1, <1>2, <1>3, <1>4, <1>5, <1>6 DEF World, BindsShow, MadeOK
<1>8. todo \in Seq(StepSet) /\ Sorted(todo) /\ \A e \in StepSet : e \in Elems(todo) <=> Wanted(plan, e)
  BY <1>1, StepsAre
<1>9. Elems(todo) \subseteq StepSet
  BY <1>8 DEF Elems
<1>10. Shape
  BY <1>1, <1>7, <1>8 DEF Shape, Now
<1>11. InOrder
  <2>1. MountRank(Root) = 0
    BY <1>2, MountRankIs
  <2>2. \A e \in Elems(todo) : 0 <= Rank[e.op]
    BY <1>9, RankIs DEF StepSet
  <2> QED
    BY <1>2, <1>3, <1>8, <2>1, <2>2 DEF InOrder
<1>12. \A m \in Elems(mounts) : AsListed(m)
  BY <1>2, <1>3 DEF AsListed
<1>13. HostGrown
  BY <1>1 DEF HostGrown
<1> QED
  BY <1>8, <1>9, <1>10, <1>11, <1>12, <1>13 DEF PlanInv

LEMMA Kept ==
  ASSUME PlanInv, Pops, World(mounts', host', made'), HostGrows,
         Elems(mounts) \subseteq Elems(mounts'), InOrder',
         \A m \in Elems(mounts') : AsListed(m),
         \A e \in StepSet : e = Head(todo) => Served(e)',
         \A e \in StepSet : e.op = "deny" /\ Served(e) => Served(e)'
  PROVE  PlanInv'
<1>1. /\ plan' = plan /\ given' = given /\ status' = status /\ todo' = Tail(todo) /\ todo # <<>>
  BY DEF Pops
<1>2. /\ todo' \in Seq(StepSet) /\ Elems(todo) = {Head(todo)} \cup Elems(todo')
  BY <1>1, TailIs DEF PlanInv, Shape, InOrder
<1>3. Shape'
  BY <1>1, <1>2 DEF PlanInv, Shape, Now
<1>4. \A m \in Elems(mounts') : AsListed(m)'
  BY <1>1 DEF AsListed
<1>5. HostGrown'
  <2> SUFFICES ASSUME NEW p \in Paths
               PROVE  /\ given[p] # "absent" => host'[p] # "absent"
                      /\ host'[p] # "absent" /\ given[p] = "absent" =>
                           \E m \in Elems(mounts') : m.kind = "bind" /\ ~m.ro /\ IsPrefix(m.at, p)
    BY <1>1 DEF HostGrown
  <2>1. /\ HostNode(host, p) = "absent" <=> host[p] = "absent"
        /\ HostNode(host', p) = "absent" <=> host'[p] = "absent"
    BY DEF HostNode
  <2>2. HostNode(host, p) # "absent" => HostNode(host', p) = HostNode(host, p)
    BY DEF HostGrows
  <2>3. given[p] # "absent" => host[p] # "absent"
    BY DEF PlanInv, HostGrown
  <2>4. ASSUME host'[p] # "absent", given[p] = "absent"
        PROVE \E m \in Elems(mounts') : m.kind = "bind" /\ ~m.ro /\ IsPrefix(m.at, p)
    <3>1. CASE host[p] # "absent"
      BY <2>4, <3>1 DEF PlanInv, HostGrown
    <3>2. CASE host[p] = "absent"
      <4>1. PICK i \in DOMAIN mounts :
              mounts[i].kind = "bind" /\ ~mounts[i].ro /\ IsPrefix(mounts[i].at, p)
        BY <2>1, <2>4, <3>2 DEF HostGrows
      <4>2. mounts[i] \in Elems(mounts')
        BY DEF Elems
      <4> QED
        BY <4>1, <4>2
    <3> QED
      BY <3>1, <3>2
  <2> QED
    BY <2>1, <2>2, <2>3, <2>4
<1>6. \A e \in StepSet : Served(e) => Served(e)'
  <2> SUFFICES ASSUME NEW e \in StepSet, Served(e), e.op # "deny" PROVE Served(e)'
    OBVIOUS
  <2>1. ASSUME e.op \in {"read_only", "read_write"}
        PROVE  \/ \E m \in Elems(mounts') :
                    m.kind = "bind" /\ m.at = e.at /\ m.ro = (e.op = "read_only")
               \/ given'[e.at] = "absent" \/ IsStrictPrefix(STAGE, e.at)
    <3>1. \/ \E m \in Elems(mounts) :
               m.kind = "bind" /\ m.at = e.at /\ m.ro = (e.op = "read_only")
          \/ given[e.at] = "absent" \/ IsStrictPrefix(STAGE, e.at)
      BY <2>1, Zenon DEF Served
    <3> QED
      BY <1>1, <3>1, Zenon
  <2>2. ASSUME e.op \in {"tmpfs", "dev"}
        PROVE  \E m \in Elems(mounts') : m.kind = "tmpfs" /\ m.at = e.at
    BY <2>2 DEF Served
  <2> QED
    BY <2>1, <2>2, Zenon DEF Served
<1>7. \A e \in StepSet : Wanted(plan', e) => e \in Elems(todo') \/ Served(e)'
  <2> SUFFICES ASSUME NEW e \in StepSet, Wanted(plan, e) PROVE e \in Elems(todo') \/ Served(e)'
    BY <1>1
  <2>1. e \in Elems(todo) \/ Served(e)
    BY DEF PlanInv
  <2> QED
    BY <1>2, <1>6, <2>1
<1>8. \A e \in Elems(todo') : Wanted(plan', e)
  BY <1>1, <1>2 DEF PlanInv
<1> QED
  BY <1>3, <1>4, <1>5, <1>7, <1>8 DEF PlanInv, Elems

\* Only the step "deny" is done when one has been done.
LEMMA DenyLast ==
  ASSUME PlanInv, Pops, Head(todo).op # "deny", NEW e \in StepSet, e.op = "deny"
  PROVE  ~Served(e)
<1>1. Head(todo) \in Elems(todo)
  BY Heads DEF PlanInv, Pops
<1> QED
  BY <1>1 DEF Served

LEMMA AddKeeps ==
  ASSUME PlanInv, NEW x, Adds(x), AsListed(x),
         MountRank(x) <= Rank[Head(todo).op], MountRank(x) \in Nat,
         x.kind = "proc" => Head(todo).op = "proc",
         \A m \in Elems(mounts) : MountRank(m) <= MountRank(x),
         \A e \in StepSet : e = Head(todo) => Served(e)',
         \A e \in StepSet : e.op = "deny" /\ Served(e) => Served(e)'
  PROVE  PlanInv'
<1>1. Pops /\ World(mounts', host', made') /\ HostGrows /\ mounts' = Append(mounts, x)
  BY DEF Adds
<1>2. /\ DOMAIN mounts' = DOMAIN mounts \cup {Len(mounts) + 1}
      /\ \A i \in DOMAIN mounts : mounts'[i] = mounts[i]
      /\ mounts'[Len(mounts) + 1] = x
      /\ DOMAIN mounts = 1..Len(mounts) /\ Len(mounts) \in Nat
  <2>1. MountsOK(mounts)
    BY DEF PlanInv, Shape, Now, World
  <2> QED
    BY <1>1, <2>1, TopAfterMount DEF Adds, MountsOK
<1>3. Elems(mounts') = Elems(mounts) \cup {x}
  BY <1>2 DEF Elems
<1>4. /\ todo # <<>> /\ todo' = Tail(todo)
      /\ Sorted(todo') /\ Head(todo) \in StepSet /\ Elems(todo') \subseteq Elems(todo)
      /\ Elems(todo) \subseteq StepSet
      /\ \A e \in Elems(todo') : Before(Head(todo), e)
  BY <1>1, TailIs DEF Pops, PlanInv, Shape, InOrder
<1>5. InOrder'
  <2>1. \A m, e : m \in Elems(mounts') /\ e \in Elems(todo') =>
          MountRank(m) <= Rank[e.op] /\ (e.op = "proc" => m.kind # "proc")
    <3> SUFFICES ASSUME NEW m, NEW e, m \in Elems(mounts'), e \in Elems(todo')
                 PROVE  MountRank(m) <= Rank[e.op] /\ (e.op = "proc" => m.kind # "proc")
      OBVIOUS
    <3>1. CASE m \in Elems(mounts)
      BY <1>4, <3>1 DEF PlanInv, InOrder
    <3>2. CASE m = x
      <4>1. Before(Head(todo), e) /\ Rank[Head(todo).op] \in Nat /\ Rank[e.op] \in Nat
        BY <1>4, RankIs DEF StepSet
      <4> QED
        BY <3>2, <4>1 DEF Before
    <3> QED
      BY <1>3, <3>1, <3>2
  <2>2. \A i, j \in DOMAIN mounts' : i < j => MountRank(mounts'[i]) <= MountRank(mounts'[j])
    <3> SUFFICES ASSUME NEW i \in DOMAIN mounts', NEW j \in DOMAIN mounts', i < j
                 PROVE  MountRank(mounts'[i]) <= MountRank(mounts'[j])
      OBVIOUS
    <3>1. i \in DOMAIN mounts /\ mounts'[i] = mounts[i]
      BY <1>2
    <3>2. CASE j \in DOMAIN mounts
      BY <1>2, <3>1, <3>2 DEF PlanInv, InOrder
    <3>3. CASE j = Len(mounts) + 1
      BY <1>2, <3>1, <3>3 DEF Elems
    <3> QED
      BY <1>2, <3>2, <3>3
  <2> QED
    BY <1>4, <2>1, <2>2 DEF InOrder, Elems, MountRank
<1>6. \A m \in Elems(mounts') : AsListed(m)
  BY <1>3 DEF PlanInv
<1> QED
  BY <1>1, <1>3, <1>5, <1>6, Kept

LEMMA SkipKeeps ==
  ASSUME PlanInv, Pops, UNCHANGED mounts, World(mounts', host', made'), HostGrows,
         \A e \in StepSet : e = Head(todo) => Served(e)',
         \A e \in StepSet : e.op = "deny" /\ Served(e) => Served(e)'
  PROVE  PlanInv'
<1>1. /\ todo # <<>> /\ todo' = Tail(todo) /\ Sorted(todo') /\ Elems(todo') \subseteq Elems(todo)
  BY TailIs DEF Pops, PlanInv, Shape, InOrder
<1>2. InOrder'
  <2>1. \A m, e : m \in Elems(mounts) /\ e \in Elems(todo') =>
          MountRank(m) <= Rank[e.op] /\ (e.op = "proc" => m.kind # "proc")
    BY <1>1 DEF PlanInv, InOrder
  <2>2. \A i, j \in DOMAIN mounts : i < j => MountRank(mounts[i]) <= MountRank(mounts[j])
    BY DEF PlanInv, InOrder
  <2> QED
    BY <1>1, <2>1, <2>2 DEF InOrder, Elems
<1>3. Elems(mounts') = Elems(mounts)
  OBVIOUS
<1> QED
  BY <1>2, <1>3, Kept DEF PlanInv

\* Masking hides; it uncovers nothing.
LEMMA CoveredKept ==
  ASSUME Now, NEW d \in Paths, Covered(d),
         UNCHANGED <<host, made>>, UNCHANGED mounts \/ (Adds(Masked) /\ Masked.node # "absent")
  PROVE  Covered(d)'
<1>1. CASE UNCHANGED mounts
  BY <1>1 DEF Covered
<1>2. CASE Adds(Masked) /\ Masked.node # "absent"
  <2>1. /\ Masked \in MountSet /\ Masked.at \in Paths /\ mounts' = Append(mounts, Masked)
        /\ Masked.kind = "mask" /\ (Masked.node = "dir" => Masked.ro)
        /\ Masked.node = NodeIn(mounts, host, made, Masked.at)
    BY <1>2 DEF Adds, Masked
  <2> DEFINE x == Masked
  <2> HIDE DEF x
  <2>2. \A p \in Anywhere :
          /\ ~IsPrefix(x.at, p) => /\ NodeIn(mounts', host, made, p) = NodeIn(mounts, host, made, p)
                                   /\ TopIn(mounts', p) = TopIn(mounts, p)
                                   /\ mounts'[TopIn(mounts', p)] = mounts[TopIn(mounts, p)]
          /\ IsPrefix(x.at, p) => mounts'[TopIn(mounts', p)].kind = "mask"
    <3>1. x \in MountSet /\ x.at \in Paths /\ mounts' = Append(mounts, x)
          /\ x.kind = "mask" /\ (x.node = "dir" => x.ro)
          /\ x.node = NodeIn(mounts, host, made, x.at)
      BY <2>1 DEF x
    <3>2. x.kind # "root" /\ x.kind # "bind"
      BY <3>1
    <3>3. \A p \in Anywhere :
              /\ ~IsPrefix(x.at, p) => NodeIn(mounts', host, made, p) = NodeIn(mounts, host, made, p)
              /\ IsPrefix(x.at, p) => mounts'[TopIn(mounts', p)] = x
      <4>1. World(mounts, host, made) /\ NodeIn(mounts, host, made, x.at) = x.node
        BY <3>1 DEF Now
      <4>2. /\ x \in MountSet /\ x.at \in Paths /\ x.kind # "root"
            /\ (x.kind = "mask" /\ x.node = "dir" => x.ro)
            /\ (x.kind = "bind" => HostNode(host, x.at) = x.node)
        BY <3>1, <3>2
      <4>3. \A p \in Anywhere :
              /\ ~IsPrefix(x.at, p) =>
                   NodeIn(Append(mounts, x), host, made, p) = NodeIn(mounts, host, made, p)
              /\ IsPrefix(x.at, p) => Append(mounts, x)[TopIn(Append(mounts, x), p)] = x
        BY <4>1, <4>2, MountKeepsWorld
      <4> QED
        BY <3>1, <4>3
    <3>4. MountsOK(mounts)
      BY DEF Now, World
    <3>5. /\ \A i \in DOMAIN mounts : mounts'[i] = mounts[i]
          /\ \A p \in Anywhere : ~IsPrefix(x.at, p) => TopIn(mounts', p) = TopIn(mounts, p)
      BY <3>1, <3>2, <3>4, TopAfterMount
    <3>6. \A p \in Anywhere : TopIn(mounts, p) \in DOMAIN mounts
      BY <3>4, TopIs
    <3> QED
      BY <3>1, <3>3, <3>5, <3>6
  <2>3. ASSUME NEW p \in Paths, IsPrefix(d, p)
        PROVE  NodeIn(mounts', host, made, p) = "absent" \/ mounts'[TopIn(mounts', p)].kind = "mask"
    <3>1. p \in Anywhere
      BY PathOrder
    <3>2. NodeIn(mounts, host, made, p) = "absent" \/ mounts[TopIn(mounts, p)].kind = "mask"
      BY <2>3 DEF Covered
    <3> QED
      BY <2>2, <3>1, <3>2
  <2> QED
    BY <2>3 DEF Covered
<1> QED
  BY <1>1, <1>2

\* After its step a denied path is covered.
LEMMA CoveredNow ==
  ASSUME Now, NEW d \in Paths, d = Head(todo).at, UNCHANGED <<host, made>>,
         \/ UNCHANGED mounts /\ NodeIn(mounts, host, made, d) = "absent"
         \/ Adds(Masked)
  PROVE  Covered(d)'
<1>1. d \in Anywhere
  BY PathOrder
<1>2. CASE UNCHANGED mounts /\ NodeIn(mounts, host, made, d) = "absent"
  <2>1. ASSUME NEW p \in Paths, IsPrefix(d, p) PROVE NodeIn(mounts, host, made, p) = "absent"
    <3>1. p = d \/ d \in Prefixes(p) \ {p}
      BY <1>1, <2>1, PathOrder
    <3> QED
      BY <1>2, <3>1 DEF Now, World, VisibleTree
  <2> QED
    BY <1>2, <2>1 DEF Covered
<1>3. CASE Adds(Masked)
  <2>1. /\ Masked \in MountSet /\ Masked.at = d /\ mounts' = Append(mounts, Masked)
        /\ Masked.kind = "mask" /\ (Masked.node = "dir" => Masked.ro)
    BY <1>3 DEF Adds, Masked
  <2> DEFINE x == Masked
  <2>2. \A p \in Anywhere : IsPrefix(d, p) => mounts'[TopIn(mounts', p)].kind = "mask"
    <3>1. x \in MountSet /\ x.at = d /\ mounts' = Append(mounts, x)
          /\ x.kind = "mask" /\ (x.node = "dir" => x.ro)
      BY <2>1
    <3> HIDE DEF x
    <3>2. MountsOK(mounts) /\ x.kind # "root"
      BY <3>1 DEF Now, World
    <3>3. /\ mounts'[Len(mounts) + 1] = x
          /\ \A p \in Anywhere : IsPrefix(x.at, p) => TopIn(mounts', p) = Len(mounts) + 1
      BY <3>1, <3>2, TopAfterMount
    <3> QED
      BY <3>1, <3>3
  <2> QED
    BY <2>2, PathOrder DEF Covered
<1> QED
  BY <1>2, <1>3

LEMMA Appended ==
  ASSUME NEW ms, MountsOK(ms), NEW x
  PROVE  x \in Elems(Append(ms, x))
<1>1. /\ Append(ms, x)[Len(ms) + 1] = x /\ Len(ms) + 1 \in DOMAIN Append(ms, x)
  BY DEF MountsOK
<1> QED
  BY <1>1 DEF Elems

LEMMA EffectKeeps ==
  ASSUME PlanInv, Effect
  PROVE  PlanInv'
<1> DEFINE s == Head(todo)
<1>0. ASSUME Pops
      PROVE /\ s \in StepSet /\ s \in Elems(todo) /\ Wanted(plan, s) /\ s.op \in Ops /\ s.at \in Paths
            /\ \A m \in Elems(mounts) :
                 MountRank(m) <= Rank[s.op] /\ (s.op = "proc" => m.kind # "proc")
  <2>1. s \in StepSet /\ s \in Elems(todo)
    BY <1>0, Heads DEF Pops, PlanInv
  <2> QED
    BY <2>1 DEF PlanInv, InOrder, StepSet
<1>1. CASE /\ UNCHANGED <<plan, given, host, mounts, made, todo>>
           /\ status' \in {"setup", "ready", "failed"}
           /\ status' = "ready" => todo = <<>> \/ status = "ready"
  <2>1. Shape' /\ InOrder' /\ HostGrown'
    BY <1>1 DEF PlanInv, Shape, Now, InOrder, HostGrown
  <2>2. \A m : AsListed(m) => AsListed(m)'
    BY <1>1 DEF AsListed
  <2>3. \A e \in StepSet : Served(e) => Served(e)'
    <3>1. \A d : Covered(d) => Covered(d)'
      BY <1>1 DEF Covered
    <3> QED
      BY <1>1, <3>1 DEF Served
  <2>4. (\A m \in Elems(mounts') : AsListed(m)') /\ (\A e \in Elems(todo') : Wanted(plan', e))
    BY <1>1, <2>2 DEF PlanInv
  <2>5. \A e \in StepSet : Wanted(plan', e) => e \in Elems(todo') \/ Served(e)'
    BY <1>1, <2>3 DEF PlanInv
  <2> QED
    BY <2>1, <2>4, <2>5 DEF PlanInv, Elems
<1>2. CASE s.op \in {"read_only", "read_write"} /\ Skips /\ Source(s.at) = "absent"
  <2>1. Pops /\ UNCHANGED <<host, mounts, made>>
    BY <1>2 DEF Skips
  <2>2. World(mounts', host', made') /\ HostGrows
    <3>1. host' = host /\ made' = made /\ mounts' = mounts /\ World(mounts, host, made)
      BY <2>1 DEF PlanInv, Shape, Now
    <3> QED
      BY <3>1 DEF HostGrows
  <2>3. given[s.at] = "absent" \/ IsStrictPrefix(STAGE, s.at)
    <3>1. ASSUME ~IsStrictPrefix(STAGE, s.at) PROVE given[s.at] = "absent"
      <4>1. HostNode(host, s.at) = "absent"
        BY <1>2, <3>1, NodeIsNodeIn DEF Source
      <4>2. host[s.at] = "absent"
        BY <4>1 DEF HostNode
      <4> QED
        BY <1>0, <2>1, <4>2 DEF PlanInv, HostGrown
    <3> QED
      BY <3>1
  <2>4. \A e \in StepSet : e = s => Served(e)'
    <3> SUFFICES ASSUME NEW e \in StepSet, e = s PROVE Served(e)'
      OBVIOUS
    <3>1. given' = given /\ e.op \in {"read_only", "read_write"}
      BY <1>2, <2>1 DEF Pops
    <3> QED
      BY <2>3, <3>1 DEF Served
  <2>5. \A e \in StepSet : e.op = "deny" /\ Served(e) => Served(e)'
    BY <1>2, <2>1, DenyLast
  <2> QED
    BY <2>1, <2>2, <2>4, <2>5, SkipKeeps
<1>3. ASSUME s.op \in {"read_only", "read_write"}, Source(s.at) # "absent",
             NEW node \in {"dir", "file"}, Adds(Bound(s.op = "read_only", node))
      PROVE PlanInv'
  <2> DEFINE x == Bound(s.op = "read_only", node)
  <2>1. Pops /\ mounts' = Append(mounts, x)
    BY <1>3 DEF Adds
  <2>2. x.kind = "bind" /\ x.at = s.at /\ x.ro = (s.op = "read_only")
    BY DEF Bound
  <2>3. AsListed(x)
    <3>1. ~IsStrictPrefix(STAGE, s.at)
      BY <1>3 DEF Source
    <3>2. s.op = "read_only" => Listed(plan.read_only, s.at)
      BY <1>0, <2>1 DEF Wanted
    <3>3. s.op # "read_only" => Listed(plan.read_write, s.at)
      BY <1>0, <1>3, <2>1 DEF Wanted
    <3> HIDE DEF x
    <3> QED
      BY <2>2, <3>1, <3>2, <3>3 DEF AsListed
  <2>4. MountRank(x) = Rank[s.op] /\ MountRank(x) \in Nat
    <3>1. MountRank(x) = IF x.ro THEN 1 ELSE 2
      BY <2>2, MountRankIs
    <3> HIDE DEF x
    <3> QED
      <4>1. CASE s.op = "read_only"
        <5>1. x.ro = TRUE
          BY <2>2, <4>1
        <5>2. MountRank(x) = 1
          BY <3>1, <5>1
        <5>3. Rank[s.op] = 1
          BY <4>1, RankIs
        <5> QED
          BY <5>2, <5>3
      <4>2. CASE s.op = "read_write"
        <5>1. x.ro = FALSE
          BY <2>2, <4>2
        <5>2. MountRank(x) = 2
          BY <3>1, <5>1
        <5>3. Rank[s.op] = 2
          BY <4>2, RankIs
        <5> QED
          BY <5>2, <5>3
      <4> QED
        BY <1>3, <4>1, <4>2
  <2>5. x \in Elems(mounts')
    BY <2>1, Appended DEF PlanInv, Shape, Now, World
  <2> HIDE DEF x
  <2>6. \A e \in StepSet : e = s => Served(e)'
    <3> SUFFICES ASSUME NEW e \in StepSet, e = s PROVE Served(e)'
      OBVIOUS
    <3>1. e.op \in {"read_only", "read_write"} /\ x.at = e.at /\ x.ro = (e.op = "read_only")
      BY <1>3, <2>2
    <3>2. \E m \in Elems(mounts') : m.kind = "bind" /\ m.at = e.at /\ m.ro = (e.op = "read_only")
      BY <2>2, <2>5, <3>1, Zenon
    <3> QED
      BY <3>1, <3>2 DEF Served
  <2>7. \A e \in StepSet : e.op = "deny" /\ Served(e) => Served(e)'
    BY <1>3, <2>1, DenyLast
  <2>8. \A m \in Elems(mounts) : MountRank(m) <= MountRank(x)
    BY <1>0, <2>1, <2>4
  <2> QED
    BY <1>3, <2>2, <2>3, <2>4, <2>6, <2>7, <2>8, AddKeeps DEF x
<1>4. CASE s.op \in {"tmpfs", "dev"} /\ Adds(Fresh)
  <2> DEFINE x == Fresh
  <2>1. Pops /\ mounts' = Append(mounts, x)
    BY <1>4 DEF Adds
  <2>2. x.kind = "tmpfs" /\ x.at = s.at /\ ~x.ro
    BY DEF Fresh
  <2>3. AsListed(x)
    <3>1. Listed(plan.tmpfs, s.at) \/ (plan.minimal_dev /\ s.at = DEV)
      BY <1>0, <1>4, <2>1 DEF Wanted
    <3> QED
      BY <2>2, <3>1 DEF AsListed
  <2>4. MountRank(x) = 3 /\ 3 <= Rank[s.op] /\ Rank[s.op] <= 4
    BY <1>4, <2>2, MountRankIs, RankIs
  <2>5. x \in Elems(mounts')
    BY <2>1, Appended DEF PlanInv, Shape, Now, World
  <2> HIDE DEF x
  <2>6. \A e \in StepSet : e = s => Served(e)'
    <3> SUFFICES ASSUME NEW e \in StepSet, e = s PROVE Served(e)'
      OBVIOUS
    <3>1. e.op \in {"tmpfs", "dev"} /\ x.at = e.at
      BY <1>4, <2>2
    <3>2. \E m \in Elems(mounts') : m.kind = "tmpfs" /\ m.at = e.at
      BY <2>2, <2>5, <3>1
    <3> QED
      BY <3>1, <3>2 DEF Served
  <2>7. \A e \in StepSet : e.op = "deny" /\ Served(e) => Served(e)'
    BY <1>4, <2>1, DenyLast
  <2>8. \A m \in Elems(mounts) : MountRank(m) <= 3
    <3> SUFFICES ASSUME NEW m \in Elems(mounts) PROVE MountRank(m) <= 3
      OBVIOUS
    <3>1. m.kind \in Kinds /\ m.ro \in BOOLEAN
      BY MountFields DEF Elems, PlanInv, Shape, Now, World
    <3>2. MountRank(m) <= Rank[s.op] /\ Rank[s.op] <= 4
      BY <1>0, <2>1, <2>4
    <3> QED
      BY <1>4, <3>1, <3>2, MountRankIs, RankIs DEF Kinds
  <2> QED
    BY <1>4, <2>2, <2>3, <2>4, <2>6, <2>7, <2>8, AddKeeps DEF x
<1>5. CASE s.op = "proc" /\ Adds(Procfs)
  <2> DEFINE x == Procfs
  <2>1. Pops /\ mounts' = Append(mounts, x)
    BY <1>5 DEF Adds
  <2>2. x.kind = "proc" /\ x.at = PROC
    BY DEF Procfs
  <2>3. AsListed(x) /\ MountRank(x) = 5 /\ Rank[s.op] = 5
    BY <1>5, <2>2, MountRankIs, RankIs DEF AsListed
  <2> HIDE DEF x
  <2>4. \A e \in StepSet : e = s => Served(e)'
    BY <1>5 DEF Served
  <2>5. \A e \in StepSet : e.op = "deny" /\ Served(e) => Served(e)'
    BY <1>5, <2>1, DenyLast
  <2>6. \A m \in Elems(mounts) : MountRank(m) <= MountRank(x)
    BY <1>0, <2>1, <2>3
  <2> QED
    BY <1>5, <2>2, <2>3, <2>4, <2>5, <2>6, AddKeeps DEF x
<1>6. CASE s.op = "proc" /\ Pops /\ UNCHANGED mounts /\ World(mounts', host', made') /\ HostGrows
  <2>1. \A e \in StepSet : e = s => Served(e)'
    BY <1>6 DEF Served
  <2>2. \A e \in StepSet : e.op = "deny" /\ Served(e) => Served(e)'
    BY <1>6, DenyLast
  <2> QED
    BY <1>6, <2>1, <2>2, SkipKeeps
<1>7. ASSUME s.op = "deny", Pops, UNCHANGED <<host, made>>,
             \/ UNCHANGED mounts /\ NodeIn(mounts, host, made, s.at) = "absent"
             \/ Adds(Masked)
      PROVE  \A e \in StepSet : e = s \/ (e.op = "deny" /\ Served(e)) => Served(e)'
  <2> SUFFICES ASSUME NEW e \in StepSet, e = s \/ (e.op = "deny" /\ Served(e)) PROVE Served(e)'
    OBVIOUS
  <2>1. e.op = "deny" /\ e.at \in Paths /\ Now
    BY <1>7 DEF StepSet, PlanInv, Shape
  <2>2. \A f \in Elems(todo') : f.op = "deny"
    <3>1. /\ todo' = Tail(todo) /\ Elems(todo) \subseteq StepSet
          /\ \A f \in Elems(todo') : f \in Elems(todo) /\ Before(s, f)
      BY <1>7, TailIs DEF Pops, PlanInv, Shape, InOrder
    <3>2. ASSUME NEW f \in Elems(todo') PROVE f.op = "deny"
      <4>1. f.op \in Ops /\ Rank[f.op] >= 6
        BY <1>7, <3>1, RankIs DEF Before, StepSet
      <4> QED
        BY <4>1, RankIs DEF Ops
    <3> QED
      BY <3>2
  <2>3. Covered(e.at)'
    <3>1. CASE e = s
      <4>1. e.at = Head(todo).at
        BY <3>1
      <4> QED
        BY <1>7, <2>1, <4>1, CoveredNow
    <3>2. CASE Served(e)
      <4>1. Covered(e.at)
        BY <2>1, <3>2 DEF Served
      <4>2. Adds(Masked) => Masked.node # "absent"
        BY DEF Adds, MountSet
      <4>3. UNCHANGED mounts \/ (Adds(Masked) /\ Masked.node # "absent")
        BY <1>7, <4>2
      <4>4. UNCHANGED <<host, made>>
        BY <1>7
      <4> HIDE DEF s
      <4> QED
        BY <2>1, <4>1, <4>3, <4>4, CoveredKept
    <3> QED
      BY <3>1, <3>2
  <2> QED
    BY <2>1, <2>2, <2>3 DEF Served, Elems
<1>8. CASE s.op = "deny" /\ Skips /\ NodeIn(mounts, host, made, s.at) = "absent"
  <2>1. Pops /\ UNCHANGED <<host, mounts, made>>
    BY <1>8 DEF Skips
  <2>2. World(mounts', host', made') /\ HostGrows
    <3>1. host' = host /\ made' = made /\ mounts' = mounts /\ World(mounts, host, made)
      BY <2>1 DEF PlanInv, Shape, Now
    <3> QED
      BY <3>1 DEF HostGrows
  <2> QED
    BY <1>7, <1>8, <2>1, <2>2, SkipKeeps
<1>9. CASE s.op = "deny" /\ Adds(Masked) /\ UNCHANGED <<host, made>>
  <2> DEFINE x == Masked
  <2>1. Pops /\ mounts' = Append(mounts, x)
    BY <1>9 DEF Adds
  <2>2. x.kind = "mask" /\ x.at = s.at
    BY DEF Masked
  <2>3. AsListed(x) /\ MountRank(x) = 6 /\ Rank[s.op] = 6
    <3>1. Listed(plan.deny, s.at)
      BY <1>0, <1>9, <2>1 DEF Wanted
    <3> QED
      BY <1>9, <2>2, <3>1, MountRankIs, RankIs DEF AsListed
  <2>4. \A e \in StepSet : e = s \/ (e.op = "deny" /\ Served(e)) => Served(e)'
    BY <1>7, <1>9, <2>1
  <2> HIDE DEF x
  <2>6. \A m \in Elems(mounts) : MountRank(m) <= MountRank(x)
    BY <1>0, <2>1, <2>3
  <2> QED
    BY <1>9, <2>2, <2>3, <2>4, <2>6, AddKeeps DEF x
<1> QED
  BY <1>1, <1>2, <1>3, <1>4, <1>5, <1>6, <1>8, <1>9 DEF Effect

\* Each step of setup() leaves what the plan asks for, in the plan's order, and
\* nothing of the host that was there is lost.
THEOREM PlanIsFollowed == Spec => []PlanInv
<1>1. PlanInv /\ [Next]_vars => PlanInv'
  BY Effects, EffectKeeps DEF PlanInv
<1> QED
  BY Begins, <1>1, PTL DEF Spec

-----------------------------------------------------------------------------
(* What the command finds at a path, once the root is ready. *)

AtTop(p) == mounts[TopIn(mounts, p)]

LEMMA AtTopIs ==
  ASSUME PlanInv, NEW p \in Paths
  PROVE  /\ AtTop(p) \in Elems(mounts) /\ AsListed(AtTop(p)) /\ IsPrefix(AtTop(p).at, p)
         /\ AtTop(p).at \in Anywhere /\ AtTop(p).kind \in Kinds /\ AtTop(p).ro \in BOOLEAN
         /\ AtTop(p).node \in {"dir", "file"} /\ (AtTop(p).kind # "root" => AtTop(p).at \in Paths)
         /\ MountRank(AtTop(p)) \in Nat
<1>1. p \in Anywhere /\ MountsOK(mounts)
  BY PathOrder DEF PlanInv, Shape, Now, World
<1>2. TopIn(mounts, p) \in DOMAIN mounts /\ IsPrefix(AtTop(p).at, p)
  BY <1>1, TopIs DEF AtTop
<1>3. AtTop(p) \in Elems(mounts)
  BY <1>2 DEF AtTop, Elems
<1>4. /\ AtTop(p).at \in Anywhere /\ AtTop(p).kind \in Kinds /\ AtTop(p).ro \in BOOLEAN
      /\ AtTop(p).node \in {"dir", "file"}
      /\ TopIn(mounts, p) # 1 => AtTop(p).at \in Paths
  BY <1>1, <1>2, MountFields DEF AtTop
<1>5. TopIn(mounts, p) = 1 => AtTop(p).kind = "root"
  BY <1>1 DEF AtTop, MountsOK, Root
<1>6. MountRank(AtTop(p)) \in Nat
  BY <1>4, MountRankIs DEF Kinds
<1> QED
  BY <1>2, <1>3, <1>4, <1>5, <1>6 DEF PlanInv

\* A mount at or above a path comes no later than the one on top of it.
LEMMA NoLater ==
  ASSUME PlanInv, NEW p \in Paths, NEW m \in Elems(mounts), IsPrefix(m.at, p)
  PROVE  MountRank(m) <= MountRank(AtTop(p))
<1>1. PICK i \in DOMAIN mounts : m = mounts[i]
  BY DEF Elems
<1>2. p \in Anywhere /\ MountsOK(mounts) /\ DOMAIN mounts \subseteq Nat
  BY PathOrder DEF PlanInv, Shape, Now, World, MountsOK
<1>3. TopIn(mounts, p) \in DOMAIN mounts /\ i <= TopIn(mounts, p)
  BY <1>1, <1>2, TopIs
<1>4. CASE i = TopIn(mounts, p)
  BY <1>1, <1>4, AtTopIs DEF AtTop
<1>5. CASE i < TopIn(mounts, p)
  BY <1>1, <1>3, <1>5 DEF AtTop, PlanInv, InOrder
<1> QED
  BY <1>2, <1>3, <1>4, <1>5

\* Every step of the plan has been done.
LEMMA AllServed ==
  ASSUME PlanInv, status = "ready", NEW op \in Ops, NEW a \in Paths,
         Wanted(plan, [op |-> op, at |-> a])
  PROVE  Served([op |-> op, at |-> a])
<1>1. Elems(todo) = {}
  BY DEF PlanInv, Shape, Elems
<1>2. [op |-> op, at |-> a] \in StepSet
  BY DEF StepSet
<1> QED
  BY <1>1, <1>2 DEF PlanInv

LEMMA UnderIs ==
  ASSUME PlanInv, NEW p
  PROVE  /\ Under(p, plan.read_only) <=>
              \E a \in Paths : Listed(plan.read_only, a) /\ IsPrefix(a, p)
         /\ Under(p, plan.read_write) <=>
              \E a \in Paths : Listed(plan.read_write, a) /\ IsPrefix(a, p)
         /\ Under(p, plan.tmpfs) <=> \E a \in Paths : Listed(plan.tmpfs, a) /\ IsPrefix(a, p)
         /\ Under(p, plan.deny) <=> \E a \in Paths : Listed(plan.deny, a) /\ IsPrefix(a, p)
         /\ Under(p, plan.read_only \o plan.read_write) <=>
              Under(p, plan.read_only) \/ Under(p, plan.read_write)
<1>1. /\ plan.read_only \in Seq(Paths) /\ plan.read_write \in Seq(Paths)
      /\ plan.tmpfs \in Seq(Paths) /\ plan.deny \in Seq(Paths)
  BY DEF PlanInv, Shape, AllPlans
<1>2. \A list \in Seq(Paths) :
        Under(p, list) <=> \E a \in Paths : Listed(list, a) /\ IsPrefix(a, p)
  BY DEF Under, Listed
<1>3. ASSUME NEW s \in Seq(Paths), NEW t \in Seq(Paths)
      PROVE  Under(p, s \o t) <=> Under(p, s) \/ Under(p, t)
  <2>1. /\ DOMAIN s = 1..Len(s) /\ DOMAIN t = 1..Len(t) /\ DOMAIN (s \o t) = 1..Len(s) + Len(t)
        /\ Len(s) \in Nat /\ Len(t) \in Nat
        /\ \A i \in 1..Len(s) + Len(t) : (s \o t)[i] = IF i <= Len(s) THEN s[i] ELSE t[i - Len(s)]
    OBVIOUS
  <2>2. Under(p, s \o t) => Under(p, s) \/ Under(p, t)
    BY <2>1 DEF Under
  <2>3. Under(p, s) => Under(p, s \o t)
    BY <2>1 DEF Under
  <2>4. ASSUME Under(p, t) PROVE Under(p, s \o t)
    <3>1. PICK i \in DOMAIN t : IsPrefix(t[i], p)
      BY <2>4 DEF Under
    <3>2. i + Len(s) \in DOMAIN (s \o t) /\ (s \o t)[i + Len(s)] = t[i]
      BY <2>1
    <3> QED
      BY <3>1, <3>2 DEF Under
  <2> QED
    BY <2>2, <2>3, <2>4
<1> QED
  BY <1>1, <1>2, <1>3


\* A bind mount shows nothing beneath the staging directory.
LEMMA NotStaged ==
  ASSUME PlanInv, NEW p \in Paths, AtTop(p).kind = "bind"
  PROVE  ~IsStrictPrefix(STAGE, p)
<1> DEFINE a == AtTop(p).at
<1>1. a \in Paths /\ IsPrefix(a, p) /\ ~IsStrictPrefix(STAGE, a)
  BY AtTopIs DEF AsListed
<1>2. a # STAGE
  <2>1. plan.read_only \in Seq(Paths \ {STAGE}) /\ plan.read_write \in Seq(Paths \ {STAGE})
    BY DEF PlanInv, Shape, AllPlans
  <2>2. Listed(plan.read_only, a) \/ Listed(plan.read_write, a)
    BY AtTopIs DEF AsListed
  <2> HIDE DEF a
  <2> QED
    BY <2>1, <2>2 DEF Listed
<1> HIDE DEF a
<1>3. /\ STAGE \in Paths /\ a \in Seq(STRING) /\ p \in Seq(STRING) /\ STAGE \in Seq(STRING)
      /\ a # <<>>
  BY <1>1, PathsAssumption
<1> SUFFICES ASSUME IsPrefix(STAGE, p) PROVE FALSE
  BY DEF IsStrictPrefix
<1>4. IsPrefix(a, STAGE)
  BY <1>1, <1>2, <1>3, PrefixOrder DEF IsStrictPrefix
<1>5. Len(a) <= 1 /\ Len(a) # 0 /\ a[1] = STAGE[1] /\ Len(STAGE) = 1
  <2>1. Len(STAGE) = 1
    BY DEF STAGE
  <2>2. Len(a) # 0 /\ Len(a) \in Nat
    BY <1>3
  <2>3. Len(a) <= Len(STAGE) /\ \A j \in 1..Len(a) : a[j] = STAGE[j]
    BY <1>3, <1>4, PrefixIs
  <2> QED
    BY <2>1, <2>2, <2>3
<1>6. a = STAGE
  <2>1. Len(a) = Len(STAGE) /\ \A j \in 1..Len(a) : a[j] = STAGE[j]
    BY <1>3, <1>5
  <2> QED
    BY <1>3, <2>1, SeqEqual
<1> QED
  BY <1>2, <1>6

\* What a bind mount shows is on the host, and so is all above it.
LEMMA OnHost ==
  ASSUME PlanInv, NEW p \in Paths, AtTop(p).kind = "bind",
         NodeIn(mounts, host, made, p) # "absent", NEW q \in Paths, IsPrefix(q, p)
  PROVE  host[q] # "absent"
<1>0. p \in Anywhere /\ q \in Anywhere /\ q # <<>>
  BY PathOrder
<1>1. TopIn(mounts, p) \in DOMAIN mounts
  BY <1>0, TopIs DEF PlanInv, Shape, Now, World
<1>2. HostOK(host) /\ BindsShow(mounts, host)
  BY DEF PlanInv, Shape, Now, World
<1>3. HostNode(host, p) # "absent"
  <2>1. CASE p = AtTop(p).at
    <3>1. HostNode(host, AtTop(p).at) = AtTop(p).node
      BY <1>1, <1>2 DEF BindsShow, AtTop
    <3> QED
      BY <2>1, <3>1, AtTopIs
  <2>2. CASE p # AtTop(p).at
    BY <2>2 DEF NodeIn, AtTop
  <2> QED
    BY <2>1, <2>2
<1>4. host[p] # "absent"
  BY <1>3 DEF HostNode
<1>5. q = p \/ q \in Prefixes(p) \ {<<>>, p}
  BY <1>0, PathOrder
<1> QED
  BY <1>2, <1>4, <1>5 DEF HostOK, IsTree

\* What a path below a fresh tmpfs names is not shown by a bind mount.
LEMMA BelowTmpfs ==
  ASSUME PlanInv, status = "ready", NEW p \in Paths,
         Under(p, plan.tmpfs) \/ (plan.minimal_dev /\ IsPrefix(DEV, p))
  PROVE  MountRank(AtTop(p)) >= 3
<1>1. PICK a \in Paths, op \in {"tmpfs", "dev"} :
        IsPrefix(a, p) /\ Wanted(plan, [op |-> op, at |-> a])
  BY UnderIs, PathsAssumption DEF Wanted
<1>2. op \in Ops
  BY DEF Ops
<1>3. Served([op |-> op, at |-> a])
  BY <1>1, <1>2, AllServed
<1>4. PICK m \in Elems(mounts) : m.kind = "tmpfs" /\ m.at = a
  BY <1>3 DEF Served
<1>5. MountRank(m) = 3
  BY <1>4, MountRankIs
<1> QED
  BY <1>1, <1>4, <1>5, NoLater, AtTopIs

\* What the host has below a listed path lies below a bind mount of that list, or
\* of the writable one.
LEMMA BelowBind ==
  ASSUME PlanInv, status = "ready", NEW p \in Paths, ~IsStrictPrefix(STAGE, p),
         NEW op \in {"read_only", "read_write"}, NEW a \in Paths, IsPrefix(a, p),
         host[a] # "absent", Wanted(plan, [op |-> op, at |-> a])
  PROVE  MountRank(AtTop(p)) >= Rank[op]
<1>1. op \in Ops
  BY DEF Ops
<1>2. Served([op |-> op, at |-> a])
  BY <1>1, AllServed
<1>3. p \in Anywhere /\ a \in Anywhere /\ STAGE \in Anywhere
  BY PathOrder, PathsAssumption
<1>4. ~IsStrictPrefix(STAGE, a)
  <2> SUFFICES ASSUME IsPrefix(STAGE, a), STAGE # a PROVE FALSE
    BY DEF IsStrictPrefix
  <2>1. IsPrefix(STAGE, p)
    BY <1>3, PathOrder
  <2>2. STAGE # p
    BY <1>3, PathOrder
  <2> QED
    BY <2>1, <2>2 DEF IsStrictPrefix
<1>5. CASE \E m \in Elems(mounts) : m.kind = "bind" /\ m.at = a /\ m.ro = (op = "read_only")
  <2>1. PICK m \in Elems(mounts) : m.kind = "bind" /\ m.at = a /\ m.ro = (op = "read_only")
    BY <1>5
  <2>2. MountRank(m) = Rank[op]
    <3>1. CASE op = "read_only"
      <4>1. m.ro = TRUE
        BY <2>1, <3>1
      <4> QED
        BY <2>1, <3>1, <4>1, MountRankIs, RankIs
    <3>2. CASE op = "read_write"
      <4>1. m.ro = FALSE
        BY <2>1, <3>2
      <4> QED
        BY <2>1, <3>2, <4>1, MountRankIs, RankIs
    <3> QED
      BY <3>1, <3>2
  <2> QED
    BY <1>1, <2>1, <2>2, NoLater, AtTopIs, RankIs
<1>6. CASE given[a] = "absent"
  <2>1. PICK m \in Elems(mounts) : m.kind = "bind" /\ ~m.ro /\ IsPrefix(m.at, a)
    BY <1>6 DEF PlanInv, HostGrown
  <2>2. m.at \in Anywhere
    BY MountFields DEF Elems, PlanInv, Shape, Now, World
  <2>3. IsPrefix(m.at, p)
    BY <1>3, <2>1, <2>2, PathOrder
  <2>4. MountRank(m) = 2
    BY <2>1, MountRankIs
  <2> QED
    BY <2>3, <2>4, NoLater, AtTopIs, RankIs
<1> QED
  BY <1>2, <1>4, <1>5, <1>6, Zenon DEF Served

-----------------------------------------------------------------------------
(* The properties follow from the invariant. *)

LEMMA TypesFollow == PlanInv => MountTypeOK
<1> SUFFICES ASSUME PlanInv PROVE MountTypeOK
  OBVIOUS
<1>1. MountsOK(mounts) /\ HostOK(host) /\ MadeOK(mounts, made)
  BY DEF PlanInv, Shape, Now, World
<1>2. ASSUME NEW i \in DOMAIN mounts
      PROVE  /\ mounts[i].at \in Paths \cup {<<>>} /\ mounts[i].kind \in Kinds
             /\ mounts[i].ro \in BOOLEAN /\ mounts[i].node \in {"dir", "file"}
  BY <1>1, MountFields DEF Anywhere
<1>3. ASSUME NEW n \in made
      PROVE  /\ n.on \in DOMAIN mounts /\ mounts[n.on].kind \in {"root", "tmpfs"}
             /\ n.at \in Paths /\ n.node \in {"dir", "file"}
             /\ \/ Front(n.at) = mounts[n.on].at
                \/ [on |-> n.on, at |-> Front(n.at), node |-> "dir"] \in made
  BY <1>1 DEF MadeOK, NodeSet
<1> QED
  BY <1>1, <1>2, <1>3 DEF MountTypeOK, PlanInv, Shape, HostOK

\* setup() makes no node in a mask: it holds the one it was mounted on.
LEMMA NothingInMasks ==
  ASSUME PlanInv, NEW p \in Paths, mounts[TopIn(mounts, p)].kind = "mask",
         p # mounts[TopIn(mounts, p)].at
  PROVE  NodeIn(mounts, host, made, p) = "absent"
<1>1. \A n \in made : mounts[n.on].kind \in {"root", "tmpfs"}
  BY DEF PlanInv, Shape, Now, World, MadeOK
<1>2. {n \in made : n.on = TopIn(mounts, p) /\ n.at = p} = {}
  BY <1>1
<1> QED
  BY <1>2 DEF NodeIn, MadeAt, TheNode

LEMMA DenyFollows == PlanInv => DenyWins
<1> SUFFICES ASSUME PlanInv, status = "ready", NEW p \in Paths, Under(p, plan.deny)
             PROVE  /\ ~ShowsHost(p)
                    /\ Node(p) # "absent" =>
                         Governing(p).at = p /\ (Writable(p) => Node(p) = "file")
  BY DEF DenyWins
<1>1. PICK d \in Paths : Listed(plan.deny, d) /\ IsPrefix(d, p)
  BY UnderIs
<1>2. Covered(d)
  <2>1. Wanted(plan, [op |-> "deny", at |-> d]) /\ "deny" \in Ops
    BY <1>1 DEF Wanted, Ops
  <2> QED
    BY <2>1, AllServed DEF Served
<1>3. Node(p) = "absent" \/ AtTop(p).kind = "mask"
  BY <1>1, <1>2, NodeIsNodeIn DEF Covered, AtTop
<1>4. /\ AtTop(p).node \in {"dir", "file"} /\ AtTop(p).ro \in BOOLEAN
      /\ AtTop(p).kind = "mask" /\ AtTop(p).node = "dir" => AtTop(p).ro
  <2>1. TopIn(mounts, p) \in DOMAIN mounts
    BY TopIs, PathOrder DEF PlanInv, Shape, Now, World
  <2> QED
    BY <2>1, MountFields DEF AtTop, PlanInv, Shape, Now, World
<1>5. AtTop(p).kind = "mask" /\ p # AtTop(p).at => NodeIn(mounts, host, made, p) = "absent"
  BY NothingInMasks DEF AtTop
<1>6. NodeIn(mounts, host, made, p) # "absent" => AtTop(p).at = p /\ AtTop(p).node = Node(p)
  BY <1>3, <1>5, NodeIsNodeIn DEF NodeIn, AtTop
<1> QED
  BY <1>3, <1>4, <1>6, NodeIsNodeIn DEF ShowsHost, Writable, AtTop

LEMMA AccessFollows == PlanInv => AccessAsListed
<1> SUFFICES ASSUME PlanInv, status = "ready", NEW p \in Paths, ~IsPrefix(PROC, p)
             PROVE  /\ ShowsHost(p) <=>
                         /\ host[p] # "absent" /\ ~Hidden(p)
                         /\ Under(p, plan.read_only \o plan.read_write)
                    /\ ShowsHost(p) => (Writable(p) <=> Under(p, plan.read_write))
  <2>1. \A q \in Paths : WritableLast(q) => Under(q, plan.read_write)
    BY DEF WritableLast, Under
  <2> QED
    BY <2>1 DEF AccessAsListed
<1> DEFINE g == AtTop(p)
<1>0. /\ ShowsHost(p) <=> NodeIn(mounts, host, made, p) # "absent" /\ g.kind = "bind"
      /\ Writable(p) <=> ~g.ro
  BY NodeIsNodeIn DEF ShowsHost, Writable, AtTop
<1>1. /\ AsListed(g) /\ IsPrefix(g.at, p) /\ g.kind \in Kinds /\ g.ro \in BOOLEAN
      /\ g.kind # "root" => g.at \in Paths
      /\ g.node \in {"dir", "file"} /\ MountRank(g) \in Nat
  BY AtTopIs
<1>2. /\ g.kind = "root" => MountRank(g) = 0
      /\ g.kind = "bind" /\ g.ro => MountRank(g) = 1
      /\ g.kind = "bind" /\ ~g.ro => MountRank(g) = 2
  BY MountRankIs
<1>3. p \in Anywhere /\ PROC \in Anywhere
  BY PathOrder, PathsAssumption
<1> HIDE DEF g
<1>4. ASSUME ShowsHost(p)
      PROVE  host[p] # "absent" /\ ~Hidden(p) /\ Under(p, plan.read_only \o plan.read_write)
  <2>1. host[p] # "absent"
    BY <1>0, <1>3, <1>4, OnHost, PathOrder DEF g
  <2>2. ~Under(p, plan.deny)
    BY <1>4, DenyFollows DEF DenyWins
  <2>3. ~(Under(p, plan.tmpfs) \/ (plan.minimal_dev /\ IsPrefix(DEV, p)))
    BY <1>0, <1>1, <1>2, <1>4, BelowTmpfs DEF g
  <2>4. ~IsStrictPrefix(STAGE, p)
    BY <1>0, <1>4, NotStaged DEF g
  <2>5. Listed(plan.read_only, g.at) \/ Listed(plan.read_write, g.at)
    BY <1>0, <1>1, <1>4 DEF AsListed
  <2> QED
    BY <1>0, <1>1, <1>4, <2>1, <2>2, <2>3, <2>4, <2>5, UnderIs DEF Hidden
<1>5. \A a \in Paths, op \in {"read_only", "read_write"} :
        IsPrefix(a, p) /\ host[p] # "absent" /\ ~IsStrictPrefix(STAGE, p)
          /\ Wanted(plan, [op |-> op, at |-> a]) => MountRank(g) >= Rank[op]
  <2> SUFFICES ASSUME NEW a \in Paths, NEW op \in {"read_only", "read_write"},
                      IsPrefix(a, p), host[p] # "absent", ~IsStrictPrefix(STAGE, p),
                      Wanted(plan, [op |-> op, at |-> a])
               PROVE  MountRank(g) >= Rank[op]
    OBVIOUS
  <2>1. host[a] # "absent"
    <3>1. a = p \/ a \in Prefixes(p) \ {<<>>, p}
      BY <1>3, PathOrder
    <3>2. IsTree(host)
      BY DEF PlanInv, Shape, Now, World, HostOK
    <3> QED
      BY <3>1, <3>2 DEF IsTree
  <2> QED
    BY <2>1, BelowBind DEF g
<1>6. ASSUME host[p] # "absent", ~Hidden(p), Under(p, plan.read_only \o plan.read_write)
      PROVE  ShowsHost(p)
  <2>1. PICK a \in Paths, op \in {"read_only", "read_write"} :
          IsPrefix(a, p) /\ Wanted(plan, [op |-> op, at |-> a])
    BY <1>6, UnderIs DEF Wanted
  <2>2. MountRank(g) >= 1
    <3>1. MountRank(g) >= Rank[op]
      BY <1>5, <1>6, <2>1 DEF Hidden
    <3>2. Rank[op] \in {1, 2}
      BY <2>1, RankIs
    <3> QED
      BY <1>1, <3>1, <3>2
  <2>3. g.kind = "bind"
    <3>1. g.kind # "root"
      BY <1>2, <2>2
    <3>2. g.kind # "proc"
      BY <1>1 DEF AsListed
    <3>3. g.kind # "tmpfs"
      BY <1>1, <1>6, UnderIs DEF AsListed, Hidden
    <3>4. g.kind # "mask"
      BY <1>1, <1>6, UnderIs DEF AsListed, Hidden
    <3> QED
      BY <1>1, <3>1, <3>2, <3>3, <3>4 DEF Kinds
  <2>4. NodeIn(mounts, host, made, p) # "absent"
    <3>1. HostNode(host, p) # "absent"
      BY <1>6 DEF HostNode
    <3> QED
      BY <1>1, <2>3, <3>1 DEF NodeIn, g, AtTop
  <2> QED
    BY <1>0, <2>3, <2>4
<1>7. ASSUME ShowsHost(p) PROVE Writable(p) <=> Under(p, plan.read_write)
  <2>1. ASSUME Writable(p) PROVE Under(p, plan.read_write)
    BY <1>0, <1>1, <1>7, <2>1, UnderIs DEF AsListed
  <2>2. ASSUME Under(p, plan.read_write) PROVE Writable(p)
    <3>1. PICK a \in Paths : IsPrefix(a, p) /\ Wanted(plan, [op |-> "read_write", at |-> a])
      BY <2>2, UnderIs DEF Wanted
    <3>2. host[p] # "absent" /\ ~IsStrictPrefix(STAGE, p)
      BY <1>4, <1>7 DEF Hidden
    <3>3. MountRank(g) >= 2
      BY <1>5, <3>1, <3>2, RankIs
    <3> QED
      BY <1>0, <1>1, <1>2, <1>7, <3>3
  <2> QED
    BY <2>1, <2>2
<1> QED
  BY <1>4, <1>6, <1>7

LEMMA LayersFollow == PlanInv => LayersAgree
<1> SUFFICES ASSUME PlanInv, status = "ready", NEW p \in Paths, Node(p) # "absent",
                    Governing(p).kind \in {"bind", "tmpfs"}
             PROVE  /\ Rule(p, ReadRules(plan))
                    /\ Writable(p) <=> Rule(p, WriteRules(plan))
  BY DEF LayersAgree
<1> DEFINE g == AtTop(p)
<1>0. /\ g.kind \in {"bind", "tmpfs"} /\ NodeIn(mounts, host, made, p) # "absent"
      /\ Writable(p) <=> ~g.ro
  BY NodeIsNodeIn DEF Writable, AtTop
<1>1. /\ AsListed(g) /\ IsPrefix(g.at, p) /\ g.ro \in BOOLEAN /\ g.at \in Paths
      /\ g.node \in {"dir", "file"} /\ MountRank(g) \in Nat
      /\ g.kind = "bind" /\ g.ro => MountRank(g) = 1
  BY <1>0, AtTopIs, MountRankIs
<1>2. Node(g.at) # "absent"
  <2>1. p \in Anywhere /\ g.at \in Anywhere /\ IsPrefix(g.at, g.at)
    BY <1>1, PathOrder
  <2>2. TopIn(mounts, g.at) = TopIn(mounts, p)
    BY <1>1, <2>1, TopBetween DEF AtTop, PlanInv, Shape, Now, World
  <2> QED
    BY <1>1, <2>2, NodeIsNodeIn DEF NodeIn, AtTop
<1> HIDE DEF g
<1>3. /\ ToSet(plan.read_only) = {a \in Paths : Listed(plan.read_only, a)}
      /\ ToSet(plan.read_write) = {a \in Paths : Listed(plan.read_write, a)}
      /\ ToSet(plan.tmpfs) = {a \in Paths : Listed(plan.tmpfs, a)}
  <2>1. /\ plan.read_only \in Seq(Paths) /\ plan.read_write \in Seq(Paths)
        /\ plan.tmpfs \in Seq(Paths)
    BY DEF PlanInv, Shape, AllPlans
  <2> QED
    BY <2>1 DEF ToSet, Listed
<1>4. /\ g.at \in ReadRules(plan)
      /\ ~g.ro => g.at \in WriteRules(plan)
  <2>1. CASE g.kind = "bind" /\ g.ro
    BY <1>1, <1>3, <2>1 DEF AsListed, ReadRules
  <2>2. CASE g.kind = "bind" /\ ~g.ro
    BY <1>1, <1>3, <2>2 DEF AsListed, ReadRules, WriteRules
  <2>3. CASE g.kind = "tmpfs"
    BY <1>1, <1>3, <2>3 DEF AsListed, ReadRules, WriteRules
  <2> QED
    BY <1>0, <2>1, <2>2, <2>3
<1>5. Rule(p, ReadRules(plan)) /\ (~g.ro => Rule(p, WriteRules(plan)))
  BY <1>1, <1>2, <1>4 DEF Rule
<1>6. ASSUME Rule(p, WriteRules(plan)), g.ro PROVE FALSE
  <2>1. PICK e \in WriteRules(plan) : IsPrefix(e, p)
    BY <1>6 DEF Rule
  <2>2. g.kind = "bind" /\ MountRank(g) = 1
    BY <1>0, <1>1, <1>6 DEF AsListed
  <2>3. e \in Paths /\ ~Under(p, plan.tmpfs) /\ ~(plan.minimal_dev /\ IsPrefix(DEV, p))
    <3>1. e \in Paths
      BY <1>3, <2>1, PathsAssumption DEF WriteRules
    <3> QED
      BY <2>2, <3>1, BelowTmpfs DEF g
  <2>4. Listed(plan.read_write, e)
    BY <1>3, <2>1, <2>3, UnderIs DEF WriteRules
  <2>5. Wanted(plan, [op |-> "read_write", at |-> e])
    BY <2>4 DEF Wanted
  <2>6. host[e] # "absent" /\ ~IsStrictPrefix(STAGE, p)
    BY <1>0, <2>1, <2>2, <2>3, OnHost, NotStaged DEF g
  <2>7. MountRank(g) >= 2
    BY <2>1, <2>3, <2>5, <2>6, BelowBind, RankIs DEF g
  <2> QED
    BY <2>2, <2>7
<1> QED
  BY <1>0, <1>1, <1>5, <1>6

\* Every state of a setup is well typed; the host stays a tree, and so do the
\* nodes that create_dir_all and File::create make in each mount.
THEOREM MountTypeCorrect == Spec => []MountTypeOK
BY PlanIsFollowed, TypesFollow, PTL

\* mask_path runs last, so a denied path shows nothing of the host, for every plan,
\* host and order of the lists: what is there is a mask, an empty directory that
\* is read-only or /dev/null.
THEOREM DeniedIsMasked == Spec => []DenyWins
BY PlanIsFollowed, DenyFollows, PTL

\* Outside /proc and what lies below /dev, the new root shows of the host what
\* bind_path was asked for, and nothing else.  It is writable only where a
\* read_write entry lies at or above, and there wherever no read_only entry is as
\* deep.
THEOREM RootShowsTheLists == Spec => []AccessAsListed
BY PlanIsFollowed, AccessFollows, PTL

\* The Landlock rules, made of the same lists, grant what the mounts show and
\* no more.
THEOREM LandlockAgrees == Spec => []LayersAgree
BY PlanIsFollowed, LayersFollow, PTL


-----------------------------------------------------------------------------
(* What a step makes and mounts, and where it fails. *)

Binds == {"read_only", "read_write"}

LEMMA MadeExactly ==
  ASSUME NEW ms, NEW h, NEW md, World(ms, h, md), NEW t, NEW tn, NEW Tr, NEW new,
         NEW h2, NEW md2, Makes(ms, h, md, t, tn, Tr, new, h2, md2)
  PROVE  /\ \A p \in Paths : h2[p] # h[p] =>
              /\ ms[TopIn(ms, t)].kind = "bind"
              /\ \/ p = t /\ Tr # {} /\ h2[p] = "emptied" /\ HostNode(h, p) = "file"
                 \/ /\ p \in MissingIn(ms, h, md, t) /\ HostNode(h, p) = "absent"
                    /\ h2[p] = IF p = t THEN tn ELSE "dir"
         /\ \A n \in md2 : n \notin md =>
              /\ ms[TopIn(ms, t)].kind # "bind" /\ n.at \in MissingIn(ms, h, md, t)
              /\ n.node = IF n.at = t THEN tn ELSE "dir"
         /\ \A p \in Paths : HostNode(h, p) # "absent" => HostNode(h2, p) = HostNode(h, p)
<1> DEFINE i == TopIn(ms, t)
           Mis == MissingIn(ms, h, md, t)
<1>1. /\ t \in Paths /\ Tr \in SUBSET {t} /\ DOMAIN new = Mis \cup Tr
      /\ \A q \in DOMAIN new : new[q] =
           IF q # t THEN "dir" ELSE IF NodeIn(ms, h, md, t) = "absent" THEN tn ELSE "emptied"
      /\ Tr # {} => ms[i].kind = "bind" /\ NodeIn(ms, h, md, t) = "file"
  BY DEF Makes
<1>2. t \in Anywhere /\ i \in DOMAIN ms
  BY <1>1, TopIs, PathOrder DEF World
<1>3. Tr # {} => HostNode(h, t) = "file"
  BY <1>1, <1>2 DEF NodeIn, World, BindsShow
<1>4. \A q \in Mis : NodeIn(ms, h, md, q) = "absent"
                     /\ (ms[i].kind = "bind" => HostNode(h, q) = "absent")
  BY <1>1, MissingOnTop DEF MissingIn
<1>5. \A q \in DOMAIN new : \/ q \in Mis /\ new[q] = IF q = t THEN tn ELSE "dir"
                            \/ q = t /\ Tr # {} /\ new[q] = "emptied"
  BY <1>1, <1>4
<1>8. \A p \in Paths : HostNode(h, p) # "absent" => HostNode(h2, p) = HostNode(h, p)
  BY MakingKeepsWorld
<1>6. CASE ms[i].kind = "bind"
  <2>1. h2 = [q \in Paths |-> IF q \in DOMAIN new THEN new[q] ELSE h[q]] /\ md2 = md
    BY <1>6 DEF Makes
  <2>2. \A p \in Paths : h2[p] # h[p] => p \in DOMAIN new /\ h2[p] = new[p]
    BY <2>1
  <2> HIDE DEF i, Mis
  <2>3. \A p \in Paths : h2[p] # h[p] =>
          \/ p = t /\ Tr # {} /\ h2[p] = "emptied" /\ HostNode(h, p) = "file"
          \/ p \in Mis /\ HostNode(h, p) = "absent" /\ h2[p] = IF p = t THEN tn ELSE "dir"
    BY <1>3, <1>4, <1>5, <1>6, <2>2
  <2>4. \A n \in md2 : n \in md
    BY <2>1
  <2> QED
    BY <1>6, <2>3, <2>4, <1>8 DEF i, Mis
<1>7. CASE ms[i].kind # "bind"
  <2>1. h2 = h /\ md2 = md \cup {[on |-> i, at |-> q, node |-> new[q]] : q \in DOMAIN new}
    BY <1>7 DEF Makes
  <2>2. \A n \in md2 : n \notin md => \E q \in DOMAIN new : n.at = q /\ n.node = new[q]
    BY <2>1
  <2>3. Tr = {}
    BY <1>1, <1>7
  <2> HIDE DEF i, Mis
  <2>4. \A n \in md2 : n \notin md => n.at \in Mis /\ n.node = IF n.at = t THEN tn ELSE "dir"
    BY <1>5, <2>2, <2>3
  <2> QED
    BY <1>7, <1>8, <2>1, <2>4 DEF i, Mis
<1> QED
  BY <1>6, <1>7

\* A step makes its mount point, or truncates it, and nothing else.
Makings(s) ==
  \/ UNCHANGED <<host, made>>
  \/ \E tn, Tr, new :
       /\ Makes(mounts, host, made, s.at, tn, Tr, new, host', made')
       /\ Tr # {} => s.op \in Binds /\ ~mounts[TopIn(mounts, s.at)].ro
       /\ NodeIn(mounts, host, made, s.at) = "absent" => ~mounts[TopIn(mounts, s.at)].ro
       /\ s.op \in Binds => HostNode(host, s.at) = tn
       /\ s.op \notin Binds => tn = "dir"
       /\ s.op # "deny"

Mountings(s) ==
  \/ mounts' = mounts
  \/ \E x : /\ mounts' = Append(mounts, x) /\ x.at = s.at
            /\ x.kind = "bind" => /\ s.op \in Binds /\ x.ro = (s.op = "read_only")
                                  /\ x.node = HostNode(host, s.at)
            /\ x.kind = "mask" => x.node = NodeIn(mounts, host, made, s.at)
            /\ x.kind \notin {"bind", "mask"} => x.node = "dir"

StepDone == Pops /\ Makings(Head(todo)) /\ Mountings(Head(todo))

StepFails ==
  /\ Fail /\ status = "setup" /\ todo # <<>>
  /\ LET s == Head(todo)
     IN  \/ s.op \in Binds /\ Source(s.at) = "dir" /\ NoDir(s.at)
         \/ s.op \in Binds /\ Source(s.at) = "file" /\ NoFile(s.at)
         \/ s.op \in {"tmpfs", "dev", "proc"} /\ NoDir(s.at)
         \/ s.op \in {"tmpfs", "dev", "deny"} /\ Refusable(s.at)
         \/ s.op = "deny" /\ BelowFile(s.at)

Idles == UNCHANGED <<plan, given, host, mounts, made, todo>> /\ status' \in {status, "ready"}

LEMMA StepIs ==
  ASSUME Shape, InOrder, [Next]_vars
  PROVE  StepDone \/ StepFails \/ Idles
<1> USE DEF Binds
<1>1. ASSUME NEW p \in Paths, Bind(p) PROVE StepDone \/ StepFails \/ Idles
  <2>1. /\ status = "setup" /\ todo # <<>> /\ Head(todo).at = p /\ Head(todo).op \in Binds
    BY <1>1 DEF Bind, Doing
  <2>2. EarlyMounts /\ Now
    BY <2>1, EarlyHead DEF Shape
  <2> DEFINE ro == Head(todo).op = "read_only"
  <2>3. CASE Source(p) = "absent" /\ Advance /\ UNCHANGED <<host, mounts, made>>
    BY <2>1, <2>3 DEF Advance, StepDone, Makings, Mountings, Pops
  <2>4. CASE Fail /\ ((Source(p) = "dir" /\ NoDir(p)) \/ (Source(p) = "file" /\ NoFile(p)))
    BY <2>1, <2>4 DEF StepFails
  <2>5. ASSUME Source(p) = "dir", ~NoDir(p), MakeDirs(p), Mount(p, "bind", ro, "dir"), Advance
        PROVE  StepDone
    <3>1. PICK new : Makes(mounts, host, made, p, "dir", {}, new, host', made')
      BY <2>2, <2>5, DirsAreMade
    <3>2. HostNode(host, p) = "dir"
      BY <2>5, NodeIsNodeIn DEF Source
    <3>3. NodeIn(mounts, host, made, p) = "absent" => ~mounts[TopIn(mounts, p)].ro
      BY <2>5, NodeIsNodeIn DEF NoDir
    <3>4. Makings(Head(todo))
      BY <2>1, <3>1, <3>2, <3>3 DEF Makings
    <3>5. Mountings(Head(todo))
      BY <2>1, <2>5, <3>2 DEF Mount, Mountings
    <3> QED
      BY <2>1, <2>5, <3>4, <3>5 DEF StepDone, Pops, Advance
  <2>6. ASSUME Source(p) = "file", ~NoFile(p), MakeFile(p), Mount(p, "bind", ro, "file"), Advance
        PROVE  StepDone
    <3>1. PICK Tr, new : /\ Makes(mounts, host, made, p, "file", Tr, new, host', made')
                         /\ Tr # {} => ~mounts[TopIn(mounts, p)].ro
      BY <2>2, <2>6, FileIsMade
    <3>2. HostNode(host, p) = "file"
      BY <2>6, NodeIsNodeIn DEF Source
    <3>3. NodeIn(mounts, host, made, p) = "absent" => ~mounts[TopIn(mounts, p)].ro
      BY <2>6, NodeIsNodeIn DEF NoFile
    <3>4. Makings(Head(todo))
      BY <2>1, <3>1, <3>2, <3>3 DEF Makings
    <3>5. Mountings(Head(todo))
      BY <2>1, <2>6, <3>2 DEF Mount, Mountings
    <3> QED
      BY <2>1, <2>6, <3>4, <3>5 DEF StepDone, Pops, Advance
  <2>7. CASE Source(p) = "dir"
    <3>1. IF NoDir(p) THEN Fail ELSE MakeDirs(p) /\ Mount(p, "bind", ro, "dir") /\ Advance
      BY <1>1, <2>7 DEF Bind
    <3> QED
      BY <2>4, <2>5, <2>7, <3>1
  <2>8. CASE Source(p) = "file"
    <3>1. IF NoFile(p) THEN Fail ELSE MakeFile(p) /\ Mount(p, "bind", ro, "file") /\ Advance
      BY <1>1, <2>8 DEF Bind
    <3> QED
      BY <2>4, <2>6, <2>8, <3>1
  <2> QED
    BY <1>1, <2>3, <2>7, <2>8 DEF Bind
<1>2. ASSUME NEW p \in Paths, NEW op \in {"tmpfs", "dev", "proc"}, Doing({op}, p),
             ~NoDir(p), MakeDirs(p), Advance, NEW kind \in {"tmpfs", "proc"},
             Mount(p, kind, FALSE, "dir") \/ UNCHANGED mounts
      PROVE  StepDone
  <2>1. /\ status = "setup" /\ todo # <<>> /\ Head(todo).at = p /\ Head(todo).op = op
    BY <1>2 DEF Doing
  <2>2. EarlyMounts /\ Now
    BY <2>1, EarlyHead DEF Shape
  <2>3. PICK new : Makes(mounts, host, made, p, "dir", {}, new, host', made')
    BY <1>2, <2>2, DirsAreMade
  <2>4. NodeIn(mounts, host, made, p) = "absent" => ~mounts[TopIn(mounts, p)].ro
    BY <1>2, NodeIsNodeIn DEF NoDir
  <2>5. Makings(Head(todo))
    BY <2>1, <2>3, <2>4 DEF Makings
  <2>6. Mountings(Head(todo))
    BY <1>2, <2>1 DEF Mount, Mountings
  <2> QED
    BY <1>2, <2>1, <2>5, <2>6 DEF StepDone, Pops, Advance
<1>3. ASSUME NEW p \in Paths, NEW op \in {"tmpfs", "dev", "proc"}, Doing({op}, p), NoDir(p), Fail
      PROVE  StepFails
  BY <1>3 DEF StepFails, Doing
<1>4. ASSUME NEW p \in Paths, NEW op \in {"tmpfs", "dev"}, Doing({op}, p), FreshTmpfs(p)
      PROVE  StepDone \/ StepFails
  BY <1>2, <1>3, <1>4 DEF FreshTmpfs, StepFails, Doing
<1>5. ASSUME SetupProc PROVE StepDone \/ StepFails
  BY <1>2, <1>3, <1>5, PathsAssumption DEF SetupProc
<1>6. ASSUME NEW p \in Paths, Mask(p) PROVE StepDone \/ StepFails
  <2>1. /\ status = "setup" /\ todo # <<>> /\ Head(todo).at = p /\ Head(todo).op = "deny"
    BY <1>6 DEF Mask, Doing
  <2>2. CASE Mount(p, "mask", Node(p) = "dir", Node(p)) /\ Advance /\ UNCHANGED <<host, made>>
    BY <2>1, <2>2, NodeIsNodeIn DEF StepDone, Pops, Advance, Makings, Mountings, Mount
  <2>3. CASE Advance /\ UNCHANGED <<host, mounts, made>>
    BY <2>1, <2>3 DEF StepDone, Pops, Advance, Makings, Mountings
  <2>4. CASE Fail /\ (BelowFile(p) \/ Refusable(p))
    BY <2>1, <2>4 DEF StepFails
  <2> QED
    BY <1>6, <2>2, <2>3, <2>4 DEF Mask
<1>7. ASSUME Pivot \/ Over \/ UNCHANGED vars PROVE Idles
  BY <1>7 DEF Pivot, Over, vars, Idles
<1> QED
  BY <1>1, <1>4, <1>5, <1>6, <1>7, PathsAssumption DEF Next, Tmpfs, SetupDev

-----------------------------------------------------------------------------
(* What setup() has done to the host, and which files the command can see.  A  *)
(* file it sees is one the host had and the lists to bind lie above, so a step *)
(* that stops at a file stops at a listed one.                                 *)

Binding == \E e \in Elems(todo) : e.op \in Binds

\* The host keeps the kind of every node it had, and gains directories only.
HostKept ==
  \A p \in Paths : /\ given[p] # "absent" => HostNode(host, p) = given[p]
                   /\ host[p] # "absent" /\ given[p] = "absent" => host[p] = "dir"

SharedFile(p) == given[p] = "file" /\ Under(p, plan.read_only \o plan.read_write)

FilesShared ==
  /\ \A n \in made : n.node = "file" => SharedFile(n.at)
  /\ \A m \in Elems(mounts) : m.node = "file" => SharedFile(m.at)

\* While the lists are being bound, what has been made repeats the host.
Mirrored == Binding => \A n \in made : HostNode(host, n.at) = n.node

HostInv == HostKept /\ FilesShared /\ Mirrored

LEMMA Seen ==
  ASSUME PlanInv, HostInv, NEW q \in Paths, NodeIn(mounts, host, made, q) = "file"
  PROVE  SharedFile(q)
<1> DEFINE g == AtTop(q)
<1>1. /\ g \in Elems(mounts) /\ AsListed(g) /\ IsPrefix(g.at, q) /\ g.ro \in BOOLEAN
      /\ g.kind # "root" => g.at \in Paths
  BY AtTopIs
<1>2. MountsOK(mounts) /\ HostOK(host) /\ MadeOK(mounts, made)
  BY DEF PlanInv, Shape, Now, World
<1>3. CASE q = g.at
  BY <1>1, <1>3 DEF NodeIn, AtTop, HostInv, FilesShared
<1>4. CASE q # g.at /\ g.kind = "bind"
  <2>1. HostNode(host, q) = "file"
    BY <1>4 DEF NodeIn, AtTop
  <2>2. given[q] = "file"
    BY <2>1 DEF HostInv, HostKept, HostNode
  <2> HIDE DEF g
  <2>3. Under(q, plan.read_only \o plan.read_write)
    BY <1>1, <1>4, UnderIs DEF AsListed
  <2> QED
    BY <2>2, <2>3 DEF SharedFile
<1>5. CASE q # g.at /\ g.kind # "bind"
  <2>1. MadeAt(made, TopIn(mounts, q), q) = "file"
    BY <1>5 DEF NodeIn, AtTop
  <2>2. [on |-> TopIn(mounts, q), at |-> q, node |-> "file"] \in made
    BY <1>2, <2>1, NodeValues
  <2> QED
    BY <2>2 DEF HostInv, FilesShared
<1> QED
  BY <1>3, <1>4, <1>5

\* While the lists are being bound, the command sees a part of the host, and under
\* a read-only mount all of it.
LEMMA Mirror ==
  ASSUME PlanInv, HostInv, todo # <<>>, Head(todo).op \in Binds, NEW q \in Paths
  PROVE  /\ NodeIn(mounts, host, made, q) # "absent" =>
              NodeIn(mounts, host, made, q) = HostNode(host, q)
         /\ AtTop(q).ro => NodeIn(mounts, host, made, q) = HostNode(host, q)
<1> DEFINE g == AtTop(q)
<1>1. /\ g \in Elems(mounts) /\ g.ro \in BOOLEAN /\ g.kind \in Kinds
      /\ g.kind # "root" => g.at \in Paths
  BY AtTopIs
<1>2. /\ MountsOK(mounts) /\ HostOK(host) /\ MadeOK(mounts, made) /\ BindsShow(mounts, host)
      /\ q \in Anywhere /\ q # <<>>
  BY PathOrder DEF PlanInv, Shape, Now, World
<1>3. TopIn(mounts, q) \in DOMAIN mounts
  BY <1>2, TopIs
<1>4. g.kind \in {"root", "bind"}
  <2>1. Head(todo) \in Elems(todo)
    BY Heads DEF PlanInv
  <2>2. MountRank(g) <= Rank[Head(todo).op]
    BY <1>1, <2>1 DEF PlanInv, InOrder
  <2>3. Rank[Head(todo).op] <= 2
    BY RankIs DEF Binds
  <2> HIDE DEF g
  <2>4. Rank[Head(todo).op] \in {1, 2}
    BY RankIs DEF Binds
  <2> QED
    BY <1>1, <2>2, <2>4, MountRankIs DEF Kinds
<1>5. g.kind = "root" => g = Root
  <2>1. g.kind = "root" => TopIn(mounts, q) = 1
    BY <1>2, <1>3, MountFields DEF AtTop
  <2> QED
    BY <1>2, <2>1 DEF MountsOK, AtTop
<1>6. CASE g.kind = "root"
  <2>1. NodeIn(mounts, host, made, q) = MadeAt(made, TopIn(mounts, q), q)
    BY <1>2, <1>5, <1>6 DEF NodeIn, AtTop, Root
  <2>2. Binding
    BY Heads DEF Binding, PlanInv
  <2>3. \/ MadeAt(made, TopIn(mounts, q), q) = "absent"
        \/ [on |-> TopIn(mounts, q), at |-> q,
            node |-> MadeAt(made, TopIn(mounts, q), q)] \in made
    BY <1>2, NodeValues
  <2>4. ~g.ro
    BY <1>5, <1>6 DEF Root
  <2> QED
    BY <2>1, <2>2, <2>3, <2>4 DEF HostInv, Mirrored
<1>7. CASE g.kind = "bind"
  <2>1. CASE q = g.at
    BY <1>2, <1>3, <1>7, <2>1 DEF NodeIn, AtTop, BindsShow
  <2>2. CASE q # g.at
    BY <1>7, <2>2 DEF NodeIn, AtTop
  <2> QED
    BY <2>1, <2>2
<1> QED
  BY <1>4, <1>6, <1>7

\* The step at the head of the plan, and the host around its path.
LEMMA HeadIs ==
  ASSUME PlanInv, todo # <<>>
  PROVE  /\ Head(todo) \in StepSet /\ Head(todo).op \in Ops /\ Head(todo).at \in Paths
         /\ Wanted(plan, Head(todo))
         /\ Head(todo).op \in Binds => Under(Head(todo).at, plan.read_only \o plan.read_write)
<1>1. Head(todo) \in StepSet /\ Head(todo) \in Elems(todo)
  BY Heads DEF PlanInv
<1>2. Wanted(plan, Head(todo)) /\ Head(todo).op \in Ops /\ Head(todo).at \in Paths
  BY <1>1 DEF PlanInv, StepSet
<1>3. IsPrefix(Head(todo).at, Head(todo).at)
  BY <1>2, PathOrder
<1>4. ASSUME Head(todo).op \in Binds
      PROVE  Under(Head(todo).at, plan.read_only \o plan.read_write)
  BY <1>2, <1>3, <1>4, UnderIs DEF Wanted, Binds
<1> QED
  BY <1>1, <1>2, <1>4

LEMMA AboveOnHost ==
  ASSUME PlanInv, NEW t \in Paths, HostNode(host, t) # "absent",
         NEW q \in Paths, q \in Prefixes(t), q # t
  PROVE  host[q] = "dir" /\ HostNode(host, q) = "dir"
<1>1. host[t] # "absent"
  BY DEF HostNode
<1>2. q # <<>>
  BY PathOrder
<1> QED
  BY <1>1, <1>2 DEF PlanInv, Shape, Now, World, HostOK, IsTree, HostNode

LEMMA HostInvKept ==
  ASSUME PlanInv, HostInv, StepDone
  PROVE  HostInv'
<1> DEFINE s == Head(todo)
           t == s.at
<1>1. /\ todo # <<>> /\ todo' = Tail(todo) /\ UNCHANGED <<plan, given, status>>
      /\ Makings(s) /\ Mountings(s)
  BY DEF StepDone, Pops
<1>2. /\ s \in StepSet /\ s.op \in Ops /\ t \in Paths
      /\ s.op \in Binds => Under(t, plan.read_only \o plan.read_write)
  BY <1>1, HeadIs
<1>3. Now /\ HostOK(host) /\ MountsOK(mounts) /\ MadeOK(mounts, made)
  BY DEF PlanInv, Shape, Now, World
<1>4. \A p : SharedFile(p) <=> SharedFile(p)'
  BY <1>1 DEF SharedFile, Under
<1>5. Binding' => Binding /\ s.op \in Binds
  <2>1. /\ Elems(todo) = {s} \cup Elems(Tail(todo)) /\ Elems(todo) \subseteq StepSet
        /\ \A e \in Elems(Tail(todo)) : Before(s, e)
    BY <1>1, TailIs DEF PlanInv, Shape, InOrder
  <2> HIDE DEF s
  <2>2. ASSUME NEW e \in Elems(Tail(todo)), e.op \in Binds PROVE s.op \in Binds
    <3>1. Rank[s.op] <= Rank[e.op]
      BY <2>1 DEF Before
    <3>2. Rank[e.op] \in {1, 2}
      BY <2>2, RankIs DEF Binds
    <3>3. Rank[s.op] \in {1, 2}
      BY <1>2, <3>1, <3>2, RankIs
    <3> QED
      BY <1>2, <3>3, RankIs DEF Binds, Ops
  <2> QED
    BY <1>1, <2>1, <2>2 DEF Binding
<1>6. ASSUME s.op \in Binds, HostNode(host, t) = "file" PROVE SharedFile(t)
  <2>1. given[t] = "file"
    BY <1>2, <1>6 DEF HostInv, HostKept, HostNode
  <2> QED
    BY <1>2, <1>6, <2>1 DEF SharedFile
<1>7. \A m \in Elems(mounts') : m.node = "file" => SharedFile(m.at)
  <2>1. CASE mounts' = mounts
    BY <2>1 DEF HostInv, FilesShared
  <2>2. ASSUME NEW x, mounts' = Append(mounts, x), x.at = t,
               x.kind = "bind" => s.op \in Binds /\ x.node = HostNode(host, t),
               x.kind = "mask" => x.node = NodeIn(mounts, host, made, t),
               x.kind \notin {"bind", "mask"} => x.node = "dir"
        PROVE  \A m \in Elems(mounts') : m.node = "file" => SharedFile(m.at)
    <3>1. Elems(mounts') \subseteq Elems(mounts) \cup {x}
      <4>1. mounts \in Seq(MountSet)
        BY <1>3 DEF MountsOK
      <4> QED
        BY <2>2, <4>1 DEF Elems
    <3>2. x.node = "file" => SharedFile(x.at)
      <4> HIDE DEF s
      <4>1. CASE x.kind = "bind"
        BY <1>6, <2>2, <4>1
      <4>2. CASE x.kind = "mask"
        BY <1>2, <2>2, <4>2, Seen
      <4> QED
        BY <2>2, <4>1, <4>2
    <3> QED
      BY <3>1, <3>2 DEF HostInv, FilesShared
  <2> QED
    BY <1>1, <2>1, <2>2 DEF Mountings
<1>8. CASE UNCHANGED <<host, made>>
  <2>1. HostKept'
    BY <1>1, <1>8 DEF HostInv, HostKept, HostNode
  <2>2. Mirrored'
    BY <1>5, <1>8 DEF HostInv, Mirrored, HostNode
  <2>3. \A n \in made' : n.node = "file" => SharedFile(n.at)
    BY <1>8 DEF HostInv, FilesShared
  <2> QED
    BY <1>4, <1>7, <2>1, <2>2, <2>3 DEF HostInv, FilesShared
<1>9. ASSUME NEW tn, NEW Tr, NEW new, Makes(mounts, host, made, t, tn, Tr, new, host', made'),
             s.op \in Binds => HostNode(host, t) = tn, s.op \notin Binds => tn = "dir"
      PROVE  HostInv'
  <2>1. /\ \A p \in Paths : host'[p] # host[p] =>
             \/ p = t /\ HostNode(host, p) = "file"
             \/ HostNode(host, p) = "absent" /\ host'[p] = IF p = t THEN tn ELSE "dir"
        /\ \A n \in made' : n \notin made =>
             /\ n.at \in MissingIn(mounts, host, made, t)
             /\ n.node = IF n.at = t THEN tn ELSE "dir"
        /\ \A p \in Paths : HostNode(host, p) # "absent" => HostNode(host', p) = HostNode(host, p)
    BY <1>3, <1>9, MadeExactly DEF Now
  <2>2. tn \in {"dir", "file"}
    BY <1>9 DEF Makes
  <2> HIDE DEF s
  <2>3. HostKept'
    <3> SUFFICES ASSUME NEW p \in Paths
                 PROVE  /\ given[p] # "absent" => HostNode(host', p) = given[p]
                        /\ host'[p] # "absent" /\ given[p] = "absent" => host'[p] = "dir"
      BY <1>1 DEF HostKept, HostNode
    <3>1. given[p] # "absent" => HostNode(host', p) = given[p]
      BY <2>1 DEF HostInv, HostKept
    <3>2. ASSUME host'[p] # "absent", given[p] = "absent" PROVE host'[p] = "dir"
      <4>1. CASE host'[p] = host[p]
        BY <3>2, <4>1 DEF HostInv, HostKept
      <4>2. CASE HostNode(host, p) = "file"
        BY <3>2, <4>2 DEF HostInv, HostKept, HostNode
      <4>3. CASE HostNode(host, p) = "absent" /\ host'[p] = IF p = t THEN tn ELSE "dir"
        BY <1>9, <2>2, <4>3
      <4> QED
        BY <2>1, <4>1, <4>2, <4>3
    <3> QED
      BY <3>1, <3>2
  <2>4. \A n \in made' : n.node = "file" => SharedFile(n.at)
    <3>1. ASSUME NEW n \in made', n \notin made, n.node = "file" PROVE SharedFile(n.at)
      BY <1>6, <1>9, <2>1, <3>1
    <3> QED
      BY <3>1 DEF HostInv, FilesShared
  <2>5. Mirrored'
    <3> SUFFICES ASSUME Binding', NEW n \in made'
                 PROVE  HostNode(host', n.at) = n.node
      BY DEF Mirrored, HostNode
    <3>1. Binding /\ s.op \in Binds /\ HostNode(host, t) = tn
      BY <1>5, <1>9 
    <3>2. CASE n \in made
      <4>1. n.at \in Paths /\ n.node \in {"dir", "file"}
        BY <1>3, <3>2 DEF MadeOK, NodeSet
      <4>2. HostNode(host, n.at) = n.node
        BY <3>1, <3>2 DEF HostInv, Mirrored
      <4> QED
        BY <2>1, <4>1, <4>2
    <3>3. CASE n \notin made
      <4>1. n.at \in MissingIn(mounts, host, made, t) /\ n.node = IF n.at = t THEN tn ELSE "dir"
        BY <2>1, <3>3
      <4>2. n.at \in Prefixes(t) /\ n.at \in Paths
        BY <1>2, <1>3, <4>1, MissingOnTop DEF MissingIn, Now
      <4>3. HostNode(host, n.at) = n.node
        BY <1>2, <2>2, <3>1, <4>1, <4>2, AboveOnHost
      <4> QED
        BY <2>1, <2>2, <4>1, <4>2, <4>3
    <3> QED
      BY <3>2, <3>3
  <2> QED
    BY <1>4, <1>7, <2>3, <2>4, <2>5 DEF HostInv, FilesShared
<1> QED
  BY <1>1, <1>8, <1>9 DEF Makings

-----------------------------------------------------------------------------
(* Which step made which mount. *)

Done == Len(Steps(plan)) - Len(todo)

\* What is ahead is the end of the plan, and a writable bind mount was made by a
\* step behind.
Placed ==
  /\ Done \in Nat
  /\ \A i \in DOMAIN todo : Done + i \in DOMAIN Steps(plan) /\ todo[i] = Steps(plan)[Done + i]
  /\ \A m \in Elems(mounts) : m.kind = "bind" /\ ~m.ro =>
       \E n \in 1..Done : Steps(plan)[n] = [op |-> "read_write", at |-> m.at]

LEMMA PlacedKept ==
  ASSUME PlanInv, Placed, StepDone
  PROVE  Placed'
<1> DEFINE s == Head(todo)
           S == Steps(plan)
<1>1. /\ todo # <<>> /\ todo' = Tail(todo) /\ plan' = plan /\ Mountings(s)
      /\ todo \in Seq(StepSet)
  BY DEF StepDone, Pops, PlanInv, Shape
<1>2. /\ Len(todo) \in Nat /\ Len(todo) > 0 /\ Len(todo') = Len(todo) - 1 /\ s = todo[1]
      /\ DOMAIN todo = 1..Len(todo) /\ DOMAIN todo' = 1..(Len(todo) - 1)
      /\ \A i \in 1..(Len(todo) - 1) : todo'[i] = todo[i + 1]
  BY <1>1
<1>3. S \in Seq(StepSet) /\ Len(S) \in Nat
  BY StepsAre DEF PlanInv, Shape
<1>4. Done' = Done + 1 /\ Done \in Nat /\ S' = S
  BY <1>1, <1>2, <1>3 DEF Done, Placed
<1>5. Done + 1 \in DOMAIN S /\ s = S[Done + 1]
  BY <1>2 DEF Placed
<1>6. s \in StepSet
  BY <1>1, HeadIs
<1>7. \A i \in DOMAIN todo' : Done' + i \in DOMAIN S' /\ todo'[i] = S'[Done' + i]
  <2> SUFFICES ASSUME NEW i \in DOMAIN todo'
               PROVE  Done' + i \in DOMAIN S' /\ todo'[i] = S'[Done' + i]
    OBVIOUS
  <2>1. i + 1 \in DOMAIN todo /\ todo'[i] = todo[i + 1] /\ i \in Nat
    BY <1>2
  <2>2. Done + (i + 1) \in DOMAIN S /\ todo[i + 1] = S[Done + (i + 1)]
    BY <2>1 DEF Placed
  <2>3. Done + (i + 1) = Done' + i
    BY <1>4, <2>1
  <2> HIDE DEF S
  <2> QED
    BY <1>4, <2>1, <2>2, <2>3
<1>8. ASSUME NEW m \in Elems(mounts'), m.kind = "bind", ~m.ro
      PROVE  \E n \in 1..Done' : S'[n] = [op |-> "read_write", at |-> m.at]
  <2>1. CASE m \in Elems(mounts)
    <3>1. PICK n \in 1..Done : S[n] = [op |-> "read_write", at |-> m.at]
      BY <1>8, <2>1 DEF Placed
    <3>2. n \in 1..Done'
      BY <1>4, <3>1
    <3> HIDE DEF S
    <3> QED
      BY <1>4, <3>1, <3>2
  <2>2. CASE m \notin Elems(mounts)
    <3>1. PICK x : /\ mounts' = Append(mounts, x) /\ x.at = s.at
                   /\ x.kind = "bind" => s.op \in Binds /\ x.ro = (s.op = "read_only")
      BY <1>1, <1>8, <2>2 DEF Mountings
    <3>2. mounts \in Seq(MountSet)
      BY DEF PlanInv, Shape, Now, World, MountsOK
    <3>3. m = x
      BY <1>8, <2>2, <3>1, <3>2 DEF Elems
    <3>4. s.op = "read_write"
      BY <1>8, <3>1, <3>3 DEF Binds
    <3>5. s = [op |-> "read_write", at |-> m.at]
      BY <1>6, <3>1, <3>3, <3>4 DEF StepSet
    <3>6. Done + 1 \in 1..Done'
      BY <1>4
    <3> HIDE DEF S, s
    <3> QED
      BY <1>4, <1>5, <3>5, <3>6
  <2> QED
    BY <2>1, <2>2
<1> QED
  BY <1>4, <1>7, <1>8 DEF Placed

\* Where the steps of read_write lie in the plan.
LEMMA StepsAt ==
  ASSUME NEW pl \in AllPlans, NEW n \in DOMAIN Steps(pl), Steps(pl)[n].op = "read_write"
  PROVE  /\ n - Len(pl.read_only) \in DOMAIN pl.read_write
         /\ pl.read_write[n - Len(pl.read_only)] = Steps(pl)[n].at
<1> DEFINE a == Each("read_only", pl.read_only)
           b == Each("read_write", pl.read_write)
           c == Each("tmpfs", pl.tmpfs)
           d == Dev(pl)
           e == <<[op |-> "proc", at |-> PROC]>>
           f == Each("deny", pl.deny)
<1>1. /\ pl.read_only \in Seq(Paths) /\ pl.read_write \in Seq(Paths)
      /\ pl.tmpfs \in Seq(Paths) /\ pl.deny \in Seq(Paths)
  BY DEF AllPlans
<1>2. /\ a \in Seq(StepSet) /\ b \in Seq(StepSet) /\ c \in Seq(StepSet) /\ f \in Seq(StepSet)
      /\ \A x \in Elems(a) : x.op = "read_only"
      /\ \A x \in Elems(c) : x.op = "tmpfs"
      /\ \A x \in Elems(f) : x.op = "deny"
  BY <1>1, EachIs DEF Ops
<1>3. d \in Seq(StepSet) /\ e \in Seq(StepSet)
  <2>1. [op |-> "dev", at |-> DEV] \in StepSet /\ [op |-> "proc", at |-> PROC] \in StepSet
    BY PathsAssumption DEF StepSet, Ops
  <2> QED
    BY <2>1 DEF Dev
<1>4. /\ \A x \in Elems(d) : x.op = "dev"
      /\ \A x \in Elems(e) : x.op = "proc"
  BY DEF Elems, Dev
<1>5. /\ Len(a) = Len(pl.read_only) /\ Len(b) = Len(pl.read_write)
      /\ DOMAIN pl.read_write = 1..Len(pl.read_write)
      /\ \A i \in 1..Len(b) : b[i].at = pl.read_write[i]
  BY <1>1 DEF Each
<1>6. Steps(pl) = a \o b \o c \o d \o e \o f
  BY DEF Steps
<1> HIDE DEF a, b, c, d, e, f
<1>7. ASSUME NEW u \in Seq(StepSet), NEW v \in Seq(StepSet), NEW k \in DOMAIN (u \o v)
      PROVE  /\ u \o v \in Seq(StepSet)
             /\ \/ k \in DOMAIN u /\ (u \o v)[k] = u[k]
                \/ k - Len(u) \in DOMAIN v /\ (u \o v)[k] = v[k - Len(u)]
  OBVIOUS
<1>8. /\ a \o b \in Seq(StepSet) /\ (a \o b) \o c \in Seq(StepSet)
      /\ ((a \o b) \o c) \o d \in Seq(StepSet) /\ (((a \o b) \o c) \o d) \o e \in Seq(StepSet)
  BY <1>2, <1>3
<1>9. \A u, x : x \in DOMAIN u => u[x] \in Elems(u)
  BY DEF Elems
<1>10. n \in DOMAIN ((((a \o b) \o c) \o d) \o e)
       /\ Steps(pl)[n] = ((((a \o b) \o c) \o d) \o e)[n]
  BY <1>2, <1>6, <1>7, <1>8, <1>9
<1>11. n \in DOMAIN (((a \o b) \o c) \o d) /\ Steps(pl)[n] = (((a \o b) \o c) \o d)[n]
  BY <1>3, <1>4, <1>7, <1>8, <1>9, <1>10
<1>12. n \in DOMAIN ((a \o b) \o c) /\ Steps(pl)[n] = ((a \o b) \o c)[n]
  BY <1>3, <1>4, <1>7, <1>8, <1>9, <1>11
<1>13. n \in DOMAIN (a \o b) /\ Steps(pl)[n] = (a \o b)[n]
  BY <1>2, <1>7, <1>8, <1>9, <1>12
<1>14. n - Len(a) \in DOMAIN b /\ Steps(pl)[n] = b[n - Len(a)]
  BY <1>2, <1>7, <1>9, <1>13
<1>15. DOMAIN b = 1..Len(b)
  BY <1>2
<1> QED
  BY <1>5, <1>14, <1>15

-----------------------------------------------------------------------------
(* What setup() changes on the host. *)

LEMMA ChangesKept ==
  ASSUME PlanInv, HostInv, Placed, HostChangesNamed, StepDone
  PROVE  HostChangesNamed'
<1> DEFINE s == Head(todo)
           t == s.at
           g == AtTop(t)
<1>1. /\ todo # <<>> /\ todo' = Tail(todo) /\ UNCHANGED <<plan, given, status>> /\ Makings(s)
      /\ todo \in Seq(StepSet)
  BY DEF StepDone, Pops, PlanInv, Shape
<1>2. s \in StepSet /\ s.op \in Ops /\ t \in Paths /\ Wanted(plan, s)
  BY <1>1, HeadIs
<1>3. Now /\ HostOK(host) /\ VisibleTree(mounts, host, made) /\ given \in Hosts
  BY DEF PlanInv, Shape, Now, World
<1>4. /\ g \in Elems(mounts) /\ AsListed(g) /\ IsPrefix(g.at, t) /\ g.ro \in BOOLEAN
      /\ g.kind # "root" => g.at \in Paths
  BY <1>2, AtTopIs
<1>5. \A p \in Paths : host'[p] # given'[p] =>
        \/ host[p] = host'[p] /\ host[p] # given[p]
        \/ host[p] # host'[p]
  BY <1>1
<1> SUFFICES ASSUME NEW p \in Paths, host'[p] # given[p], host[p] # host'[p]
             PROVE  \/ /\ host'[p] = "emptied"
                       /\ \E i, j \in DOMAIN plan.read_write :
                            i < j /\ plan.read_write[j] = p /\ IsPrefix(plan.read_write[i], p)
                    \/ /\ given[p] = "absent" /\ host'[p] = "dir"
                       /\ \E i \in DOMAIN plan.tmpfs : IsPrefix(p, plan.tmpfs[i])
                       /\ Under(Front(p), plan.read_write)
  <2>1. \A p \in Paths : host[p] # given[p] /\ host'[p] = host[p] =>
                    \/ /\ host'[p] = "emptied"
                       /\ \E i, j \in DOMAIN plan.read_write :
                            i < j /\ plan.read_write[j] = p /\ IsPrefix(plan.read_write[i], p)
                    \/ /\ given[p] = "absent" /\ host'[p] = "dir"
                       /\ \E i \in DOMAIN plan.tmpfs : IsPrefix(p, plan.tmpfs[i])
                       /\ Under(Front(p), plan.read_write)
    BY DEF HostChangesNamed
  <2> QED
    BY <1>1, <2>1 DEF HostChangesNamed, Under
<1>6. PICK tn, Tr, new :
        /\ Makes(mounts, host, made, t, tn, Tr, new, host', made')
        /\ Tr # {} => s.op \in Binds /\ ~g.ro
        /\ NodeIn(mounts, host, made, t) = "absent" => ~g.ro
        /\ s.op \in Binds => HostNode(host, t) = tn
        /\ s.op # "deny"
  BY <1>1 DEF Makings, AtTop
<1>7. /\ g.kind = "bind" /\ tn \in {"dir", "file"}
      /\ \/ p = t /\ Tr # {} /\ host'[p] = "emptied"
         \/ p \in MissingIn(mounts, host, made, t) /\ HostNode(host, p) = "absent"
  <2>1. tn \in {"dir", "file"}
    BY <1>6 DEF Makes
  <2> QED
    BY <1>3, <1>6, <2>1, MadeExactly DEF Now, AtTop
<1>8. CASE p = t /\ Tr # {} /\ host'[p] = "emptied"
  <2>1. ~g.ro /\ s.op \in Binds
    BY <1>6, <1>8
  <2>2. s.op = "read_write"
    <3>1. MountRank(g) = 2
      BY <1>7, <2>1, MountRankIs
    <3>2. s \in Elems(todo)
      BY <1>1, Heads DEF PlanInv
    <3>3. MountRank(g) <= Rank[s.op]
      BY <1>4, <3>2 DEF PlanInv, InOrder
    <3> HIDE DEF s, g
    <3> QED
      BY <2>1, <3>1, <3>3, RankIs DEF Binds
  <2>3. PICK n \in 1..Done : Steps(plan)[n] = [op |-> "read_write", at |-> g.at]
    BY <1>4, <1>7, <2>1 DEF Placed
  <2>4. Done \in Nat /\ Done + 1 \in DOMAIN Steps(plan) /\ Steps(plan)[Done + 1] = s
    BY <1>1 DEF Placed
  <2>5. plan \in AllPlans /\ Steps(plan) \in Seq(StepSet)
    BY StepsAre DEF PlanInv, Shape
  <2>6. n \in DOMAIN Steps(plan)
    BY <2>3, <2>4, <2>5
  <2>7. Len(plan.read_only) \in Nat
    BY <2>5 DEF AllPlans
  <2> DEFINE i == n - Len(plan.read_only)
             j == (Done + 1) - Len(plan.read_only)
  <2> HIDE DEF s, g
  <2>8. i \in DOMAIN plan.read_write /\ plan.read_write[i] = g.at
    BY <2>3, <2>5, <2>6, StepsAt
  <2>9. j \in DOMAIN plan.read_write /\ plan.read_write[j] = t
    BY <2>2, <2>4, <2>5, StepsAt
  <2>10. i < j
    <3>1. n \in Int /\ Done \in Int /\ n <= Done
      BY <2>3, <2>4
    <3>2. \A x, y, z \in Int : x <= y => x - z < (y + 1) - z
      OBVIOUS
    <3>3. Len(plan.read_only) \in Int
      BY <2>7
    <3> HIDE DEF Done
    <3> QED
      BY <3>1, <3>2, <3>3
  <2> HIDE DEF i, j
  <2> QED
    BY <1>4, <1>8, <2>8, <2>9, <2>10
<1>9. CASE p \in MissingIn(mounts, host, made, t) /\ HostNode(host, p) = "absent"
  <2>1. /\ p \in Prefixes(t) /\ IsPrefix(p, t) /\ IsPrefix(g.at, p) /\ p # g.at
        /\ NodeIn(mounts, host, made, p) = "absent"
    BY <1>2, <1>3, <1>9, MissingOnTop DEF MissingIn, Now, AtTop
  <2>2. given[p] = "absent"
    BY <1>9 DEF HostInv, HostKept
  <2>3. host'[p] = "dir"
    <3>1. HostKept'
      BY HostInvKept DEF HostInv
    <3>2. host'[p] # "absent"
      BY <2>2
    <3> QED
      BY <1>1, <2>2, <3>1, <3>2 DEF HostKept
  <2>4. s.op \notin Binds
    <3> SUFFICES ASSUME s.op \in Binds PROVE FALSE
      OBVIOUS
    <3>1. HostNode(host, t) # "absent"
      BY <1>6, <1>7
    <3>2. p # t
      BY <1>9, <3>1
    <3> HIDE DEF s, g
    <3>3. HostNode(host, p) = "dir"
      BY <1>2, <2>1, <3>1, <3>2, AboveOnHost
    <3> QED
      BY <1>9, <3>3
  <2>5. t \notin {DEV, PROC}
    <3> SUFFICES ASSUME t \in {DEV, PROC} PROVE FALSE
      OBVIOUS
    <3>1. given \in AllHosts
      BY <1>3, HostsAssumption
    <3>2. IsTree(given) /\ given[t] = "dir"
      BY <3>1 DEF AllHosts
    <3>3. p = t \/ p \in Prefixes(t) \ {<<>>, t}
      BY <2>1, PathOrder
    <3> HIDE DEF s, g
    <3>4. given[p] = "dir"
      BY <1>2, <3>2, <3>3 DEF IsTree
    <3> QED
      BY <2>2, <3>4
  <2> HIDE DEF s, g
  <2>6. Listed(plan.tmpfs, t)
    BY <1>2, <1>6, <2>4, <2>5 DEF Wanted, Binds
  <2>7. Under(Front(p), plan.read_write)
    <3>1. NodeIn(mounts, host, made, t) = "absent"
      BY <1>2, <1>3, <2>1 DEF VisibleTree
    <3>2. Listed(plan.read_write, g.at) /\ g.at \in Paths
      BY <1>4, <1>6, <1>7, <3>1 DEF AsListed
    <3>3. IsPrefix(g.at, Front(p))
      <4>1. p \in Seq(STRING) /\ g.at \in Seq(STRING) /\ p # <<>>
        BY <3>2, PathsAssumption
      <4> QED
        BY <2>1, <4>1, FrontIs
    <3> QED
      BY <3>2, <3>3, UnderIs
  <2> QED
    BY <2>1, <2>2, <2>3, <2>6, <2>7 DEF Listed
<1> QED
  BY <1>7, <1>8, <1>9

-----------------------------------------------------------------------------
(* Where setup() fails. *)

LEMMA BindsDoNotFail ==
  ASSUME PlanInv, HostInv, todo # <<>>, Head(todo).op \in Binds
  PROVE  /\ Source(Head(todo).at) = "dir" => ~NoDir(Head(todo).at)
         /\ Source(Head(todo).at) = "file" => ~NoFile(Head(todo).at)
<1> DEFINE t == Head(todo).at
<1>1. t \in Paths /\ t \in Anywhere /\ t # <<>>
  BY HeadIs, PathOrder
<1> HIDE DEF t
<1>2. \A q : q \in Prefixes(t) => q \in Anywhere /\ (q = <<>> \/ q \in Paths)
  BY <1>1, PathOrder DEF Anywhere
<1>3. Node(<<>>) = "dir"
  BY NodeIsNodeIn, NodeValues DEF PlanInv, Shape, Now, World
<1>4. \A q \in Paths : /\ Node(q) # "absent" => Node(q) = HostNode(host, q)
                       /\ Governing(q).ro => Node(q) = HostNode(host, q)
  BY Mirror, NodeIsNodeIn DEF AtTop
<1>5. \A q : q \in Prefixes(t) /\ q # t /\ q # <<>> /\ HostNode(host, t) # "absent" =>
               HostNode(host, q) = "dir"
  BY <1>1, <1>2, AboveOnHost
<1>6. ASSUME Source(t) = "dir", NoDir(t) PROVE FALSE
  <2>1. HostNode(host, t) = "dir"
    BY <1>6, NodeIsNodeIn DEF Source
  <2>2. \A q \in Prefixes(t) : Node(q) # "file"
    BY <1>2, <1>3, <1>4, <1>5, <2>1
  <2>3. Governing(t).ro => Node(t) # "absent"
    BY <1>1, <1>4, <2>1
  <2> QED
    BY <1>6, <2>2, <2>3 DEF NoDir
<1>7. ASSUME Source(t) = "file", NoFile(t) PROVE FALSE
  <2>1. HostNode(host, t) = "file"
    BY <1>7, NodeIsNodeIn DEF Source
  <2>2. ~(Node(t) = "dir" \/ (Node(t) = "absent" /\ Governing(t).ro))
    BY <1>1, <1>4, <2>1
  <2>3. Front(t) \in Prefixes(t) /\ Front(t) # t /\ \A q \in Prefixes(Front(t)) : q \in Prefixes(t) /\ q # t
    <3>1. t \in Seq(STRING)
      BY <1>1, PathsAssumption
    <3>2. Front(t) \in Seq(STRING) /\ IsPrefix(Front(t), t) /\ Front(t) # t
      BY <1>1, <3>1, FrontIs
    <3>3. Front(t) \in Prefixes(t) /\ Front(t) \in Anywhere
      BY <1>2, <3>1, <3>2, PrefixIs
    <3>4. ASSUME NEW q \in Prefixes(Front(t)) PROVE q \in Prefixes(t) /\ q # t
      <4>1. q \in Anywhere /\ IsPrefix(q, Front(t))
        BY <3>3, PathOrder
      <4>2. IsPrefix(q, t)
        BY <1>1, <3>2, <3>3, <4>1, PathOrder
      <4>3. q # t
        BY <1>1, <3>2, <3>3, <4>1, PathOrder
      <4> QED
        BY <1>1, <4>1, <4>2, <4>3, PathOrder
    <3> QED
      BY <3>2, <3>3, <3>4
  <2>4. \A q \in Prefixes(Front(t)) : Node(q) # "file"
    BY <1>2, <1>3, <1>4, <1>5, <2>1, <2>3
  <2>5. ~(Node(Front(t)) = "absent" /\ Governing(Front(t)).ro)
    BY <1>2, <1>3, <1>4, <1>5, <2>1, <2>3
  <2>6. ~NoDir(Front(t))
    BY <2>4, <2>5 DEF NoDir
  <2> QED
    BY <1>7, <2>2, <2>6 DEF NoFile
<1> QED
  BY <1>6, <1>7 DEF t

\* /dev and /proc are directories of every host.
LEMMA AboveDevProc ==
  ASSUME PlanInv, NEW t \in {DEV, PROC}, NEW p \in Paths, IsPrefix(p, t)
  PROVE  given[p] = "dir"
<1>1. given \in AllHosts
  BY HostsAssumption DEF PlanInv, Shape
<1>2. IsTree(given) /\ given[t] = "dir" /\ t \in Paths
  BY <1>1, PathsAssumption DEF AllHosts
<1>3. p = t \/ p \in Prefixes(t) \ {<<>>, t}
  BY <1>2, PathOrder
<1> QED
  BY <1>2, <1>3 DEF IsTree

LEMMA FailureIsNamed ==
  ASSUME PlanInv, HostInv, StepFails
  PROVE  OnlyFreshMountsFail'
<1> DEFINE s == Head(todo)
           t == s.at
           Stops == \E q \in Prefixes(t) \ {<<>>} : SharedFile(q)
<1>1. todo # <<>> /\ UNCHANGED <<plan, given, todo>>
  BY DEF StepFails, Fail
<1>2. s.op \in Ops /\ t \in Paths /\ t \in Anywhere /\ Wanted(plan, s) /\ s \in Elems(todo)
  BY <1>1, HeadIs, Heads, PathOrder DEF PlanInv
<1> SUFFICES /\ s.op \in {"tmpfs", "deny"}
             /\ Stops \/ (given[t] = "absent" /\ Under(t, plan.read_only \o plan.read_write))
  BY <1>1 DEF OnlyFreshMountsFail, SharedFile, Under
<1>3. ASSUME NEW q \in Prefixes(t), Node(q) = "file" PROVE Stops /\ t \notin {DEV, PROC}
  <2>1. NodeIn(mounts, host, made, q) = "file" /\ NodeIn(mounts, host, made, <<>>) = "dir"
    BY <1>3, NodeIsNodeIn, NodeValues DEF PlanInv, Shape, Now, World
  <2> HIDE DEF s
  <2>2. q # <<>> /\ q \in Anywhere /\ IsPrefix(q, t)
    BY <1>2, <2>1, PathOrder
  <2>3. q \in Paths
    BY <2>2 DEF Anywhere
  <2>4. SharedFile(q)
    BY <2>1, <2>3, Seen
  <2>5. t \notin {DEV, PROC}
    BY <2>2, <2>3, <2>4, AboveDevProc DEF SharedFile
  <2> QED
    BY <2>2, <2>4, <2>5
<1>4. ASSUME Node(t) = "absent", Governing(t).kind = "bind"
      PROVE  /\ given[t] = "absent" /\ Under(t, plan.read_only \o plan.read_write)
             /\ t \notin {DEV, PROC}
  <2> DEFINE g == AtTop(t)
  <2>1. /\ AsListed(g) /\ IsPrefix(g.at, t) /\ g.node \in {"dir", "file"} /\ g.kind = "bind"
        /\ g.ro \in BOOLEAN /\ (g.kind # "root" => g.at \in Paths)
    BY <1>2, <1>4, AtTopIs, NodeIsNodeIn DEF AtTop
  <2>2. HostNode(host, t) = "absent"
    BY <1>4, <2>1, NodeIsNodeIn DEF NodeIn, AtTop
  <2> HIDE DEF s, g
  <2>3. given[t] = "absent"
    BY <1>2, <2>2 DEF HostInv, HostKept
  <2>4. Under(t, plan.read_only \o plan.read_write)
    BY <2>1, UnderIs DEF AsListed
  <2>5. t \notin {DEV, PROC}
    BY <1>2, <2>3, AboveDevProc, PathOrder
  <2> QED
    BY <2>3, <2>4, <2>5
<1>4a. ASSUME s.op \in {"tmpfs", "dev", "proc"}, Node(t) = "absent", Governing(t).ro
      PROVE  Governing(t).kind = "bind"
  <2> DEFINE g == AtTop(t)
  <2>1. AsListed(g) /\ g.ro /\ g \in Elems(mounts) /\ g.kind \in Kinds /\ g = Governing(t)
    BY <1>2, <1>4a, AtTopIs, NodeIsNodeIn DEF AtTop
  <2>2. g.kind \in {"root", "bind", "tmpfs"}
    <3>1. EarlyMounts
      BY <1>1, <1>4a, EarlyHead DEF PlanInv
    <3> QED
      BY <2>1, <3>1 DEF EarlyMounts, Elems
  <2>3. g.kind # "root"
    <3>1. MountsOK(mounts) /\ TopIn(mounts, t) \in DOMAIN mounts
      BY <1>2, TopIs DEF PlanInv, Shape, Now, World
    <3> QED
      BY <2>1, <3>1, MountFields DEF AtTop, MountsOK, Root
  <2> QED
    BY <2>1, <2>2, <2>3 DEF AsListed
<1>5. CASE s.op \in Binds
  <2>1. ~(Source(t) = "dir" /\ NoDir(t)) /\ ~(Source(t) = "file" /\ NoFile(t))
    BY <1>1, <1>5, BindsDoNotFail
  <2> QED
    BY <1>5, <2>1 DEF StepFails, Binds
<1>6. CASE s.op \in {"tmpfs", "dev", "proc"}
  <2>1. NoDir(t) \/ Refusable(t)
    BY <1>6 DEF StepFails, Binds
  <2>2. s.op \in {"dev", "proc"} => t \in {DEV, PROC}
    BY <1>2 DEF Wanted
  <2> HIDE DEF s, Stops
  <2> QED
    BY <1>3, <1>4, <1>6, <1>4a, <2>1, <2>2 DEF NoDir, Refusable
<1>7. CASE s.op = "deny"
  <2>1. BelowFile(t) \/ Refusable(t)
    BY <1>7 DEF StepFails, Binds
  <2> HIDE DEF s, Stops
  <2> QED
    BY <1>3, <1>4, <1>7, <2>1 DEF BelowFile, Refusable
<1> HIDE DEF s, Stops
<1> QED
  BY <1>2, <1>5, <1>6, <1>7 DEF Ops, Binds

SetupInv ==
  PlanInv /\ HostInv /\ Placed /\ HostChangesNamed /\ OnlyFreshMountsFail

LEMMA SetupBegins == Init => SetupInv
<1> SUFFICES ASSUME Init PROVE SetupInv
  OBVIOUS
<1>1. PlanInv
  BY Begins
<1>2. host = given /\ made = {} /\ todo = Steps(plan) /\ status = "setup" /\ mounts = <<Root>>
  BY DEF Init, Root
<1>3. \A m \in Elems(mounts) : m = Root
  BY <1>2 DEF Elems
<1>4. HostInv
  <2>1. \A p \in Paths : given[p] \in {"absent", "dir", "file"}
    <3>1. given \in AllHosts
      BY <1>1, HostsAssumption DEF PlanInv, Shape
    <3> QED
      BY <3>1 DEF AllHosts
  <2>2. HostKept
    BY <1>2, <2>1 DEF HostKept, HostNode
  <2>3. FilesShared /\ Mirrored
    BY <1>2, <1>3 DEF FilesShared, Mirrored, Root
  <2> QED
    BY <2>2, <2>3 DEF HostInv
<1>5. Placed
  <2>1. Steps(plan) \in Seq(StepSet)
    BY <1>1, StepsAre DEF PlanInv, Shape
  <2>2. Done = 0
    BY <1>2, <2>1 DEF Done
  <2> QED
    BY <1>2, <1>3, <2>1, <2>2 DEF Placed, Root
<1>6. HostChangesNamed /\ OnlyFreshMountsFail
  BY <1>2 DEF HostChangesNamed, OnlyFreshMountsFail
<1> QED
  BY <1>1, <1>4, <1>5, <1>6 DEF SetupInv

LEMMA SetupGoesOn ==
  ASSUME SetupInv, [Next]_vars
  PROVE  SetupInv'
<1> USE DEF SetupInv
<1>1. PlanInv'
  BY Effects, EffectKeeps DEF PlanInv
<1>2. StepDone \/ StepFails \/ Idles
  BY StepIs DEF PlanInv
<1>3. CASE StepDone
  <2>1. OnlyFreshMountsFail'
    BY <1>3 DEF StepDone, Pops, OnlyFreshMountsFail
  <2> QED
    BY <1>1, <1>3, <2>1, HostInvKept, PlacedKept, ChangesKept
<1>4. ASSUME UNCHANGED <<plan, given, host, mounts, made, todo>>
      PROVE  HostInv' /\ Placed' /\ HostChangesNamed'
  <2>1. HostKept' /\ Mirrored'
    BY <1>4 DEF HostInv, HostKept, Mirrored, Binding, HostNode, Elems
  <2>2. FilesShared'
    BY <1>4 DEF HostInv, FilesShared, SharedFile, Under, Elems
  <2>3. Placed'
    BY <1>4 DEF Placed, Done, Elems
  <2>4. HostChangesNamed'
    BY <1>4 DEF HostChangesNamed, Under
  <2> QED
    BY <2>1, <2>2, <2>3, <2>4 DEF HostInv
<1>5. CASE StepFails
  BY <1>1, <1>4, <1>5, FailureIsNamed DEF StepFails, Fail
<1>6. CASE Idles
  <2>1. OnlyFreshMountsFail'
    BY <1>6 DEF Idles, OnlyFreshMountsFail, Under
  <2> QED
    BY <1>1, <1>4, <1>6, <2>1 DEF Idles
<1> QED
  BY <1>2, <1>3, <1>5, <1>6

\* The invariant behind the two theorems below.
THEOREM SetupIsFollowed == Spec => []SetupInv
BY SetupBegins, SetupGoesOn, PTL DEF Spec

\* setup() changes the host before the command runs in two ways, for every plan
\* and host: File::create empties a file listed in read_write after a path above
\* it, and create_dir_all makes the mount point of a tmpfs in a read_write directory.
THEOREM HostIsSpared == Spec => []HostChangesNamed
<1>1. SetupInv => HostChangesNamed
  BY DEF SetupInv
<1> QED
  BY <1>1, SetupIsFollowed, PTL

\* bind_path never makes setup() fail, nor do setup_dev and setup_proc: only a
\* tmpfs and a denied path do, at or beneath a file of the host that is bound, or
\* at a path the host has not, beneath one that is bound.
THEOREM FailuresAreNamed == Spec => []OnlyFreshMountsFail
<1>1. SetupInv => OnlyFreshMountsFail
  BY DEF SetupInv
<1> QED
  BY <1>1, SetupIsFollowed, PTL
=============================================================================
