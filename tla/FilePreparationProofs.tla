----------------------- MODULE FilePreparationProofs -----------------------
(***************************************************************************)
(* Proofs about the preparation of a module's files, for modules of any    *)
(* number of files with any number of writes, any pool of workers and any  *)
(* capacity of the path table.                                             *)
(***************************************************************************)
EXTENDS FilePreparation, FiniteSetTheorems, SequenceTheorems,
        WellFoundedInduction, TLAPS

-----------------------------------------------------------------------------
(***************************************************************************)
(* Induction and recursion.                                                *)
(***************************************************************************)
(* A non-empty set of natural numbers has a least element.                 *)
LEMMA LeastNat ==
    ASSUME NEW S \in SUBSET Nat, S # {}
    PROVE  \E n \in S : \A m \in S : n <= m
<1>1. PICK b \in S : TRUE
  OBVIOUS
<1> DEFINE Dom == 0..b
           T == S \cap Dom
           F == {0..m : m \in T}
           R == StrictSubsetOrdering(Dom)
<1>2. IsFiniteSet(Dom)
  BY FS_Interval
<1>3. IsWellFoundedOn(R, SUBSET Dom)
  BY <1>2, FS_StrictSubsetOrderingWellFounded, FS_FiniteSubsetsOfFinite
<1>4. F \subseteq SUBSET Dom /\ F # {}
  <2>1. ASSUME NEW m \in T PROVE 0..m \in SUBSET Dom
    OBVIOUS
  <2>2. b \in T
    OBVIOUS
  <2> QED BY <2>1, <2>2
<1>5. PICK x \in F : \A y \in F : ~(<<y, x>> \in R)
  <2> HIDE DEF F, R
  <2> QED BY <1>3, <1>4, WFMin
<1>6. PICK n \in T : x = 0..n
  BY <1>5
<1>7. ASSUME NEW m \in S, m < n PROVE FALSE
  <2>1. m \in T /\ 0..m \in F
    BY <1>7
  <2>2. <<0..m, 0..n>> \in R
    BY <1>7, <2>1 DEF StrictSubsetOrdering
  <2> QED BY <1>5, <1>6, <2>1, <2>2
<1> QED BY <1>6, <1>7

(* Induction, with the property as a set.                                  *)
LEMMA Induct ==
    ASSUME NEW n \in Nat, NEW S, 0 \in S,
           \A k \in 1..n : k - 1 \in S => k \in S
    PROVE  \A k \in 0..n : k \in S
<1> DEFINE Bad == {k \in 0..n : k \notin S}
<1> SUFFICES ASSUME Bad # {} PROVE FALSE
  OBVIOUS
<1>1. PICK m \in Bad : \A j \in Bad : m <= j
  <2>1. Bad \in SUBSET Nat
    OBVIOUS
  <2> HIDE DEF Bad
  <2> QED BY <2>1, LeastNat
<1>2. m \in 1..n /\ m - 1 \in 0..n /\ m - 1 \notin Bad
  BY <1>1
<1> QED BY <1>2

(* f goes from x0 through n steps; step k is the function G[k].             *)
IsRun(f, V, x0, n, G) ==
    f \in [0..n -> V] /\ f[0] = x0 /\ \A k \in 1..n : f[k] = G[k][f[k - 1]]

(* There is such a run: the recursive functions of FilePreparation are what *)
(* their defining equations say.                                           *)
LEMMA Runs ==
    ASSUME NEW V, NEW x0 \in V, NEW n \in Nat, NEW G \in [1..n -> [V -> V]]
    PROVE  \E f : IsRun(f, V, x0, n, G)
<1> DEFINE Run(f, m) == f[0] = x0 /\ \A k \in 1..m : f[k] = G[k][f[k - 1]]
           Good(m) == \E f \in [0..m -> V] : Run(f, m)
<1>0. Good(0)
  <2>1. [j \in 0..0 |-> x0] \in [0..0 -> V] /\ Run([j \in 0..0 |-> x0], 0)
    OBVIOUS
  <2> QED BY <2>1
<1>1. ASSUME NEW m \in 1..n, Good(m - 1) PROVE Good(m)
  <2>2. PICK f \in [0..(m-1) -> V] : Run(f, m - 1)
    BY <1>1
  <2> DEFINE g == [j \in 0..m |-> IF j = m THEN G[m][f[m - 1]] ELSE f[j]]
  <2>3. G[m][f[m-1]] \in V
    BY <2>2
  <2>4. g \in [0..m -> V]
    BY <2>3
  <2>5. Run(g, m)
    <3>1. g[0] = x0
      BY <2>2
    <3>2. ASSUME NEW k \in 1..m PROVE g[k] = G[k][g[k-1]]
      <4>1. CASE k = m
         BY <4>1
      <4>2. CASE k # m
         BY <4>2, <2>2
      <4> QED BY <4>1, <4>2
    <3> QED BY <3>1, <3>2
  <2> QED BY <2>4, <2>5
<1> HIDE DEF Good
<1>2. \A k \in 0..n : k \in {m \in 0..n : Good(m)}
  <2> DEFINE S == {m \in 0..n : Good(m)}
  <2>1. 0 \in S /\ \A k \in 1..n : k - 1 \in S => k \in S
    BY <1>0, <1>1
  <2> HIDE DEF S
  <2>2. \A k \in 0..n : k \in S
    BY <2>1, Induct
  <2> QED BY <2>2 DEF S
<1>3. Good(n)
  BY <1>2
<1> QED BY <1>3 DEF Good, IsRun

-----------------------------------------------------------------------------
(***************************************************************************)
(* Tables.                                                                 *)
(***************************************************************************)
Node == [parent : Nat, component : Nat]
Tables == [strings : Seq(Words), paths : Seq(Node)]

Distinct(s) == \A i, j \in 1..Len(s) : s[i] = s[j] => i = j

Prefix(s, u) == Len(s) <= Len(u) /\ \A i \in 1..Len(s) : u[i] = s[i]

Extends(t, u) == Prefix(t.strings, u.strings) /\ Prefix(t.paths, u.paths)

(* The nodes of a path table over n strings: each after its parent.        *)
Rooted(paths, n) ==
    /\ Len(paths) \in 1..PathCapacity /\ paths[1] = RootNode
    /\ \A i \in 2..Len(paths) :
         paths[i].parent \in 1..(i - 1) /\ paths[i].component \in 1..n

Sound(t) ==
    /\ t \in Tables /\ Distinct(t.strings) /\ Distinct(t.paths)
    /\ Rooted(t.paths, Len(t.strings))

(* A path table can address at least its root.                             *)
LEMMA Capacity == PathCapacity \in Nat /\ PathCapacity > 0
BY FilePreparationAssumption DEF FilePreparationAssumption

(* In a table without duplicates an entry's id is its position.            *)
LEMMA IdOfIs ==
    ASSUME NEW V, NEW s \in Seq(V), Distinct(s), NEW i \in 1..Len(s)
    PROVE  IdOf(s, s[i]) = i
<1>1. DOMAIN s = 1..Len(s)
  OBVIOUS
<1>2. \E k \in DOMAIN s : s[k] = s[i]
  BY <1>1
<1>3. IdOf(s, s[i]) \in DOMAIN s /\ s[IdOf(s, s[i])] = s[i]
  BY <1>2 DEF IdOf
<1> QED BY <1>1, <1>3 DEF Distinct

(* StringTable::intern: what is there stays where it is.                   *)
LEMMA InternedIs ==
    ASSUME NEW V, NEW s \in Seq(V), NEW x \in V
    PROVE  LET u == Interned(s, x) IN
           /\ u \in Seq(V) /\ Prefix(s, u) /\ Len(u) <= Len(s) + 1
           /\ IdOf(u, x) \in 1..Len(u) /\ u[IdOf(u, x)] = x
           /\ x \in Range(u)
           /\ x \in Range(s) => u = s
           /\ x \notin Range(s) => u = Append(s, x) /\ Len(u) = Len(s) + 1
           /\ Distinct(s) => Distinct(u)
<1> DEFINE u == Interned(s, x)
<1>1. CASE x \in Range(s)
  <2>1. u = s
    BY <1>1 DEF Interned
  <2>2. \E k \in DOMAIN s : s[k] = x
    BY <1>1 DEF Range
  <2>3. IdOf(s, x) \in DOMAIN s /\ s[IdOf(s, x)] = x
    BY <2>2 DEF IdOf
  <2> HIDE DEF u
  <2> QED BY <1>1, <2>1, <2>3 DEF Prefix, u
<1>2. CASE x \notin Range(s)
  <2>1. u = Append(s, x) /\ u \in Seq(V) /\ Len(u) = Len(s) + 1
        /\ u[Len(s) + 1] = x /\ \A i \in 1..Len(s) : u[i] = s[i]
    BY <1>2 DEF Interned
  <2>2. \A i \in 1..Len(s) : s[i] # x
    BY <1>2 DEF Range
  <2>3. Len(s) \in Nat /\ DOMAIN u = 1..(Len(s) + 1)
    BY <2>1
  <2>4. \E k \in DOMAIN u : u[k] = x
    BY <2>1, <2>3
  <2>5. IdOf(u, x) \in DOMAIN u /\ u[IdOf(u, x)] = x
    BY <2>4 DEF IdOf
  <2>6. x \in Range(u)
    BY <2>4 DEF Range
  <2>7. Distinct(s) => Distinct(u)
    <3> SUFFICES ASSUME Distinct(s), NEW i \in 1..Len(u), NEW j \in 1..Len(u),
                        u[i] = u[j], i # j
                 PROVE  FALSE
      BY DEF Distinct
    <3> HIDE DEF u
    <3>1. CASE i \in 1..Len(s) /\ j \in 1..Len(s)
      BY <2>1, <3>1 DEF Distinct
    <3>2. CASE i \in 1..Len(s) /\ j = Len(s) + 1
      BY <2>1, <2>2, <3>2
    <3>3. CASE j \in 1..Len(s) /\ i = Len(s) + 1
      BY <2>1, <2>2, <3>3
    <3> QED BY <2>1, <2>3, <3>1, <3>2, <3>3
  <2>8. Prefix(s, u)
    BY <2>1, <2>3 DEF Prefix
  <2> HIDE DEF u
  <2> QED BY <1>2, <2>1, <2>3, <2>5, <2>6, <2>7, <2>8 DEF u
<1> QED BY <1>1, <1>2

(* Growing is transitive.                                                  *)
LEMMA PrefixTrans ==
    ASSUME NEW V, NEW s \in Seq(V), NEW u \in Seq(V), NEW v \in Seq(V),
           Prefix(s, u), Prefix(u, v)
    PROVE  Prefix(s, v)
<1>1. \A i \in 1..Len(s) : i \in 1..Len(u)
  BY DEF Prefix
<1> QED BY <1>1 DEF Prefix

(* So it is for a pair of tables.                                          *)
LEMMA ExtendsTrans ==
    ASSUME NEW t \in Tables, NEW u \in Tables, NEW v \in Tables,
           Extends(t, u), Extends(u, v)
    PROVE  Extends(t, v)
<1>1. /\ t.strings \in Seq(Words) /\ u.strings \in Seq(Words) /\ v.strings \in Seq(Words)
      /\ t.paths \in Seq(Node) /\ u.paths \in Seq(Node) /\ v.paths \in Seq(Node)
  BY DEF Tables
<1> QED BY <1>1, PrefixTrans DEF Extends

(* A pair of tables is a growth of itself.                                 *)
LEMMA ExtendsSelf ==
    ASSUME NEW t \in Tables PROVE Extends(t, t)
BY DEF Extends, Prefix, Tables

-----------------------------------------------------------------------------
(***************************************************************************)
(* Texts.                                                                  *)
(***************************************************************************)
LEMMA SoundParts ==
    ASSUME NEW t, Sound(t)
    PROVE  /\ t.strings \in Seq(Words) /\ t.paths \in Seq(Node)
           /\ Len(t.strings) \in Nat /\ Len(t.paths) \in 1..PathCapacity
           /\ DOMAIN t.strings = 1..Len(t.strings) /\ DOMAIN t.paths = 1..Len(t.paths)
           /\ t = [strings |-> t.strings, paths |-> t.paths]
           /\ t.paths[1] = RootNode
           /\ \A i \in 2..Len(t.paths) :
                t.paths[i].parent \in 1..(i - 1) /\ t.paths[i].component \in 1..Len(t.strings)
BY DEF Sound, Tables, Rooted

(* What TextOf computes: its equations have a solution.                    *)
LEMMA TextIs ==
    ASSUME NEW t, Sound(t)
    PROVE  /\ TextOf(t, 1) = <<>>
           /\ \A i \in 2..Len(t.paths) :
                TextOf(t, i) = Append(TextOf(t, t.paths[i].parent),
                                      t.strings[t.paths[i].component])
           /\ \A i \in 1..Len(t.paths) : TextOf(t, i) \in Seq(Words)
<1> DEFINE n == Len(t.paths)
           Last(i) == t.strings[t.paths[i].component]
           Up(i) == t.paths[i].parent
           Def(f) == [i \in DOMAIN t.paths |-> IF i = Root THEN <<>> ELSE Append(f[Up(i)], Last(i))]
           Run(f, m) == \A i \in 1..m : f[i] = IF i = 1 THEN <<>> ELSE Append(f[Up(i)], Last(i))
           Good(m) == \E f \in [1..m -> Seq(Words)] : Run(f, m)
<1>1. n \in Nat /\ n >= 1 /\ DOMAIN t.paths = 1..n
      /\ \A i \in 2..n : Up(i) \in 1..(i - 1) /\ Last(i) \in Words
  BY SoundParts, Capacity
<1> HIDE DEF n, Last, Up
<1>2. Good(0)
  <2>1. [i \in 1..0 |-> <<>>] \in [1..0 -> Seq(Words)] /\ 1..0 = {}
    OBVIOUS
  <2>2. Run([i \in 1..0 |-> <<>>], 0)
    BY <2>1
  <2> HIDE DEF Run
  <2> QED BY <2>1, <2>2
<1>3. ASSUME NEW m \in 1..n, Good(m - 1) PROVE Good(m)
  <2>1. PICK f \in [1..(m - 1) -> Seq(Words)] : Run(f, m - 1)
    BY <1>3
  <2> DEFINE top == IF m = 1 THEN <<>> ELSE Append(f[Up(m)], Last(m))
             g == [i \in 1..m |-> IF i = m THEN top ELSE f[i]]
  <2>2. top \in Seq(Words)
    <3>1. CASE m = 1
      BY <3>1
    <3>2. CASE m # 1
      <4>1. Up(m) \in 1..(m - 1) /\ Last(m) \in Words
        BY <1>1, <3>2
      <4>2. f[Up(m)] \in Seq(Words)
        BY <4>1
      <4> QED BY <3>2, <4>1, <4>2
    <3> QED BY <3>1, <3>2
  <2>3. g \in [1..m -> Seq(Words)]
    <3> HIDE DEF top
    <3> QED BY <2>2, <1>1
  <2>4. ASSUME NEW i \in 1..m
        PROVE  g[i] = IF i = 1 THEN <<>> ELSE Append(g[Up(i)], Last(i))
    <3>1. i # 1 => Up(i) \in 1..(m - 1) /\ Up(i) # m /\ g[Up(i)] = f[Up(i)]
      BY <1>1
    <3>2. CASE i = m
      BY <3>1, <3>2
    <3>3. CASE i # m
      <4>1. i \in 1..(m - 1) /\ g[i] = f[i]
        BY <3>3
      <4> QED BY <4>1, <3>1, <2>1
    <3> QED BY <3>2, <3>3
  <2> QED BY <2>3, <2>4
<1>4. Good(n)
  <2> DEFINE S == {m \in 0..n : Good(m)}
  <2> HIDE DEF Good
  <2>1. 0 \in S /\ \A k \in 1..n : k - 1 \in S => k \in S
    BY <1>1, <1>2, <1>3
  <2> HIDE DEF S
  <2>2. \A k \in 0..n : k \in S
    BY <1>1, <2>1, Induct
  <2> QED BY <1>1, <2>2 DEF S
<1>5. PICK f \in [1..n -> Seq(Words)] : Run(f, n)
  BY <1>4
<1>6. f = Def(f)
  BY <1>1, <1>5 DEF Root
<1> DEFINE g == CHOOSE h : h = Def(h)
<1>7. \A i : TextOf(t, i) = g[i]
  BY DEF TextOf, Up, Last
<1>8. g = Def(g)
  <2> HIDE DEF Def
  <2> QED BY <1>6
<1> HIDE DEF g
<1>9. g[1] = <<>> /\ \A i \in 2..n : g[i] = Append(g[Up(i)], Last(i))
  <2>1. Def(g)[1] = <<>> /\ \A i \in 2..n : Def(g)[i] = Append(g[Up(i)], Last(i))
    <3>1. 1 \in DOMAIN t.paths /\ \A i \in 2..n : i \in DOMAIN t.paths /\ i # 1
      BY <1>1
    <3> HIDE DEF Up, Last
    <3> QED BY <3>1 DEF Root
  <2> HIDE DEF Def
  <2> QED BY <1>8, <2>1
<1>10. \A i \in 1..n : g[i] \in Seq(Words)
  <2> DEFINE S == {m \in 0..n : \A i \in 1..m : g[i] \in Seq(Words)}
  <2>1. 0 \in S
    BY <1>1
  <2>2. ASSUME NEW k \in 1..n, k - 1 \in S PROVE k \in S
    <3>1. \A i \in 1..(k - 1) : g[i] \in Seq(Words)
      BY <2>2
    <3>2. g[k] \in Seq(Words)
      <4>1. CASE k = 1
        BY <4>1, <1>9
      <4>2. CASE k # 1
        <5>1. k \in 2..n /\ Up(k) \in 1..(k - 1) /\ Last(k) \in Words
          BY <1>1, <4>2
        <5>2. g[Up(k)] \in Seq(Words) /\ g[k] = Append(g[Up(k)], Last(k))
          BY <1>9, <3>1, <5>1
        <5> QED BY <5>1, <5>2
      <4> QED BY <4>1, <4>2
    <3>3. \A i \in 1..k : i \in 1..(k - 1) \/ i = k
      BY <1>1
    <3>4. \A i \in 1..k : g[i] \in Seq(Words)
      BY <3>1, <3>2, <3>3
    <3> QED BY <1>1, <3>4
  <2> HIDE DEF S
  <2>3. \A k \in 0..n : k \in S
    BY <1>1, <2>1, <2>2, Induct
  <2>4. n \in S
    BY <1>1, <2>3
  <2> QED BY <2>4 DEF S
<1> QED BY <1>7, <1>9, <1>10 DEF n, Up, Last

(* One pair of tables inside another: rs and rp are where its strings and  *)
(* its nodes are.                                                          *)
Embeds(l, m, rs, rp) ==
    /\ rs \in [1..Len(l.strings) -> 1..Len(m.strings)]
    /\ rp \in [1..Len(l.paths) -> 1..Len(m.paths)]
    /\ \A i \in 1..Len(l.strings) : m.strings[rs[i]] = l.strings[i]
    /\ rp[1] = 1
    /\ \A i \in 2..Len(l.paths) :
         m.paths[rp[i]] = [ parent |-> rp[l.paths[i].parent],
                            component |-> rs[l.paths[i].component] ]

(* Where an embedding takes a node that is not the root.                   *)
LEMMA EmbedNode ==
    ASSUME NEW l, NEW m, NEW rs, NEW rp, Sound(l), Sound(m), Embeds(l, m, rs, rp),
           NEW i \in 2..Len(l.paths)
    PROVE  /\ l.paths[i].parent \in 1..(i - 1) /\ l.paths[i].parent \in 1..Len(l.paths)
           /\ l.paths[i].component \in 1..Len(l.strings)
           /\ rp[i] \in 2..Len(m.paths)
           /\ m.paths[rp[i]].parent = rp[l.paths[i].parent]
           /\ m.paths[rp[i]].component = rs[l.paths[i].component]
<1>1. /\ l.paths[i].parent \in 1..(i - 1) /\ l.paths[i].parent \in 1..Len(l.paths)
      /\ l.paths[i].component \in 1..Len(l.strings) /\ i \in 1..Len(l.paths)
  BY SoundParts, Capacity
<1>2. /\ m.paths[rp[i]].parent = rp[l.paths[i].parent]
      /\ m.paths[rp[i]].component = rs[l.paths[i].component]
  <2>1. m.paths[rp[i]] = [ parent |-> rp[l.paths[i].parent],
                           component |-> rs[l.paths[i].component] ]
    BY DEF Embeds
  <2> QED BY <2>1
<1>3. rp[i] \in 1..Len(m.paths) /\ rp[l.paths[i].parent] \in 1..Len(m.paths)
  BY <1>1 DEF Embeds
<1>4. rp[i] # 1
  BY <1>2, <1>3, SoundParts DEF RootNode
<1> QED BY <1>1, <1>2, <1>3, <1>4, SoundParts, Capacity

(* A path that is moved with its parents stands for the same text.         *)
LEMMA EmbedText ==
    ASSUME NEW l, NEW m, NEW rs, NEW rp, Sound(l), Sound(m), Embeds(l, m, rs, rp)
    PROVE  \A i \in 1..Len(l.paths) : TextOf(m, rp[i]) = TextOf(l, i)
<1> DEFINE n == Len(l.paths)
           S == {j \in 0..n : \A i \in 1..j : TextOf(m, rp[i]) = TextOf(l, i)}
<1>0. n \in Nat
  BY SoundParts, Capacity
<1>1. 0 \in S
  BY <1>0
<1>2. ASSUME NEW k \in 1..n, k - 1 \in S PROVE k \in S
  <2>1. TextOf(m, rp[k]) = TextOf(l, k)
    <3>1. CASE k = 1
      BY <3>1, TextIs DEF Embeds
    <3>2. CASE k # 1
      <4>1. k \in 2..Len(l.paths)
        BY <1>0, <3>2
      <4> DEFINE p == l.paths[k].parent
                 c == l.paths[k].component
      <4>2. /\ p \in 1..(k - 1) /\ c \in 1..Len(l.strings) /\ rp[k] \in 2..Len(m.paths)
            /\ m.paths[rp[k]].parent = rp[p] /\ m.paths[rp[k]].component = rs[c]
        BY <4>1, EmbedNode
      <4>3. TextOf(l, k) = Append(TextOf(l, p), l.strings[c])
        BY <4>1, TextIs
      <4>4. TextOf(m, rp[k]) = Append(TextOf(m, rp[p]), m.strings[rs[c]])
        <5>1. TextOf(m, rp[k]) = Append(TextOf(m, m.paths[rp[k]].parent),
                                        m.strings[m.paths[rp[k]].component])
          BY <4>2, TextIs
        <5> QED BY <4>2, <5>1
      <4>5. TextOf(m, rp[p]) = TextOf(l, p) /\ m.strings[rs[c]] = l.strings[c]
        BY <1>2, <4>2 DEF Embeds
      <4> QED BY <4>3, <4>4, <4>5
    <3> QED BY <3>1, <3>2
  <2>2. \A i \in 1..k : i \in 1..(k - 1) \/ i = k
    BY <1>0
  <2> QED BY <1>0, <1>2, <2>1, <2>2
<1> HIDE DEF S
<1>3. \A k \in 0..n : k \in S
  BY <1>0, <1>1, <1>2, Induct
<1>4. n \in S
  BY <1>0, <1>3
<1> QED BY <1>4 DEF S

(* An embedding takes no two strings and no two nodes to one.              *)
LEMMA EmbedInjective ==
    ASSUME NEW l, NEW m, NEW rs, NEW rp, Sound(l), Sound(m), Embeds(l, m, rs, rp)
    PROVE  /\ \A i, j \in 1..Len(l.strings) : rs[i] = rs[j] => i = j
           /\ \A i, j \in 1..Len(l.paths) : rp[i] = rp[j] => i = j
<1>a. \A i, j \in 1..Len(l.strings) : rs[i] = rs[j] => i = j
  BY DEF Embeds, Sound, Distinct
<1>b. \A i \in 2..Len(l.paths) :
        /\ l.paths[i].parent \in 1..(i - 1) /\ l.paths[i].component \in 1..Len(l.strings)
        /\ rp[i] \in 2..Len(m.paths)
        /\ m.paths[rp[i]].parent = rp[l.paths[i].parent]
        /\ m.paths[rp[i]].component = rs[l.paths[i].component]
  <2> SUFFICES ASSUME NEW i \in 2..Len(l.paths)
               PROVE  /\ l.paths[i].parent \in 1..(i - 1)
                      /\ l.paths[i].component \in 1..Len(l.strings)
                      /\ rp[i] \in 2..Len(m.paths)
                      /\ m.paths[rp[i]].parent = rp[l.paths[i].parent]
                      /\ m.paths[rp[i]].component = rs[l.paths[i].component]
    OBVIOUS
  <2>1. l.paths[i].parent \in 1..(i - 1) /\ l.paths[i].component \in 1..Len(l.strings)
    BY SoundParts
  <2>2. rp[i] \in 2..Len(m.paths)
    BY EmbedNode
  <2>3. m.paths[rp[i]] = [ parent |-> rp[l.paths[i].parent],
                           component |-> rs[l.paths[i].component] ]
    BY DEF Embeds
  <2> QED BY <2>1, <2>2, <2>3
<1> DEFINE n == Len(l.paths)
           S == {k \in 0..n : \A i, j \in 1..k : rp[i] = rp[j] => i = j}
<1>0. n \in Nat
  BY SoundParts, Capacity
<1>1. 0 \in S
  BY <1>0
<1>2. ASSUME NEW k \in 1..n, k - 1 \in S PROVE k \in S
  <2>1. ASSUME NEW j \in 1..(k - 1), rp[k] = rp[j] PROVE FALSE
    <3>1. k \in 2..n /\ j \in 1..n
      BY <1>0
    <3>2. CASE j = 1
      BY <2>1, <3>1, <3>2, <1>b DEF Embeds
    <3>3. CASE j # 1
      <4>1. j \in 2..n
        BY <3>1, <3>3
      <4> DEFINE pk == l.paths[k].parent
                 ck == l.paths[k].component
                 pj == l.paths[j].parent
                 cj == l.paths[j].component
      <4>2. pk \in 1..(k - 1) /\ pj \in 1..(k - 1) /\ rp[pk] = rp[pj]
            /\ ck \in 1..Len(l.strings) /\ cj \in 1..Len(l.strings) /\ rs[ck] = rs[cj]
        <5>1. /\ pk \in 1..(k - 1) /\ ck \in 1..Len(l.strings)
              /\ m.paths[rp[k]].parent = rp[pk] /\ m.paths[rp[k]].component = rs[ck]
          BY <3>1, <1>b
        <5>2. /\ pj \in 1..(j - 1) /\ cj \in 1..Len(l.strings)
              /\ m.paths[rp[j]].parent = rp[pj] /\ m.paths[rp[j]].component = rs[cj]
          BY <4>1, <1>b
        <5> QED BY <2>1, <5>1, <5>2
      <4>3. pk = pj /\ ck = cj
        BY <1>2, <1>a, <4>2
      <4>4. l.paths[k] \in Node /\ l.paths[j] \in Node
        BY <3>1, SoundParts
      <4>5. l.paths[k] = l.paths[j]
        BY <4>3, <4>4 DEF Node
      <4> QED BY <3>1, <4>5 DEF Sound, Distinct
    <3> QED BY <3>2, <3>3
  <2>2. \A i \in 1..k : i \in 1..(k - 1) \/ i = k
    BY <1>0
  <2>3. \A i, j \in 1..(k - 1) : rp[i] = rp[j] => i = j
    BY <1>2
  <2>4. \A i, j \in 1..k : rp[i] = rp[j] => i = j
    BY <2>1, <2>2, <2>3
  <2> QED BY <1>0, <2>4
<1> HIDE DEF S
<1>3. \A k \in 0..n : k \in S
  BY <1>0, <1>1, <1>2, Induct
<1>4. n \in S
  BY <1>0, <1>3
<1> QED BY <1>a, <1>4 DEF S

(* A table that only grows keeps every text.                               *)
LEMMA ExtendsText ==
    ASSUME NEW l, NEW m, Sound(l), Sound(m), Extends(l, m)
    PROVE  /\ \A i \in 1..Len(l.strings) : i \in 1..Len(m.strings) /\ m.strings[i] = l.strings[i]
           /\ \A i \in 1..Len(l.paths) :
                i \in 1..Len(m.paths) /\ m.paths[i] = l.paths[i] /\ TextOf(m, i) = TextOf(l, i)
<1> DEFINE rs == [i \in 1..Len(l.strings) |-> i]
           rp == [i \in 1..Len(l.paths) |-> i]
<1>1. /\ \A i \in 1..Len(l.strings) : i \in 1..Len(m.strings) /\ m.strings[i] = l.strings[i]
      /\ \A i \in 1..Len(l.paths) : i \in 1..Len(m.paths) /\ m.paths[i] = l.paths[i]
  BY SoundParts, Capacity DEF Extends, Prefix
<1>2. ASSUME NEW i \in 2..Len(l.paths)
      PROVE  m.paths[rp[i]] = [ parent |-> rp[l.paths[i].parent],
                                component |-> rs[l.paths[i].component] ]
  <2>1. i \in 1..Len(l.paths) /\ l.paths[i].parent \in 1..Len(l.paths)
        /\ l.paths[i].component \in 1..Len(l.strings) /\ l.paths[i] \in Node
    BY SoundParts, Capacity
  <2> QED BY <1>1, <2>1 DEF Node
<1>3. Embeds(l, m, rs, rp)
  <2>1. 1 \in 1..Len(l.paths)
    BY SoundParts, Capacity
  <2> QED BY <1>1, <1>2, <2>1 DEF Embeds
<1>4. \A i \in 1..Len(l.paths) : rp[i] = i
  OBVIOUS
<1> HIDE DEF rs, rp
<1> QED BY <1>1, <1>3, <1>4, EmbedText

-----------------------------------------------------------------------------
(***************************************************************************)
(* Interning a path and the writes of a file.                              *)
(***************************************************************************)
(* A string more changes no node and no text.                              *)
LEMMA InternStringIs ==
    ASSUME NEW t, Sound(t), NEW w \in Words
    PROVE  LET s == Interned(t.strings, w)
               u == [strings |-> s, paths |-> t.paths]
           IN /\ Sound(u) /\ Extends(t, u)
              /\ IdOf(s, w) \in 1..Len(s) /\ s[IdOf(s, w)] = w
<1> DEFINE s == Interned(t.strings, w)
           u == [strings |-> s, paths |-> t.paths]
<1>0. /\ t.strings \in Seq(Words) /\ t.paths \in Seq(Node) /\ Distinct(t.strings)
      /\ Distinct(t.paths) /\ Rooted(t.paths, Len(t.strings)) /\ Len(t.strings) \in Nat
  BY SoundParts DEF Sound
<1>1. /\ s \in Seq(Words) /\ Prefix(t.strings, s) /\ Distinct(s)
      /\ IdOf(s, w) \in 1..Len(s) /\ s[IdOf(s, w)] = w
  BY <1>0, InternedIs
<1> HIDE DEF s
<1>2. Len(s) \in Nat /\ Len(t.strings) <= Len(s)
  BY <1>1 DEF Prefix
<1>3. Rooted(t.paths, Len(s))
  BY <1>0, <1>2 DEF Rooted
<1>4. Sound(u)
  BY <1>0, <1>1, <1>3 DEF Sound, Tables
<1>5. Extends(t, u)
  BY <1>0, <1>1 DEF Extends, Prefix
<1> QED BY <1>1, <1>4, <1>5 DEF s

(* try_intern_child: the table stays as it is, and there is no id, exactly *)
(* when a node that is not there meets a full table.                       *)
LEMMA InternChildIs ==
    ASSUME NEW t, Sound(t), NEW p \in 1..Len(t.paths), NEW c \in 1..Len(t.strings)
    PROVE  LET node == [parent |-> p, component |-> c]
               r == InternChild(t.paths, node)
               u == [strings |-> t.strings, paths |-> r.paths]
           IN /\ Sound(u) /\ Extends(t, u) /\ r.id \in 0..Len(r.paths)
              /\ (r.id = 0) <=> (Len(t.paths) = PathCapacity /\ node \notin Range(t.paths))
              /\ r.id = 0 => r.paths = t.paths
              /\ r.id # 0 => /\ r.paths = Interned(t.paths, node)
                             /\ r.id = IdOf(r.paths, node)
                             /\ r.id \in 2..Len(r.paths) /\ r.paths[r.id] = node
<1> DEFINE node == [parent |-> p, component |-> c]
           q == Interned(t.paths, node)
           r == InternChild(t.paths, node)
           full == Len(t.paths) = PathCapacity /\ node \notin Range(t.paths)
<1>0. /\ t.strings \in Seq(Words) /\ t.paths \in Seq(Node) /\ Distinct(t.strings)
      /\ Distinct(t.paths) /\ Rooted(t.paths, Len(t.strings)) /\ Len(t.strings) \in Nat
      /\ Len(t.paths) \in 1..PathCapacity /\ PathCapacity \in Nat
      /\ t = [strings |-> t.strings, paths |-> t.paths] /\ t \in Tables
      /\ t.paths[1] = RootNode
  BY SoundParts, Capacity DEF Sound
<1>1. node \in Node
  BY <1>0 DEF Node
<1>2. /\ q \in Seq(Node) /\ Prefix(t.paths, q) /\ Len(q) <= Len(t.paths) + 1
      /\ IdOf(q, node) \in 1..Len(q) /\ q[IdOf(q, node)] = node /\ Distinct(q)
      /\ node \in Range(t.paths) => q = t.paths
      /\ node \notin Range(t.paths) => q = Append(t.paths, node) /\ Len(q) = Len(t.paths) + 1
  <2> HIDE DEF node
  <2> QED BY <1>0, <1>1, InternedIs
<1>3. /\ full => r = [paths |-> t.paths, id |-> 0]
      /\ ~full => r = [paths |-> q, id |-> IdOf(q, node)]
  BY DEF InternChild, Full
<1>4. CASE full
  <2>1. r.paths = t.paths /\ r.id = 0
    BY <1>3, <1>4
  <2>2. [strings |-> t.strings, paths |-> t.paths] = t
    BY <1>0
  <2>3. Extends(t, t)
    BY <1>0, ExtendsSelf
  <2> HIDE DEF r, node
  <2> QED BY <1>0, <1>4, <2>1, <2>2, <2>3 DEF r, node
<1>5. CASE ~full
  <2>1. r.paths = q /\ r.id = IdOf(q, node)
    BY <1>3, <1>5
  <2>2. Len(q) \in 1..PathCapacity
    <3>1. node \notin Range(t.paths) => Len(t.paths) < PathCapacity
      BY <1>0, <1>5
    <3> HIDE DEF node, q
    <3> QED BY <1>0, <1>2, <3>1
  <2>3. q[1] = RootNode
    <3>1. 1 \in 1..Len(t.paths)
      BY <1>0
    <3> QED BY <1>0, <1>2, <3>1 DEF Prefix
  <2>4. IdOf(q, node) # 1
    <3>1. node # RootNode
      BY DEF RootNode
    <3> HIDE DEF node, q
    <3> QED BY <1>2, <2>3, <3>1
  <2>5. Rooted(q, Len(t.strings))
    <3>1. ASSUME NEW i \in 2..Len(q)
          PROVE  q[i].parent \in 1..(i - 1) /\ q[i].component \in 1..Len(t.strings)
      <4>1. CASE i \in 1..Len(t.paths)
        <5>1. q[i] = t.paths[i] /\ i \in 2..Len(t.paths)
          BY <1>2, <4>1 DEF Prefix
        <5> QED BY <1>0, <5>1 DEF Rooted
      <4>2. CASE i \notin 1..Len(t.paths)
        <5>1. i = Len(t.paths) + 1 /\ q = Append(t.paths, node)
          <6> HIDE DEF node, q
          <6> QED BY <1>0, <1>2, <4>2
        <5>2. q[i] = node
          <6> HIDE DEF node, q
          <6> QED BY <1>0, <1>1, <5>1
        <5>3. q[i].parent = p /\ q[i].component = c
          BY <5>2
        <5> QED BY <1>0, <5>1, <5>3
      <4> QED BY <4>1, <4>2
    <3> QED BY <2>2, <2>3, <3>1 DEF Rooted
  <2> DEFINE u == [strings |-> t.strings, paths |-> q]
  <2>6. Sound(u)
    <3> HIDE DEF q, node
    <3> QED BY <1>0, <1>2, <2>5 DEF Sound, Tables
  <2>7. Extends(t, u)
    <3> HIDE DEF q, node
    <3> QED BY <1>0, <1>2 DEF Extends, Prefix
  <2>8. IdOf(q, node) \in 2..Len(q) /\ IdOf(q, node) # 0 /\ IdOf(q, node) \in 0..Len(q)
    <3> HIDE DEF q, node
    <3> QED BY <1>2, <2>2, <2>4, <1>0
  <2> HIDE DEF r, node, q
  <2> QED BY <1>2, <1>5, <2>1, <2>6, <2>7, <2>8 DEF r, node, q
<1> QED BY <1>4, <1>5

Walks(t) ==
    { v \in [tables : Tables, at : Nat] :
        Sound(v.tables) /\ Extends(t, v.tables) /\ v.at \in 0..Len(v.tables.paths) }

(* One component of a path.                                                *)
LEMMA DescendIs ==
    ASSUME NEW t, Sound(t), NEW v \in Walks(t), NEW w \in Words
    PROVE  LET d == Descend(v, w)
           IN /\ d \in Walks(t) /\ Extends(v.tables, d.tables)
              /\ v.at = 0 => d = v
              /\ d.at # 0 => /\ v.at # 0
                             /\ TextOf(d.tables, d.at) = Append(TextOf(v.tables, v.at), w)
<1>0. /\ t \in Tables /\ v.tables \in Tables /\ Sound(v.tables) /\ Extends(t, v.tables)
      /\ v.at \in Nat /\ v.at \in 0..Len(v.tables.paths)
  BY DEF Walks, Sound
<1>1. CASE v.at = 0
  <2>1. Descend(v, w) = v
    BY <1>1 DEF Descend, Full
  <2>2. Extends(v.tables, v.tables)
    BY <1>0, ExtendsSelf
  <2> QED BY <1>1, <2>1, <2>2
<1>2. CASE v.at # 0
  <2> DEFINE s == Interned(v.tables.strings, w)
             id == IdOf(s, w)
             m == [strings |-> s, paths |-> v.tables.paths]
             node == [parent |-> v.at, component |-> id]
             r == InternChild(v.tables.paths, node)
             u == [strings |-> s, paths |-> r.paths]
             d == Descend(v, w)
  <2>1. d = [tables |-> u, at |-> r.id]
    BY <1>2 DEF Descend, Full
  <2>2. Sound(m) /\ Extends(v.tables, m) /\ id \in 1..Len(s) /\ s[id] = w
    BY <1>0, InternStringIs
  <2>3. v.at \in 1..Len(m.paths) /\ id \in 1..Len(m.strings) /\ m.paths = v.tables.paths
        /\ m.strings = s
    BY <1>0, <1>2, <2>2
  <2>4. /\ Sound(u) /\ Extends(m, u) /\ r.id \in 0..Len(r.paths)
        /\ r.id # 0 => r.id \in 2..Len(r.paths) /\ r.paths[r.id] = node
    <3> HIDE DEF m, id, s
    <3> QED BY <2>2, <2>3, InternChildIs
  <2>5. m \in Tables /\ u \in Tables
    BY <2>2, <2>4 DEF Sound
  <2>6. Extends(v.tables, u)
    <3> HIDE DEF m, u
    <3> QED BY <1>0, <2>2, <2>4, <2>5, ExtendsTrans
  <2>7. Extends(t, u)
    <3> HIDE DEF u
    <3> QED BY <1>0, <2>5, <2>6, ExtendsTrans
  <2>8. d.tables = u /\ d.at = r.id /\ u.paths = r.paths /\ u.strings = s
    BY <2>1
  <2>9. d \in Walks(t)
    <3>1. d.at \in Nat /\ d.at \in 0..Len(d.tables.paths)
      <4> HIDE DEF d, r, u
      <4> QED BY <2>4, <2>8
    <3>2. d \in [tables : Tables, at : Nat]
      <4> HIDE DEF r, u
      <4> QED BY <2>1, <2>5, <2>8, <3>1
    <3> HIDE DEF d, r, u
    <3> QED BY <2>4, <2>7, <2>8, <3>1, <3>2 DEF Walks
  <2>10. r.id # 0 => TextOf(u, r.id) = Append(TextOf(v.tables, v.at), w)
    <3> SUFFICES ASSUME r.id # 0 PROVE TextOf(u, r.id) = Append(TextOf(v.tables, v.at), w)
      OBVIOUS
    <3>1. r.id \in 2..Len(u.paths) /\ u.paths[r.id].parent = v.at
          /\ u.paths[r.id].component = id
      BY <2>4, <2>8
    <3> HIDE DEF u, r, s, id
    <3>2. TextOf(u, r.id) = Append(TextOf(u, v.at), s[id])
      BY <2>4, <2>8, <3>1, TextIs
    <3>3. TextOf(u, v.at) = TextOf(v.tables, v.at)
      <4>1. v.at \in 1..Len(v.tables.paths)
        BY <1>0, <1>2
      <4> QED BY <1>0, <2>4, <2>6, <4>1, ExtendsText
    <3> QED BY <2>2, <3>2, <3>3
  <2> HIDE DEF d, u, r
  <2> QED BY <1>2, <2>6, <2>8, <2>9, <2>10 DEF d
<1> QED BY <1>1, <1>2

(* A run given by equations is a run.                                      *)
LEMMA RunType ==
    ASSUME NEW V, NEW x0 \in V, NEW n \in Nat, NEW r,
           r = [k \in 0..n |-> r[k]], r[0] = x0,
           \A k \in 1..n : r[k - 1] \in V => r[k] \in V
    PROVE  r \in [0..n -> V]
<1> DEFINE S == {i \in 0..n : r[i] \in V}
<1>1. 0 \in S /\ \A k \in 1..n : k - 1 \in S => k \in S
  OBVIOUS
<1> HIDE DEF S
<1>2. \A k \in 0..n : k \in S
  BY <1>1, Induct
<1> QED BY <1>2 DEF S

(* The walk of a path, as its equations.                                   *)
LEMMA WalkIs ==
    ASSUME NEW t, Sound(t), NEW text \in Seq(Words)
    PROVE  LET r == Walk(t, text)
           IN /\ r \in [0..Len(text) -> Walks(t)]
              /\ r[0] = [tables |-> t, at |-> 1]
              /\ \A k \in 1..Len(text) : r[k] = Descend(r[k - 1], text[k])
<1> DEFINE V == Walks(t)
           x0 == [tables |-> t, at |-> 1]
           n == Len(text)
           G == [k \in 1..n |-> [v \in V |-> Descend(v, text[k])]]
           Def(f) == [k \in 0..n |-> IF k = 0 THEN x0 ELSE Descend(f[k - 1], text[k])]
           r == Walk(t, text)
<1>1. n \in Nat /\ \A k \in 1..n : text[k] \in Words
  OBVIOUS
<1>2. x0 \in V
  <2>1. t \in Tables /\ Extends(t, t) /\ 1 \in 0..Len(t.paths)
    BY SoundParts, Capacity, ExtendsSelf DEF Sound
  <2> QED BY <2>1 DEF Walks
<1>3. \A k \in 1..n, v \in V : Descend(v, text[k]) \in V
  BY <1>1, DescendIs
<1>4. G \in [1..n -> [V -> V]] /\ \A k \in 1..n, v \in V : G[k][v] = Descend(v, text[k])
  <2> HIDE DEF V
  <2> QED BY <1>3
<1>6. r = CHOOSE g : g = Def(g)
  BY DEF Walk, Root
<1> HIDE DEF n, G, V, x0
<1>5. PICK f : IsRun(f, V, x0, n, G)
  BY <1>1, <1>2, <1>4, Runs
<1>7. f = Def(f)
  <2>1. \A k \in 0..n : k # 0 => k - 1 \in 0..n /\ k \in 1..n
    BY <1>1
  <2>2. ASSUME NEW k \in 0..n
        PROVE  f[k] = IF k = 0 THEN x0 ELSE Descend(f[k - 1], text[k])
    BY <1>4, <1>5, <2>1 DEF IsRun
  <2> QED BY <1>5, <2>2 DEF IsRun
<1> HIDE DEF r
<1>8. r = Def(r)
  <2> HIDE DEF Def
  <2> QED BY <1>6, <1>7
<1>9. r[0] = x0 /\ \A k \in 1..n : r[k] = Descend(r[k - 1], text[k])
  <2>1. Def(r)[0] = x0 /\ \A k \in 1..n : Def(r)[k] = Descend(r[k - 1], text[k])
    BY <1>1
  <2> HIDE DEF Def
  <2> QED BY <1>8, <2>1
<1>10. r = [k \in 0..n |-> r[k]]
  BY <1>8
<1>11. r \in [0..n -> V]
  <2>1. \A k \in 1..n : r[k - 1] \in V => r[k] \in V
    BY <1>3, <1>9
  <2> QED BY <1>1, <1>2, <1>9, <1>10, <2>1, RunType
<1> QED BY <1>9, <1>11 DEF r, n, V, x0

(* try_intern_portable_path: the id stands for the path.                   *)
LEMMA InternPathIs ==
    ASSUME NEW t, Sound(t), NEW text \in Seq(Words)
    PROVE  LET r == InternPath(t, text)
           IN /\ r \in Walks(t)
              /\ r.at # 0 => TextOf(r.tables, r.at) = text
<1> DEFINE n == Len(text)
           r == Walk(t, text)
           S == {k \in 0..n : r[k].at # 0 => TextOf(r[k].tables, r[k].at) = SubSeq(text, 1, k)}
<1>0. n \in Nat
  OBVIOUS
<1>1. /\ r \in [0..n -> Walks(t)] /\ r[0] = [tables |-> t, at |-> 1]
      /\ \A k \in 1..n : r[k] = Descend(r[k - 1], text[k])
  BY WalkIs
<1> HIDE DEF r
<1>2. 0 \in S
  <2>1. r[0].at = 1 /\ r[0].tables = t
    BY <1>1
  <2>2. TextOf(t, 1) = <<>>
    BY TextIs
  <2>3. SubSeq(text, 1, 0) = <<>>
    OBVIOUS
  <2>4. TextOf(r[0].tables, r[0].at) = SubSeq(text, 1, 0)
    BY <2>1, <2>2, <2>3, Zenon
  <2>5. 0 \in 0..n
    BY <1>0
  <2> QED BY <2>4, <2>5
<1>3. ASSUME NEW k \in 1..n, k - 1 \in S PROVE k \in S
  <2> SUFFICES ASSUME r[k].at # 0
               PROVE  TextOf(r[k].tables, r[k].at) = SubSeq(text, 1, k)
    BY <1>0
  <2>1. r[k - 1] \in Walks(t) /\ text[k] \in Words /\ r[k] = Descend(r[k - 1], text[k])
    BY <1>0, <1>1
  <2>2. r[k - 1].at # 0
        /\ TextOf(r[k].tables, r[k].at) = Append(TextOf(r[k - 1].tables, r[k - 1].at), text[k])
    <3> DEFINE v == r[k - 1]
               d == Descend(v, text[k])
    <3> HIDE DEF S
    <3>1. v \in Walks(t) /\ text[k] \in Words /\ r[k] = d
      BY <2>1
    <3> HIDE DEF v
    <3>2. /\ d \in Walks(t) /\ Extends(v.tables, d.tables)
          /\ v.at = 0 => d = v
          /\ d.at # 0 => /\ v.at # 0
                         /\ TextOf(d.tables, d.at) = Append(TextOf(v.tables, v.at), text[k])
      BY <3>1, DescendIs
    <3> HIDE DEF d
    <3> QED BY <3>1, <3>2 DEF v
  <2>3. TextOf(r[k - 1].tables, r[k - 1].at) = SubSeq(text, 1, k - 1)
    BY <1>3, <2>2
  <2>4. Append(SubSeq(text, 1, k - 1), text[k]) = SubSeq(text, 1, k)
    <3> HIDE DEF S
    <3> QED BY <1>0
  <2> QED BY <2>2, <2>3, <2>4
<1> HIDE DEF S
<1>4. \A k \in 0..n : k \in S
  BY <1>0, <1>2, <1>3, Induct
<1>5. n \in S /\ SubSeq(text, 1, n) = text
  BY <1>0, <1>4
<1>6. InternPath(t, text) = r[n]
  BY DEF InternPath, r
<1>7. r[n] \in Walks(t)
  BY <1>0, <1>1
<1> QED BY <1>5, <1>6, <1>7 DEF S

Writes ==
    { writes \in Seq(Write) :
        \A j \in 1..Len(writes) : ~writes[j].path => Len(writes[j].text) = 1 }

Accs(t) ==
    { v \in [tables : Tables, full : BOOLEAN, ids : Seq(Nat)] :
        Sound(v.tables) /\ Extends(t, v.tables) }

IsIn(t, w, id) == id \in 1..Len(IF w.path THEN t.paths ELSE t.strings)

(* The ids of the first of these writes.                                   *)
Resolves(t, writes, ids) ==
    /\ Len(ids) <= Len(writes)
    /\ \A j \in 1..Len(ids) : IsIn(t, writes[j], ids[j]) /\ StandsFor(t, writes[j], ids[j])

(* An id keeps its meaning when the tables grow.                           *)
LEMMA StandsForExtends ==
    ASSUME NEW t, NEW u, Sound(t), Sound(u), Extends(t, u),
           NEW w, NEW id, IsIn(t, w, id), StandsFor(t, w, id)
    PROVE  IsIn(u, w, id) /\ StandsFor(u, w, id)
<1>1. CASE w.path
  BY <1>1, ExtendsText DEF IsIn, StandsFor
<1>2. CASE ~w.path
  BY <1>2, ExtendsText DEF IsIn, StandsFor
<1> QED BY <1>1, <1>2

(* So do the ids of a whole file.                                          *)
LEMMA ResolvesExtends ==
    ASSUME NEW t, NEW u, Sound(t), Sound(u), Extends(t, u),
           NEW writes, NEW ids, Resolves(t, writes, ids)
    PROVE  Resolves(u, writes, ids)
BY StandsForExtends DEF Resolves

AWrite == {w \in Write : ~w.path => Len(w.text) = 1}

(* One write gets one id, which stands for it, or the table is full.        *)
LEMMA WriteOneIs ==
    ASSUME NEW t, Sound(t), NEW v \in Accs(t), NEW w \in AWrite
    PROVE  LET d == WriteOne(v, w)
           IN /\ d \in Accs(t) /\ Extends(v.tables, d.tables)
              /\ v.full => d = v
              /\ ~v.full /\ d.full => d.ids = v.ids
              /\ ~d.full => /\ ~v.full
                            /\ \E id \in Nat : /\ d.ids = Append(v.ids, id)
                                               /\ IsIn(d.tables, w, id)
                                               /\ StandsFor(d.tables, w, id)
<1>0. /\ t \in Tables /\ v.tables \in Tables /\ Sound(v.tables) /\ Extends(t, v.tables)
      /\ v.full \in BOOLEAN /\ v.ids \in Seq(Nat)
      /\ w.path \in BOOLEAN /\ w.text \in Seq(Words)
  BY DEF Accs, Sound, AWrite, Write
<1> DEFINE d == WriteOne(v, w)
<1>1. CASE v.full
  <2>1. d = v
    BY <1>1 DEF WriteOne
  <2>2. Extends(v.tables, v.tables)
    BY <1>0, ExtendsSelf
  <2> HIDE DEF d
  <2> QED BY <1>1, <2>1, <2>2 DEF d
<1>2. CASE ~v.full /\ w.path
  <2> DEFINE r == InternPath(v.tables, w.text)
             ids == IF r.at = 0 THEN v.ids ELSE Append(v.ids, r.at)
  <2>1. d = [tables |-> r.tables, full |-> r.at = 0, ids |-> ids]
    BY <1>2 DEF WriteOne, Full
  <2>2. r \in Walks(v.tables) /\ (r.at # 0 => TextOf(r.tables, r.at) = w.text)
    BY <1>0, InternPathIs
  <2> HIDE DEF r
  <2>3. /\ r.tables \in Tables /\ Sound(r.tables) /\ Extends(v.tables, r.tables)
        /\ r.at \in Nat /\ r.at \in 0..Len(r.tables.paths) /\ Len(r.tables.paths) \in Nat
    BY <2>2, SoundParts, Capacity DEF Walks
  <2>4. Extends(t, r.tables)
    BY <1>0, <2>3, ExtendsTrans
  <2>5. ids \in Seq(Nat)
    BY <1>0, <2>3
  <2>6. d \in Accs(t)
    <3> HIDE DEF d, ids
    <3> QED BY <2>1, <2>3, <2>4, <2>5 DEF Accs
  <2>b. d.full = (r.at = 0) /\ d.ids = ids /\ d.tables = r.tables
    <3> HIDE DEF d, ids
    <3> QED BY <2>1, Zenon
  <2>7. ASSUME ~d.full
        PROVE  d.ids = Append(v.ids, r.at) /\ IsIn(d.tables, w, r.at)
               /\ StandsFor(d.tables, w, r.at)
    <3>1. r.at # 0 /\ d.ids = Append(v.ids, r.at) /\ d.tables = r.tables
      <4> HIDE DEF d
      <4> QED BY <2>b, <2>7
    <3> QED BY <1>2, <2>2, <2>3, <3>1 DEF IsIn, StandsFor
  <2>8. d.full => d.ids = v.ids
    <3> HIDE DEF d
    <3> QED BY <2>b
  <2>9. d.tables = r.tables
    BY <2>1
  <2> HIDE DEF d
  <2> QED BY <1>2, <2>3, <2>6, <2>7, <2>8, <2>9 DEF d
<1>3. CASE ~v.full /\ ~w.path
  <2> DEFINE x == w.text[1]
             s == Interned(v.tables.strings, x)
             u == [strings |-> s, paths |-> v.tables.paths]
             id == IdOf(s, x)
  <2>1. d = [tables |-> u, full |-> FALSE, ids |-> Append(v.ids, id)]
    BY <1>3 DEF WriteOne
  <2>2. x \in Words
    <3>1. Len(w.text) = 1
      BY <1>3 DEF AWrite
    <3> QED BY <1>0, <3>1
  <2>3. Sound(u) /\ Extends(v.tables, u) /\ id \in 1..Len(s) /\ s[id] = x
    <3> HIDE DEF x
    <3> QED BY <1>0, <2>2, InternStringIs
  <2>4. u.strings = s
    OBVIOUS
  <2>a. u \in Tables /\ Len(s) \in Nat
    <3> HIDE DEF u
    <3> QED BY <2>3, <2>4, SoundParts DEF Sound
  <2> HIDE DEF u, s, id, x
  <2>5. id \in Nat /\ Append(v.ids, id) \in Seq(Nat)
    BY <1>0, <2>3, <2>a
  <2>6. Extends(t, u)
    BY <1>0, <2>3, <2>a, ExtendsTrans
  <2>7. d \in Accs(t)
    <3> HIDE DEF d
    <3> QED BY <2>1, <2>3, <2>a, <2>5, <2>6 DEF Accs
  <2>8. d.ids = Append(v.ids, id) /\ d.tables = u /\ ~d.full
    BY <2>1
  <2>9. IsIn(u, w, id) /\ StandsFor(u, w, id)
    BY <1>3, <2>3, <2>4 DEF IsIn, StandsFor, x
  <2> HIDE DEF d
  <2> QED BY <1>3, <2>3, <2>5, <2>7, <2>8, <2>9 DEF d
<1> QED BY <1>0, <1>1, <1>2, <1>3

(* The writes of a file, as their equations.                               *)
LEMMA WritingIs ==
    ASSUME NEW t, Sound(t), NEW writes \in Writes
    PROVE  LET r == Writing(t, writes)
           IN /\ r \in [0..Len(writes) -> Accs(t)]
              /\ r[0] = [tables |-> t, full |-> FALSE, ids |-> <<>>]
              /\ \A k \in 1..Len(writes) :
                   writes[k] \in AWrite /\ r[k] = WriteOne(r[k - 1], writes[k])
<1> DEFINE V == Accs(t)
           x0 == [tables |-> t, full |-> FALSE, ids |-> <<>>]
           n == Len(writes)
           G == [k \in 1..n |-> [v \in V |-> WriteOne(v, writes[k])]]
           Def(f) == [k \in 0..n |-> IF k = 0 THEN x0 ELSE WriteOne(f[k - 1], writes[k])]
           r == Writing(t, writes)
<1>1. n \in Nat /\ \A k \in 1..n : writes[k] \in AWrite
  BY DEF Writes, AWrite
<1>2. x0 \in V
  <2>1. t \in Tables /\ Extends(t, t) /\ <<>> \in Seq(Nat)
    BY ExtendsSelf DEF Sound
  <2> QED BY <2>1 DEF Accs
<1>3. \A k \in 1..n, v \in V : WriteOne(v, writes[k]) \in V
  BY <1>1, WriteOneIs
<1>4. G \in [1..n -> [V -> V]] /\ \A k \in 1..n, v \in V : G[k][v] = WriteOne(v, writes[k])
  <2> HIDE DEF V
  <2> QED BY <1>3
<1>6. r = CHOOSE g : g = Def(g)
  BY DEF Writing
<1> HIDE DEF n, G, V, x0
<1>5. PICK f : IsRun(f, V, x0, n, G)
  BY <1>1, <1>2, <1>4, Runs
<1>7. f = Def(f)
  <2>1. \A k \in 0..n : k # 0 => k - 1 \in 0..n /\ k \in 1..n
    BY <1>1
  <2>2. ASSUME NEW k \in 0..n
        PROVE  f[k] = IF k = 0 THEN x0 ELSE WriteOne(f[k - 1], writes[k])
    BY <1>4, <1>5, <2>1 DEF IsRun
  <2> QED BY <1>5, <2>2 DEF IsRun
<1> HIDE DEF r
<1>8. r = Def(r)
  <2> HIDE DEF Def
  <2> QED BY <1>6, <1>7
<1>9. r[0] = x0 /\ \A k \in 1..n : r[k] = WriteOne(r[k - 1], writes[k])
  <2>1. Def(r)[0] = x0 /\ \A k \in 1..n : Def(r)[k] = WriteOne(r[k - 1], writes[k])
    BY <1>1
  <2> HIDE DEF Def
  <2> QED BY <1>8, <2>1
<1>10. r = [k \in 0..n |-> r[k]]
  BY <1>8
<1>11. r \in [0..n -> V]
  <2>1. \A k \in 1..n : r[k - 1] \in V => r[k] \in V
    BY <1>3, <1>9
  <2> QED BY <1>1, <1>2, <1>9, <1>10, <2>1, RunType
<1> QED BY <1>1, <1>9, <1>11 DEF r, n, V, x0

(* The writes of a file: an id for each of them, or the first ones only.   *)
LEMMA WriteAllIs ==
    ASSUME NEW t, Sound(t), NEW writes \in Writes
    PROVE  LET r == WriteAll(t, writes)
           IN /\ r \in Accs(t) /\ Resolves(r.tables, writes, r.ids)
              /\ ~r.full => Len(r.ids) = Len(writes)
<1> DEFINE n == Len(writes)
           r == Writing(t, writes)
           Ok(k) == /\ \A j \in 1..Len(r[k].ids) : IsIn(r[k].tables, writes[j], r[k].ids[j])
                                           /\ StandsFor(r[k].tables, writes[j], r[k].ids[j])
                    /\ Len(r[k].ids) <= k /\ (~r[k].full => Len(r[k].ids) = k)
           S == {k \in 0..n : Ok(k)}
<1>0. n \in Nat
  BY DEF Writes
<1>1. /\ r \in [0..n -> Accs(t)] /\ r[0] = [tables |-> t, full |-> FALSE, ids |-> <<>>]
      /\ \A k \in 1..n : writes[k] \in AWrite /\ r[k] = WriteOne(r[k - 1], writes[k])
  BY WritingIs
<1> HIDE DEF r
<1>2. Ok(0)
  <2>1. r[0].ids = <<>> /\ Len(r[0].ids) = 0
    BY <1>1
  <2> QED BY <2>1
<1>3. ASSUME NEW k \in 1..n, Ok(k - 1) PROVE Ok(k)
  <2> DEFINE v == r[k - 1]
             d == r[k]
             w == writes[k]
  <2>1. v \in Accs(t) /\ w \in AWrite /\ d = WriteOne(v, w) /\ d \in Accs(t)
    BY <1>0, <1>1
  <2> HIDE DEF v, d, w
  <2>2. /\ Extends(v.tables, d.tables) /\ (v.full => d = v)
        /\ ~v.full /\ d.full => d.ids = v.ids
        /\ ~d.full => /\ ~v.full
                      /\ \E id \in Nat : /\ d.ids = Append(v.ids, id)
                                         /\ IsIn(d.tables, w, id) /\ StandsFor(d.tables, w, id)
    BY <2>1, WriteOneIs
  <2>3. Sound(v.tables) /\ Sound(d.tables) /\ v.ids \in Seq(Nat) /\ d.ids \in Seq(Nat)
        /\ v.full \in BOOLEAN /\ d.full \in BOOLEAN
    BY <2>1 DEF Accs
  <2>4. /\ \A j \in 1..Len(v.ids) : IsIn(v.tables, writes[j], v.ids[j])
                                    /\ StandsFor(v.tables, writes[j], v.ids[j])
        /\ Len(v.ids) <= k - 1 /\ (~v.full => Len(v.ids) = k - 1)
    BY <1>3 DEF v
  <2>5. \A j \in 1..Len(v.ids) : IsIn(d.tables, writes[j], v.ids[j])
                                    /\ StandsFor(d.tables, writes[j], v.ids[j])
    BY <2>2, <2>3, <2>4, StandsForExtends
  <2>6. CASE d.full
    <3>1. d.ids = v.ids
      BY <2>2, <2>6
    <3> QED BY <1>0, <2>3, <2>4, <2>5, <2>6, <3>1 DEF d
  <2>7. CASE ~d.full
    <3>1. PICK id \in Nat : /\ d.ids = Append(v.ids, id)
                            /\ IsIn(d.tables, w, id) /\ StandsFor(d.tables, w, id)
      BY <2>2, <2>7
    <3>2. Len(v.ids) = k - 1
      BY <2>2, <2>4, <2>7
    <3>3. Len(d.ids) = k /\ d.ids[k] = id /\ \A j \in 1..(k - 1) : d.ids[j] = v.ids[j]
      BY <1>0, <2>3, <3>1, <3>2
    <3>4. \A j \in 1..Len(d.ids) : IsIn(d.tables, writes[j], d.ids[j])
                                   /\ StandsFor(d.tables, writes[j], d.ids[j])
      <4> SUFFICES ASSUME NEW j \in 1..k
                   PROVE  IsIn(d.tables, writes[j], d.ids[j])
                          /\ StandsFor(d.tables, writes[j], d.ids[j])
        BY <3>3
      <4>1. CASE j = k
        BY <4>1, <3>1, <3>3 DEF w
      <4>2. CASE j \in 1..(k - 1)
        BY <4>2, <2>5, <3>2, <3>3
      <4> QED BY <1>0, <4>1, <4>2
    <3> QED BY <1>0, <2>7, <3>3, <3>4 DEF d
  <2> QED BY <2>3, <2>6, <2>7
<1> HIDE DEF Ok
<1>4. Ok(n)
  <2>1. 0 \in S /\ \A k \in 1..n : k - 1 \in S => k \in S
    BY <1>0, <1>2, <1>3
  <2> HIDE DEF S
  <2>2. \A k \in 0..n : k \in S
    BY <1>0, <2>1, Induct
  <2>3. n \in S
    BY <1>0, <2>2
  <2> QED BY <2>3 DEF S
<1>5. WriteAll(t, writes) = r[n]
  BY DEF WriteAll, r
<1>6. r[n] \in Accs(t)
  BY <1>0, <1>1
<1> QED BY <1>4, <1>5, <1>6 DEF Ok, Resolves

-----------------------------------------------------------------------------
(***************************************************************************)
(* The files before this module's preparation, and the sequential run.     *)
(***************************************************************************)
AFile == {f \in File : f.writes \in Writes /\ (f.retained => f.ends = "ok")}

Chains(t) ==
    { v \in [tables : Tables, full : BOOLEAN] : Sound(v.tables) /\ Extends(t, v.tables) }

(* The files of a module that is explored.                                 *)
LEMMA FilesOf ==
    ASSUME NEW m \in Modules
    PROVE  /\ m \in Module /\ Len(m.files) \in Nat /\ DOMAIN m.files = 1..Len(m.files)
           /\ \A i \in 1..Len(m.files) : m.files[i] \in AFile
<1>1. m \in Module
  BY FilePreparationAssumption DEF FilePreparationAssumption
<1>2. m.files \in Seq(File)
  BY <1>1 DEF Module
<1>3. ASSUME NEW i \in 1..Len(m.files) PROVE m.files[i] \in AFile
  <2> DEFINE f == m.files[i]
  <2>1. i \in DOMAIN m.files /\ f \in File
    BY <1>2
  <2>2. /\ f.retained => f.ends = "ok"
        /\ \A j \in DOMAIN f.writes : ~f.writes[j].path => Len(f.writes[j].text) = 1
    BY <2>1, FilePreparationAssumption DEF FilePreparationAssumption
  <2> HIDE DEF f
  <2>3. f.writes \in Seq(Write)
    BY <2>1 DEF File
  <2>4. f.writes \in Writes
    BY <2>2, <2>3 DEF Writes
  <2> QED BY <2>1, <2>2, <2>4 DEF AFile, f
<1> QED BY <1>1, <1>2, <1>3

(* One more file on top of what has been prepared.                         *)
LEMMA OntoIs ==
    ASSUME NEW t, Sound(t), NEW v \in Chains(t), NEW f \in AFile
    PROVE  LET d == Onto(v, f)
               w == WriteAll(v.tables, f.writes)
           IN /\ d \in Chains(t) /\ Extends(v.tables, d.tables)
              /\ d.tables = w.tables /\ d.full = (v.full \/ w.full)
<1> DEFINE d == Onto(v, f)
           w == WriteAll(v.tables, f.writes)
<1>1. v.tables \in Tables /\ Sound(v.tables) /\ Extends(t, v.tables) /\ v.full \in BOOLEAN
      /\ f.writes \in Writes /\ t \in Tables
  BY DEF Chains, AFile, Sound
<1>2. w \in Accs(v.tables)
  BY <1>1, WriteAllIs
<1>3. d = [tables |-> w.tables, full |-> v.full \/ w.full]
  BY DEF Onto
<1> HIDE DEF d, w
<1>4. w.tables \in Tables /\ Sound(w.tables) /\ Extends(v.tables, w.tables) /\ w.full \in BOOLEAN
  BY <1>2 DEF Accs
<1>5. Extends(t, w.tables)
  BY <1>1, <1>4, ExtendsTrans
<1>6. d.tables = w.tables /\ d.full = (v.full \/ w.full)
  BY <1>3, Zenon
<1>7. d \in Chains(t)
  BY <1>3, <1>4, <1>5, <1>1 DEF Chains
<1> QED BY <1>4, <1>6, <1>7 DEF d, w

(* The tables of the source database are sound.                            *)
LEMMA RegisteredSound == Sound(RegisteredTables)
<1> DEFINE e == [strings |-> <<>>, paths |-> <<RootNode>>]
           writes == [ i \in DOMAIN Registered |->
                         [path |-> TRUE, content |-> FALSE, text |-> Registered[i]] ]
<1>1. Sound(e)
  <2>1. RootNode \in Node
    BY DEF RootNode, Node
  <2>2. e \in Tables
    BY <2>1 DEF Tables
  <2>3. Len(e.strings) = 0 /\ Len(e.paths) = 1 /\ e.paths[1] = RootNode
    OBVIOUS
  <2> HIDE DEF e
  <2> QED BY <2>2, <2>3, Capacity DEF Sound, Distinct, Rooted
<1>2. Registered \in Seq(Seq(Words))
  BY FilePreparationAssumption DEF FilePreparationAssumption
<1>3. writes \in Seq(Write) /\ \A j \in 1..Len(writes) : writes[j].path
  <2>1. DOMAIN Registered = 1..Len(Registered) /\ Len(Registered) \in Nat
        /\ \A i \in 1..Len(Registered) : Registered[i] \in Seq(Words)
    BY <1>2
  <2>2. \A i \in 1..Len(Registered) : [path |-> TRUE, content |-> FALSE, text |-> Registered[i]] \in Write
    BY <2>1 DEF Write
  <2>3. writes \in [1..Len(Registered) -> Write]
    BY <2>1, <2>2
  <2>4. writes \in Seq(Write) /\ Len(writes) = Len(Registered)
    <3> HIDE DEF writes
    <3> QED BY <2>1, <2>3
  <2> QED BY <2>1, <2>4
<1>4. writes \in Writes
  BY <1>3 DEF Writes
<1>5. WriteAll(e, writes) \in Accs(e)
  <2> HIDE DEF e, writes
  <2> QED BY <1>1, <1>4, WriteAllIs
<1>6. RegisteredTables = WriteAll(e, writes).tables
  BY DEF RegisteredTables
<1> HIDE DEF e, writes
<1> QED BY <1>5, <1>6 DEF Accs

(* Discovery, as its equations.                                            *)
LEMMA DiscoveryIs ==
    ASSUME NEW m \in Modules
    PROVE  LET r == Discovery(m)
           IN /\ r \in [0..Len(m.files) -> Chains(RegisteredTables)]
              /\ r[0] = [tables |-> RegisteredTables, full |-> FALSE]
              /\ \A i \in 1..Len(m.files) : r[i] = RetainOne(r[i - 1], m.files[i])
<1> DEFINE t == RegisteredTables
           V == Chains(t)
           x0 == [tables |-> t, full |-> FALSE]
           n == Len(m.files)
           G == [k \in 1..n |-> [v \in V |-> RetainOne(v, m.files[k])]]
           Def(f) == [k \in 0..n |-> IF k = 0 THEN x0 ELSE RetainOne(f[k - 1], m.files[k])]
           r == Discovery(m)
<1>0. Sound(t)
  BY RegisteredSound
<1>1. n \in Nat /\ \A k \in 1..n : m.files[k] \in AFile
  BY FilesOf
<1>6. r = CHOOSE g : g = Def(g)
  BY DEF Discovery
<1> HIDE DEF t, n
<1>2. x0 \in V
  <2>1. t \in Tables /\ Extends(t, t)
    BY <1>0, ExtendsSelf DEF Sound
  <2> QED BY <1>0, <2>1 DEF Chains
<1>3. \A k \in 1..n, v \in V : RetainOne(v, m.files[k]) \in V
  BY <1>0, <1>1, OntoIs DEF RetainOne
<1>4. G \in [1..n -> [V -> V]] /\ \A k \in 1..n, v \in V : G[k][v] = RetainOne(v, m.files[k])
  <2> HIDE DEF V
  <2> QED BY <1>3
<1> HIDE DEF G, V, x0
<1>5. PICK f : IsRun(f, V, x0, n, G)
  BY <1>1, <1>2, <1>4, Runs
<1>7. f = Def(f)
  <2>1. \A k \in 0..n : k # 0 => k - 1 \in 0..n /\ k \in 1..n
    BY <1>1
  <2>2. ASSUME NEW k \in 0..n
        PROVE  f[k] = IF k = 0 THEN x0 ELSE RetainOne(f[k - 1], m.files[k])
    BY <1>4, <1>5, <2>1 DEF IsRun
  <2> QED BY <1>5, <2>2 DEF IsRun
<1> HIDE DEF r
<1>8. r = Def(r)
  <2> HIDE DEF Def
  <2> QED BY <1>6, <1>7
<1>9. r[0] = x0 /\ \A k \in 1..n : r[k] = RetainOne(r[k - 1], m.files[k])
  <2>1. Def(r)[0] = x0 /\ \A k \in 1..n : Def(r)[k] = RetainOne(r[k - 1], m.files[k])
    BY <1>1
  <2> HIDE DEF Def
  <2> QED BY <1>8, <2>1
<1>10. r = [k \in 0..n |-> r[k]]
  BY <1>8
<1>11. r \in [0..n -> V]
  <2>1. \A k \in 1..n : r[k - 1] \in V => r[k] \in V
    BY <1>3, <1>9
  <2> QED BY <1>1, <1>2, <1>9, <1>10, <2>1, RunType
<1> QED BY <1>9, <1>11 DEF r, n, V, x0, t

(* Growing step by step is growing.                                        *)
LEMMA ChainGrows ==
    ASSUME NEW t, NEW n \in Nat, NEW r \in [0..n -> Chains(t)],
           \A k \in 1..n : /\ Extends(r[k - 1].tables, r[k].tables)
                           /\ r[k - 1].full => r[k].full
    PROVE  \A j \in 0..n : \A i \in 0..j : /\ Extends(r[i].tables, r[j].tables)
                                           /\ r[i].full => r[j].full
<1> DEFINE Ok(j) == \A i \in 0..j : /\ Extends(r[i].tables, r[j].tables)
                                    /\ r[i].full => r[j].full
           S == {j \in 0..n : Ok(j)}
<1>0. \A k \in 0..n : r[k].tables \in Tables /\ r[k].full \in BOOLEAN
  BY DEF Chains
<1>1. Ok(0)
  <2>1. Extends(r[0].tables, r[0].tables)
    BY <1>0, ExtendsSelf
  <2> QED BY <2>1
<1>2. ASSUME NEW k \in 1..n, Ok(k - 1) PROVE Ok(k)
  <2> SUFFICES ASSUME NEW i \in 0..k PROVE Extends(r[i].tables, r[k].tables) /\ (r[i].full => r[k].full)
    OBVIOUS
  <2>1. CASE i = k
    BY <1>0, <2>1, ExtendsSelf
  <2>2. CASE i # k
    <3>1. i \in 0..(k - 1) /\ k - 1 \in 0..n /\ i \in 0..n /\ k \in 0..n
      BY <2>2
    <3>2. Extends(r[i].tables, r[k - 1].tables) /\ (r[i].full => r[k - 1].full)
      BY <1>2, <3>1
    <3> QED BY <1>0, <3>1, <3>2, ExtendsTrans
  <2> QED BY <2>1, <2>2
<1> HIDE DEF Ok
<1>3. 0 \in S /\ \A k \in 1..n : k - 1 \in S => k \in S
  BY <1>1, <1>2
<1> HIDE DEF S
<1>4. \A k \in 0..n : k \in S
  BY <1>3, Induct
<1> QED BY <1>4 DEF S, Ok

(* A retained file's ids stand for its writes in the base tables.          *)
LEMMA RetainedIs ==
    ASSUME NEW m \in Modules
    PROVE  /\ Sound(BaseTables(m))
           /\ \A i \in 1..Len(m.files) : m.files[i].retained =>
                LET ids == WriteAll(Discovery(m)[i - 1].tables, m.files[i].writes).ids
                IN /\ ids \in Seq(Nat) /\ Len(ids) = Len(m.files[i].writes)
                   /\ Resolves(BaseTables(m), m.files[i].writes, ids)
<1> DEFINE r == Discovery(m)
           n == Len(m.files)
           t == RegisteredTables
<1>1. /\ r \in [0..n -> Chains(t)]
      /\ \A i \in 1..n : r[i] = RetainOne(r[i - 1], m.files[i])
  BY DiscoveryIs
<1>2. n \in Nat /\ \A k \in 1..n : m.files[k] \in AFile
  BY FilesOf
<1>3. Sound(t)
  BY RegisteredSound
<1>4. BaseTables(m) = r[n].tables /\ ~r[n].full
  BY DiscoveryFits DEF BaseTables
<1> HIDE DEF r, n, t
<1>5. \A k \in 0..n : Sound(r[k].tables) /\ r[k].tables \in Tables /\ r[k].full \in BOOLEAN
  BY <1>1 DEF Chains
<1>6. ASSUME NEW k \in 1..n
      PROVE  Extends(r[k - 1].tables, r[k].tables) /\ (r[k - 1].full => r[k].full)
  <2>1. k - 1 \in 0..n /\ r[k - 1] \in Chains(t) /\ m.files[k] \in AFile
    BY <1>1, <1>2
  <2>2. CASE m.files[k].retained
    <3>1. r[k] = Onto(r[k - 1], m.files[k])
      BY <1>1, <2>2 DEF RetainOne
    <3>2. /\ Extends(r[k - 1].tables, r[k].tables)
          /\ r[k].full = (r[k - 1].full \/ WriteAll(r[k - 1].tables, m.files[k].writes).full)
      BY <1>3, <2>1, <3>1, OntoIs
    <3> QED BY <3>2
  <2>3. CASE ~m.files[k].retained
    <3>1. r[k] = r[k - 1]
      BY <1>1, <2>3 DEF RetainOne
    <3> QED BY <1>5, <2>1, <3>1, ExtendsSelf
  <2> QED BY <2>2, <2>3
<1>7. \A i \in 0..n : Extends(r[i].tables, r[n].tables) /\ (r[i].full => r[n].full)
  <2>1. \A j \in 0..n : \A i \in 0..j : /\ Extends(r[i].tables, r[j].tables)
                                        /\ r[i].full => r[j].full
    BY <1>1, <1>2, <1>6, ChainGrows
  <2> QED BY <1>2, <2>1
<1>8. Sound(BaseTables(m))
  BY <1>2, <1>4, <1>5
<1>9. ASSUME NEW i \in 1..n, m.files[i].retained
      PROVE  LET ids == WriteAll(r[i - 1].tables, m.files[i].writes).ids
             IN /\ ids \in Seq(Nat) /\ Len(ids) = Len(m.files[i].writes)
                /\ Resolves(BaseTables(m), m.files[i].writes, ids)
  <2> DEFINE f == m.files[i]
             w == WriteAll(r[i - 1].tables, f.writes)
  <2>1. i - 1 \in 0..n /\ i \in 0..n /\ r[i - 1] \in Chains(t) /\ f \in AFile
    BY <1>1, <1>2
  <2>2. r[i] = Onto(r[i - 1], f)
    BY <1>1, <1>9 DEF RetainOne
  <2>3. r[i].tables = w.tables /\ r[i].full = (r[i - 1].full \/ w.full)
    <3> HIDE DEF f
    <3> QED BY <1>3, <2>1, <2>2, OntoIs
  <2>4. f.writes \in Writes
    BY <2>1 DEF AFile
  <2>5. w \in Accs(r[i - 1].tables) /\ Resolves(w.tables, f.writes, w.ids)
        /\ (~w.full => Len(w.ids) = Len(f.writes))
    <3> HIDE DEF f
    <3> QED BY <1>5, <2>1, <2>4, WriteAllIs
  <2>6. ~w.full
    BY <1>4, <1>7, <2>1, <2>3
  <2>7. w.ids \in Seq(Nat)
    <3> HIDE DEF w
    <3> QED BY <2>5 DEF Accs
  <2>8. Resolves(r[n].tables, f.writes, w.ids)
    <3>1. Sound(r[i].tables) /\ Sound(r[n].tables) /\ Extends(r[i].tables, r[n].tables)
      BY <1>2, <1>5, <1>7, <2>1
    <3> HIDE DEF w, f
    <3> QED BY <2>3, <2>5, <3>1, ResolvesExtends
  <2> QED BY <1>4, <2>5, <2>6, <2>7, <2>8
<1> QED BY <1>8, <1>9 DEF r, n

(* The sequential run, as its equations.                                   *)
LEMMA SequentiallyIs ==
    ASSUME module \in Modules, Sound(base)
    PROVE  LET r == Sequentially
           IN /\ r \in [0..NumFiles -> Chains(base)]
              /\ r[0] = [tables |-> base, full |-> FALSE]
              /\ \A i \in 1..NumFiles : r[i] = SequentialOne(r[i - 1], module.files[i])
<1> DEFINE V == Chains(base)
           x0 == [tables |-> base, full |-> FALSE]
           n == NumFiles
           G == [k \in 1..n |-> [v \in V |-> SequentialOne(v, module.files[k])]]
           Def(f) == [k \in 0..n |-> IF k = 0 THEN x0 ELSE SequentialOne(f[k - 1], module.files[k])]
           r == Sequentially
<1>1. n \in Nat /\ \A k \in 1..n : module.files[k] \in AFile
  BY FilesOf DEF NumFiles
<1>6. r = CHOOSE g : g = Def(g)
  BY DEF Sequentially
<1> HIDE DEF n
<1>2. x0 \in V
  <2>1. base \in Tables /\ Extends(base, base)
    BY ExtendsSelf DEF Sound
  <2> QED BY <2>1 DEF Chains
<1>3. \A k \in 1..n, v \in V : SequentialOne(v, module.files[k]) \in V
  BY <1>1, OntoIs DEF SequentialOne
<1>4. G \in [1..n -> [V -> V]] /\ \A k \in 1..n, v \in V : G[k][v] = SequentialOne(v, module.files[k])
  <2> HIDE DEF V
  <2> QED BY <1>3
<1> HIDE DEF G, V, x0
<1>5. PICK f : IsRun(f, V, x0, n, G)
  BY <1>1, <1>2, <1>4, Runs
<1>7. f = Def(f)
  <2>1. \A k \in 0..n : k # 0 => k - 1 \in 0..n /\ k \in 1..n
    BY <1>1
  <2>2. ASSUME NEW k \in 0..n
        PROVE  f[k] = IF k = 0 THEN x0 ELSE SequentialOne(f[k - 1], module.files[k])
    BY <1>4, <1>5, <2>1 DEF IsRun
  <2> QED BY <1>5, <2>2 DEF IsRun
<1> HIDE DEF r
<1>8. r = Def(r)
  <2> HIDE DEF Def
  <2> QED BY <1>6, <1>7
<1>9. r[0] = x0 /\ \A k \in 1..n : r[k] = SequentialOne(r[k - 1], module.files[k])
  <2>1. Def(r)[0] = x0 /\ \A k \in 1..n : Def(r)[k] = SequentialOne(r[k - 1], module.files[k])
    BY <1>1
  <2> HIDE DEF Def
  <2> QED BY <1>8, <2>1
<1>10. r = [k \in 0..n |-> r[k]]
  BY <1>8
<1>11. r \in [0..n -> V]
  <2>1. \A k \in 1..n : r[k - 1] \in V => r[k] \in V
    BY <1>3, <1>9
  <2> QED BY <1>1, <1>2, <1>9, <1>10, <2>1, RunType
<1> QED BY <1>9, <1>11 DEF r, n, V, x0

(* It only adds to its tables, and once full it stays full.                *)
LEMMA SequentialGrows ==
    ASSUME module \in Modules, Sound(base)
    PROVE  /\ NumFiles \in Nat
           /\ \A i \in 0..NumFiles : /\ Sound(Sequentially[i].tables)
                                     /\ Extends(base, Sequentially[i].tables)
                                     /\ Sequentially[i].full \in BOOLEAN
           /\ \A j \in 0..NumFiles : \A i \in 0..j : Sequentially[i].full => Sequentially[j].full
<1> DEFINE r == Sequentially
           n == NumFiles
<1>1. n \in Nat /\ \A k \in 1..n : module.files[k] \in AFile
  BY FilesOf DEF NumFiles
<1>2. r \in [0..n -> Chains(base)]
      /\ \A i \in 1..n : r[i] = SequentialOne(r[i - 1], module.files[i])
  BY SequentiallyIs
<1> HIDE DEF r, n
<1>3. \A i \in 0..n : Sound(r[i].tables) /\ Extends(base, r[i].tables)
                      /\ r[i].full \in BOOLEAN /\ r[i].tables \in Tables
  BY <1>2 DEF Chains
<1>4. ASSUME NEW k \in 1..n
      PROVE  Extends(r[k - 1].tables, r[k].tables) /\ (r[k - 1].full => r[k].full)
  <2>1. k - 1 \in 0..n /\ r[k - 1] \in Chains(base) /\ module.files[k] \in AFile
    BY <1>1, <1>2
  <2>2. CASE ~module.files[k].retained
    <3>1. r[k] = Onto(r[k - 1], module.files[k])
      BY <1>2, <2>2 DEF SequentialOne
    <3>2. /\ Extends(r[k - 1].tables, r[k].tables)
          /\ r[k].full = (r[k - 1].full \/ WriteAll(r[k - 1].tables, module.files[k].writes).full)
      BY <2>1, <3>1, OntoIs
    <3> QED BY <3>2
  <2>3. CASE module.files[k].retained
    <3>1. r[k] = r[k - 1]
      BY <1>2, <2>3 DEF SequentialOne
    <3> QED BY <1>3, <2>1, <3>1, ExtendsSelf
  <2> QED BY <2>2, <2>3
<1>5. \A j \in 0..n : \A i \in 0..j : /\ Extends(r[i].tables, r[j].tables)
                                      /\ r[i].full => r[j].full
  BY <1>1, <1>2, <1>4, ChainGrows
<1> QED BY <1>1, <1>3, <1>5 DEF r, n

-----------------------------------------------------------------------------
(***************************************************************************)
(* Merging a fork.                                                         *)
(***************************************************************************)
Forked(t) == Sound(t) /\ Extends(base, t)

(* Tables a fork's strings are merged into.                                *)
Grown(ts) == {v \in Seq(Words) : Distinct(v) /\ Prefix(ts, v)}

(* The lengths of the shared prefix.                                       *)
LEMMA BaseIs ==
    ASSUME Sound(base)
    PROVE  /\ BaseLen.strings = Len(base.strings) /\ BaseLen.paths = Len(base.paths)
           /\ BaseLen.strings \in Nat /\ BaseLen.paths \in Nat /\ BaseLen.paths >= 1
BY SoundParts, Capacity DEF BaseLen

(* A fork has the shared prefix.                                           *)
LEMMA ForkedIs ==
    ASSUME Sound(base), NEW l, Forked(l)
    PROVE  /\ Sound(l) /\ Extends(base, l)
           /\ BaseLen.strings <= Len(l.strings) /\ BaseLen.paths <= Len(l.paths)
           /\ \A i \in 1..BaseLen.strings : l.strings[i] = base.strings[i]
           /\ \A i \in 1..BaseLen.paths : l.paths[i] = base.paths[i]
BY BaseIs DEF Forked, Extends, Prefix

(* The merge of a fork's strings, as its equations.                        *)
LEMMA MergingStringsIs ==
    ASSUME Sound(base), NEW ts \in Seq(Words), Distinct(ts), NEW ls \in Seq(Words)
    PROVE  LET r == MergingStrings(ts, ls)
           IN /\ r \in [0..Len(ls) -> Grown(ts)]
              /\ r[0] = ts
              /\ \A k \in 1..Len(ls) :
                   /\ k <= BaseLen.strings => r[k] = ts
                   /\ k > BaseLen.strings => r[k] = Interned(r[k - 1], ls[k])
<1> DEFINE V == Grown(ts)
           B == BaseLen.strings
           n == Len(ls)
           G == [k \in 1..n |-> [v \in V |-> IF k <= B THEN ts ELSE Interned(v, ls[k])]]
           Def(f) == [k \in 0..n |-> IF k <= B THEN ts ELSE Interned(f[k - 1], ls[k])]
           r == MergingStrings(ts, ls)
<1>1. n \in Nat /\ B \in Nat /\ \A k \in 1..n : ls[k] \in Words
  BY BaseIs
<1>6. r = CHOOSE g : g = Def(g)
  BY DEF MergingStrings
<1> HIDE DEF n, B
<1>2. ts \in V
  BY DEF Grown, Prefix
<1>3. \A k \in 1..n, v \in V : Interned(v, ls[k]) \in V
  BY <1>1, InternedIs, PrefixTrans DEF Grown
<1>4. G \in [1..n -> [V -> V]]
      /\ \A k \in 1..n, v \in V : G[k][v] = IF k <= B THEN ts ELSE Interned(v, ls[k])
  <2> HIDE DEF V
  <2> QED BY <1>2, <1>3
<1> HIDE DEF G, V
<1>5. PICK f : IsRun(f, V, ts, n, G)
  BY <1>1, <1>2, <1>4, Runs
<1>7. f = Def(f)
  <2>1. \A k \in 0..n : k # 0 => k - 1 \in 0..n /\ k \in 1..n
    BY <1>1
  <2>2. ASSUME NEW k \in 0..n
        PROVE  f[k] = IF k <= B THEN ts ELSE Interned(f[k - 1], ls[k])
    BY <1>1, <1>4, <1>5, <2>1 DEF IsRun
  <2> QED BY <1>5, <2>2 DEF IsRun
<1> HIDE DEF r
<1>8. r = Def(r)
  <2> HIDE DEF Def
  <2> QED BY <1>6, <1>7
<1>9. r[0] = ts /\ \A k \in 1..n : /\ k <= B => r[k] = ts
                                   /\ k > B => r[k] = Interned(r[k - 1], ls[k])
  <2>1. Def(r)[0] = ts /\ \A k \in 1..n : /\ k <= B => Def(r)[k] = ts
                                          /\ k > B => Def(r)[k] = Interned(r[k - 1], ls[k])
    BY <1>1
  <2> HIDE DEF Def
  <2> QED BY <1>8, <2>1
<1>10. r = [k \in 0..n |-> r[k]]
  BY <1>8
<1>11. r \in [0..n -> V]
  <2>1. \A k \in 1..n : r[k - 1] \in V => r[k] \in V
    BY <1>1, <1>2, <1>3, <1>9
  <2> QED BY <1>1, <1>2, <1>9, <1>10, <2>1, RunType
<1> QED BY <1>9, <1>11 DEF r, n, V, B

(* What has been merged stays, and every string met is there.              *)
LEMMA MergingStringsGrows ==
    ASSUME Sound(base), NEW ts \in Seq(Words), Distinct(ts), NEW ls \in Seq(Words),
           Prefix(base.strings, ts), Prefix(base.strings, ls)
    PROVE  LET r == MergingStrings(ts, ls)
           IN \A k \in 0..Len(ls) :
                /\ \A i \in 0..k : Prefix(r[i], r[k])
                /\ \A i \in 1..k : ls[i] \in Range(r[k])
<1> DEFINE r == MergingStrings(ts, ls)
           n == Len(ls)
           B == BaseLen.strings
           Ok(k) == /\ \A i \in 0..k : Prefix(r[i], r[k])
                    /\ \A i \in 1..k : ls[i] \in Range(r[k])
           S == {k \in 0..n : Ok(k)}
<1>0. n \in Nat /\ B \in Nat /\ B = Len(base.strings) /\ \A k \in 1..n : ls[k] \in Words
  BY BaseIs
<1>1. /\ r \in [0..n -> Grown(ts)] /\ r[0] = ts
      /\ \A k \in 1..n : /\ k <= B => r[k] = ts
                         /\ k > B => r[k] = Interned(r[k - 1], ls[k])
  BY MergingStringsIs
<1> HIDE DEF r, n, B
<1>2. \A k \in 0..n : r[k] \in Seq(Words)
  BY <1>1 DEF Grown
<1>3. Ok(0)
  <2>1. Prefix(r[0], r[0])
    BY <1>0, <1>2 DEF Prefix
  <2> QED BY <2>1
<1>4. ASSUME NEW k \in 1..n, Ok(k - 1) PROVE Ok(k)
  <2>0. k - 1 \in 0..n /\ k \in 0..n /\ r[k - 1] \in Seq(Words) /\ r[k] \in Seq(Words)
        /\ ls[k] \in Words
    BY <1>0, <1>2
  <2>1. Prefix(r[k - 1], r[k]) /\ ls[k] \in Range(r[k])
    <3>1. CASE k <= B
      <4>1. r[k] = ts /\ r[k - 1] = ts
        <5>1. k - 1 = 0 \/ (k - 1 \in 1..n /\ k - 1 <= B)
          BY <1>0, <3>1
        <5> QED BY <1>1, <3>1, <5>1
      <4>2. k \in DOMAIN ts /\ ts[k] = ls[k]
        BY <1>0, <3>1 DEF Prefix
      <4> QED BY <4>1, <4>2 DEF Prefix, Range
    <3>2. CASE k > B
      <4>1. r[k] = Interned(r[k - 1], ls[k])
        BY <1>1, <3>2
      <4> DEFINE v == r[k - 1]
                 x == ls[k]
      <4>2. v \in Seq(Words) /\ x \in Words
        BY <2>0
      <4> HIDE DEF v, x, Ok
      <4>3. Prefix(v, Interned(v, x)) /\ x \in Range(Interned(v, x))
        BY <4>2, InternedIs
      <4> QED BY <4>1, <4>3 DEF v, x
    <3> QED BY <1>0, <3>1, <3>2
  <2>2. ASSUME NEW i \in 0..k PROVE Prefix(r[i], r[k])
    <3>1. CASE i = k
      BY <2>0, <3>1 DEF Prefix
    <3>2. CASE i # k
      <4>1. i \in 0..(k - 1) /\ i \in 0..n
        BY <1>0, <3>2
      <4>2. Prefix(r[i], r[k - 1]) /\ r[i] \in Seq(Words)
        BY <1>2, <1>4, <4>1
      <4> QED BY <2>0, <2>1, <4>2, PrefixTrans
    <3> QED BY <3>1, <3>2
  <2>3. ASSUME NEW i \in 1..k PROVE ls[i] \in Range(r[k])
    <3>1. CASE i = k
      BY <2>1, <3>1
    <3>2. CASE i # k
      <4>1. i \in 1..(k - 1)
        BY <1>0, <3>2
      <4>2. ls[i] \in Range(r[k - 1])
        BY <1>4, <4>1
      <4>3. PICK j \in DOMAIN r[k - 1] : r[k - 1][j] = ls[i]
        BY <4>2 DEF Range
      <4>4. j \in DOMAIN r[k] /\ r[k][j] = ls[i]
        <5>1. j \in 1..Len(r[k - 1]) /\ DOMAIN r[k] = 1..Len(r[k])
              /\ Len(r[k]) \in Nat /\ Len(r[k - 1]) \in Nat
          BY <2>0, <4>3
        <5> HIDE DEF Ok
        <5> QED BY <2>1, <4>3, <5>1 DEF Prefix
      <4> QED BY <4>4 DEF Range
    <3> QED BY <3>1, <3>2
  <2> QED BY <2>2, <2>3
<1> HIDE DEF Ok
<1>5. 0 \in S /\ \A k \in 1..n : k - 1 \in S => k \in S
  BY <1>0, <1>3, <1>4
<1> HIDE DEF S
<1>6. \A k \in 0..n : k \in S
  BY <1>0, <1>5, Induct
<1>7. \A k \in 0..n : Ok(k)
  BY <1>6 DEF S
<1> QED BY <1>7 DEF Ok, r, n

(* StringTable::merge_delta_from: the remap sends every string to itself.  *)
LEMMA MergeStringsIs ==
    ASSUME Sound(base), NEW ts \in Seq(Words), Distinct(ts), NEW ls \in Seq(Words),
           Prefix(base.strings, ts), Prefix(base.strings, ls)
    PROVE  LET s == MergeStrings(ts, ls)
           IN /\ s.strings = MergingStrings(ts, ls)[Len(ls)]
              /\ s.strings \in Seq(Words) /\ Distinct(s.strings) /\ Prefix(ts, s.strings)
              /\ s.remap \in [1..Len(ls) -> 1..Len(s.strings)]
              /\ \A i \in 1..Len(ls) : s.strings[s.remap[i]] = ls[i]
              /\ \A i \in 1..BaseLen.strings : s.remap[i] = i /\ i \in 1..Len(ls)
<1> DEFINE r == MergingStrings(ts, ls)
           n == Len(ls)
           B == BaseLen.strings
           all == r[n]
           s == MergeStrings(ts, ls)
<1>0. /\ n \in Nat /\ B \in Nat /\ B = Len(base.strings) /\ \A k \in 1..n : ls[k] \in Words
      /\ DOMAIN ls = 1..n
  BY BaseIs
<1>1. s = [ strings |-> all,
            remap |-> [i \in 1..n |-> IF i <= B THEN i ELSE IdOf(all, ls[i])] ]
  BY <1>0 DEF MergeStrings
<1>2. r \in [0..n -> Grown(ts)] /\ \A i \in 1..n : ls[i] \in Range(all)
  <2>1. r \in [0..n -> Grown(ts)]
    BY MergingStringsIs
  <2>2. \A k \in 0..n : \A i \in 1..k : ls[i] \in Range(r[k])
    BY MergingStringsGrows
  <2> HIDE DEF r, n
  <2> QED BY <1>0, <2>1, <2>2
<1> HIDE DEF r, n, B
<1>3. all \in Seq(Words) /\ Distinct(all) /\ Prefix(ts, all)
  <2>1. all \in Grown(ts)
    BY <1>0, <1>2
  <2> QED BY <2>1 DEF Grown
<1> HIDE DEF all
<1>4. ASSUME NEW i \in 1..n PROVE s.remap[i] \in 1..Len(all) /\ all[s.remap[i]] = ls[i]
  <2>1. CASE i <= B
    <3>1. s.remap[i] = i
      BY <1>1, <2>1
    <3>2. i \in 1..Len(ts) /\ ts[i] = ls[i]
      BY <1>0, <2>1 DEF Prefix
    <3> QED BY <1>3, <3>1, <3>2 DEF Prefix
  <2>2. CASE ~(i <= B)
    <3>1. s.remap[i] = IdOf(all, ls[i])
      BY <1>1, <2>2
    <3>2. \E j \in DOMAIN all : all[j] = ls[i]
      BY <1>2 DEF Range
    <3>3. IdOf(all, ls[i]) \in DOMAIN all /\ all[IdOf(all, ls[i])] = ls[i]
      BY <3>2 DEF IdOf
    <3> QED BY <1>3, <3>1, <3>3
  <2> QED BY <2>1, <2>2
<1>5. \A i \in 1..B : i \in 1..n /\ s.remap[i] = i
  <2>1. \A i \in 1..B : i \in 1..n
    BY <1>0 DEF Prefix, n
  <2> QED BY <1>0, <1>1, <2>1
<1>6. s.remap \in [1..n -> 1..Len(all)] /\ s.strings = all
  <2>1. s.remap = [i \in 1..n |-> s.remap[i]] /\ s.strings = all
    BY <1>1
  <2> HIDE DEF s
  <2> QED BY <2>1, <1>4
<1> HIDE DEF s
<1> QED BY <1>3, <1>4, <1>5, <1>6 DEF s, n, B, all, r

(* Merging more goes through merging less.                                 *)
LEMMA MergeStringsPrefix ==
    ASSUME Sound(base), NEW ts \in Seq(Words), Distinct(ts), Prefix(base.strings, ts),
           NEW ls \in Seq(Words), NEW us \in Seq(Words), Prefix(base.strings, ls), Prefix(ls, us)
    PROVE  /\ \A k \in 0..Len(ls) : MergingStrings(ts, us)[k] = MergingStrings(ts, ls)[k]
           /\ Prefix(MergeStrings(ts, ls).strings, MergeStrings(ts, us).strings)
           /\ \A i \in 1..Len(ls) : MergeStrings(ts, us).remap[i] = MergeStrings(ts, ls).remap[i]
<1> DEFINE r == MergingStrings(ts, ls)
           q == MergingStrings(ts, us)
           n == Len(ls)
           B == BaseLen.strings
           S == {k \in 0..n : q[k] = r[k]}
<1>0. /\ n \in Nat /\ B \in Nat /\ Len(us) \in Nat /\ n <= Len(us)
      /\ \A k \in 1..n : us[k] = ls[k] /\ k \in 1..Len(us)
  BY BaseIs DEF Prefix
<1>1. Prefix(base.strings, us)
  BY PrefixTrans, SoundParts
<1>2. /\ r[0] = ts
      /\ \A k \in 1..n : /\ k <= B => r[k] = ts
                         /\ k > B => r[k] = Interned(r[k - 1], ls[k])
  BY MergingStringsIs
<1>3. /\ q[0] = ts
      /\ \A k \in 1..n : /\ k <= B => q[k] = ts
                         /\ k > B => q[k] = Interned(q[k - 1], ls[k])
  BY <1>0, MergingStringsIs
<1>a. Prefix(q[n], q[Len(us)])
  BY <1>0, <1>1, MergingStringsGrows
<1>b. LET s == MergeStrings(ts, ls)
      IN /\ s.strings = r[n]
         /\ s.strings \in Seq(Words) /\ Distinct(s.strings)
         /\ s.remap \in [1..n -> 1..Len(s.strings)]
         /\ \A i \in 1..n : s.strings[s.remap[i]] = ls[i]
  BY MergeStringsIs
<1>c. LET s == MergeStrings(ts, us)
      IN /\ s.strings = q[Len(us)]
         /\ s.strings \in Seq(Words) /\ Distinct(s.strings)
         /\ s.remap \in [1..Len(us) -> 1..Len(s.strings)]
         /\ \A i \in 1..Len(us) : s.strings[s.remap[i]] = us[i]
  BY <1>1, MergeStringsIs
<1> HIDE DEF r, q, B, n
<1>4. 0 \in S /\ \A k \in 1..n : k - 1 \in S => k \in S
  BY <1>0, <1>2, <1>3
<1> HIDE DEF S
<1>5. \A k \in 0..n : k \in S
  BY <1>0, <1>4, Induct
<1>6. \A k \in 0..n : q[k] = r[k]
  BY <1>5 DEF S
<1>7. Prefix(MergeStrings(ts, ls).strings, MergeStrings(ts, us).strings)
  BY <1>0, <1>6, <1>a, <1>b, <1>c
<1>8. ASSUME NEW i \in 1..n
      PROVE  MergeStrings(ts, us).remap[i] = MergeStrings(ts, ls).remap[i]
  <2> DEFINE s == MergeStrings(ts, ls)
             u == MergeStrings(ts, us)
             a == s.remap[i]
             b == u.remap[i]
  <2>1. /\ a \in 1..Len(s.strings) /\ s.strings[a] = ls[i]
        /\ b \in 1..Len(u.strings) /\ u.strings[b] = ls[i] /\ Distinct(u.strings)
        /\ s.strings \in Seq(Words) /\ u.strings \in Seq(Words)
    BY <1>0, <1>b, <1>c
  <2>2. Prefix(s.strings, u.strings)
    BY <1>7
  <2> HIDE DEF s, u, a, b
  <2>3. a \in 1..Len(u.strings) /\ u.strings[a] = ls[i]
    BY <2>1, <2>2 DEF Prefix
  <2>4. a = b
    BY <2>1, <2>3 DEF Distinct
  <2> QED BY <2>4 DEF a, b, s, u
<1> QED BY <1>6, <1>7, <1>8 DEF r, q, n

(* The first k nodes of a fork, merged: rp is where they are.              *)
PathsTo(k, lp, mp, rs, rp) ==
    /\ rp \in [1..k -> 1..Len(mp)] /\ rp[1] = 1
    /\ \A i \in 2..k : mp[rp[i]] = [parent |-> rp[lp[i].parent], component |-> rs[lp[i].component]]

NodeAccs == [paths : Seq(Node), full : BOOLEAN, remap : Seq(Nat)]

(* What merging the first k nodes of a fork leaves; ms are the merged      *)
(* strings.                                                                *)
Stage(k, tp, lp, ms, rs) ==
    { v \in NodeAccs :
        /\ Sound([strings |-> ms, paths |-> v.paths]) /\ Prefix(tp, v.paths)
        /\ ~v.full => PathsTo(AtLeast(k, BaseLen.paths), lp, v.paths, rs, v.remap) }

(* The strings are merged: the remap covers the fork's components.         *)
Ready(t, l, ms, rs) ==
    /\ Forked(t) /\ Forked(l) /\ Sound([strings |-> ms, paths |-> t.paths])
    /\ rs \in [1..Len(l.strings) -> 1..Len(ms)]
    /\ \A i \in 1..BaseLen.strings : rs[i] = i

(* Up to the shared prefix the merge of the paths has nothing to do.       *)
LEMMA MergeStart ==
    ASSUME Sound(base), NEW t, NEW l, NEW ms, NEW rs, Ready(t, l, ms, rs),
           NEW k \in 0..BaseLen.paths
    PROVE  [paths |-> t.paths, full |-> FALSE, remap |-> [i \in 1..BaseLen.paths |-> i]]
             \in Stage(k, t.paths, l.paths, ms, rs)
<1> DEFINE B == BaseLen.paths
           id == [i \in 1..B |-> i]
           x == [paths |-> t.paths, full |-> FALSE, remap |-> id]
<1>1. /\ B \in Nat /\ B >= 1 /\ B = Len(base.paths) /\ BaseLen.strings \in Nat
      /\ BaseLen.strings = Len(base.strings)
  BY BaseIs
<1>2. /\ t.paths \in Seq(Node) /\ Sound([strings |-> ms, paths |-> t.paths]) /\ Sound(t)
      /\ B <= Len(t.paths) /\ B <= Len(l.paths) /\ Len(t.paths) \in Nat
      /\ \A i \in 1..B : t.paths[i] = base.paths[i] /\ l.paths[i] = base.paths[i]
      /\ \A i \in 1..BaseLen.strings : rs[i] = i
  BY ForkedIs, SoundParts, Capacity DEF Ready
<1>3. \A i \in 2..B : /\ base.paths[i] \in Node /\ base.paths[i].parent \in 1..(i - 1)
                      /\ base.paths[i].component \in 1..BaseLen.strings
  BY <1>1, SoundParts
<1> HIDE DEF B
<1>4. AtLeast(k, B) = B
  BY <1>1 DEF AtLeast, B
<1>5. id \in Seq(Nat) /\ id \in [1..B -> 1..Len(t.paths)] /\ id[1] = 1
  BY <1>1, <1>2
<1>6. PathsTo(B, l.paths, t.paths, rs, id)
  <2>1. ASSUME NEW i \in 2..B
        PROVE  t.paths[id[i]] = [ parent |-> id[l.paths[i].parent],
                                  component |-> rs[l.paths[i].component] ]
    <3>1. i \in 1..B /\ base.paths[i].parent \in 1..B
      BY <1>1, <1>3
    <3>2. id[i] = i /\ id[l.paths[i].parent] = base.paths[i].parent
          /\ rs[l.paths[i].component] = base.paths[i].component
      BY <1>2, <1>3, <3>1
    <3> HIDE DEF id
    <3> QED BY <1>2, <1>3, <3>1, <3>2 DEF Node
  <2> HIDE DEF id
  <2> QED BY <1>5, <2>1 DEF PathsTo
<1>7. x \in NodeAccs /\ x.paths = t.paths /\ x.remap = id
  BY <1>2, <1>5 DEF NodeAccs
<1>8. Prefix(t.paths, t.paths)
  BY <1>2 DEF Prefix
<1> HIDE DEF x, id
<1> QED BY <1>2, <1>4, <1>6, <1>7, <1>8 DEF Stage, x, id, B

(* One node: its parent has been merged before it.                         *)
LEMMA MergeNodeIs ==
    ASSUME Sound(base), NEW t, NEW l, NEW ms, NEW rs, Ready(t, l, ms, rs),
           NEW k \in 1..Len(l.paths), k > BaseLen.paths,
           NEW v \in Stage(k - 1, t.paths, l.paths, ms, rs)
    PROVE  LET d == MergeNode(v, l.paths[k], rs)
               p == v.remap[l.paths[k].parent]
               c == rs[l.paths[k].component]
               r == InternChild(v.paths, [parent |-> p, component |-> c])
           IN /\ d \in Stage(k, t.paths, l.paths, ms, rs)
              /\ v.full => d = v
              /\ ~v.full => /\ d = [paths |-> r.paths, full |-> r.id = 0,
                                    remap |-> Append(v.remap, r.id)]
                            /\ p \in 1..Len(v.paths) /\ c \in 1..Len(ms)
<1> DEFINE B == BaseLen.paths
           node == l.paths[k]
           d == MergeNode(v, node, rs)
           p == v.remap[node.parent]
           c == rs[node.component]
           new == [parent |-> p, component |-> c]
           r == InternChild(v.paths, new)
           m == [strings |-> ms, paths |-> v.paths]
<1>1. B \in Nat /\ B >= 1 /\ Len(l.paths) \in Nat /\ k \in Nat
  BY BaseIs, SoundParts, Capacity DEF Ready, Forked
<1>2. /\ \A i \in 2..k : l.paths[i].parent \in 1..(i - 1)
                         /\ l.paths[i].component \in 1..Len(l.strings)
      /\ t.paths \in Seq(Node) /\ rs \in [1..Len(l.strings) -> 1..Len(ms)]
  BY <1>1, SoundParts DEF Ready, Forked
<1>3. v \in NodeAccs /\ Sound(m) /\ Prefix(t.paths, v.paths)
      /\ (~v.full => PathsTo(k - 1, l.paths, v.paths, rs, v.remap))
  <2>1. AtLeast(k - 1, B) = k - 1
    BY <1>1 DEF AtLeast
  <2> QED BY <2>1 DEF Stage
<1>4. AtLeast(k, B) = k
  BY <1>1 DEF AtLeast
<1>v. v.paths \in Seq(Node) /\ v.full \in BOOLEAN /\ v.remap \in Seq(Nat)
  BY <1>3 DEF NodeAccs
<1>5. CASE v.full
  <2>1. d = v
    BY <1>5 DEF MergeNode
  <2>2. d \in Stage(k, t.paths, l.paths, ms, rs)
    <3> HIDE DEF d
    <3> QED BY <1>3, <1>5, <2>1 DEF Stage
  <2> HIDE DEF d
  <2> QED BY <1>5, <2>1, <2>2 DEF d, node
<1>6. CASE ~v.full
  <2> DEFINE rp == v.remap
             e == Append(rp, r.id)
  <2>1. d = [paths |-> r.paths, full |-> r.id = 0, remap |-> e]
    BY <1>6 DEF MergeNode, Full
  <2>2. rp \in [1..(k - 1) -> 1..Len(v.paths)] /\ rp[1] = 1
        /\ \A i \in 2..(k - 1) : v.paths[rp[i]] = [ parent |-> rp[l.paths[i].parent],
                                                    component |-> rs[l.paths[i].component] ]
    BY <1>3, <1>6 DEF PathsTo
  <2>3. k \in 2..k /\ node.parent \in 1..(k - 1) /\ node.component \in 1..Len(l.strings)
    BY <1>1, <1>2
  <2>4. p \in 1..Len(v.paths) /\ c \in 1..Len(ms)
    BY <1>2, <2>2, <2>3
  <2>5. /\ Sound([strings |-> ms, paths |-> r.paths]) /\ Prefix(v.paths, r.paths)
        /\ r.id \in 0..Len(r.paths)
        /\ r.id # 0 => r.id \in 2..Len(r.paths) /\ r.paths[r.id] = new
    <3>1. m.paths = v.paths /\ m.strings = ms
      OBVIOUS
    <3> HIDE DEF m, p, c
    <3>2. /\ Sound([strings |-> ms, paths |-> r.paths])
          /\ Extends(m, [strings |-> ms, paths |-> r.paths])
          /\ r.id \in 0..Len(r.paths)
          /\ r.id # 0 => r.id \in 2..Len(r.paths) /\ r.paths[r.id] = new
      BY <1>3, <2>4, <3>1, InternChildIs
    <3> QED BY <3>1, <3>2 DEF Extends
  <2>6. r.paths \in Seq(Node) /\ Len(r.paths) \in Nat
    <3> DEFINE u == [strings |-> ms, paths |-> r.paths]
    <3>1. u.paths = r.paths /\ Sound(u)
      BY <2>5
    <3> HIDE DEF u, r
    <3> QED BY <3>1, SoundParts, Capacity
  <2>7. Prefix(t.paths, r.paths)
    <3> HIDE DEF r
    <3> QED BY <1>2, <1>3, <1>v, <2>5, <2>6, PrefixTrans
  <2>8. e \in Seq(Nat) /\ Len(rp) = k - 1 /\ e \in [1..k -> Nat] /\ e[k] = r.id
        /\ \A i \in 1..(k - 1) : e[i] = rp[i]
    <3>1. r.id \in Nat
      <4> HIDE DEF r
      <4> QED BY <2>5, <2>6
    <3>2. DOMAIN rp = 1..(k - 1) /\ Len(rp) = k - 1
      <4>1. DOMAIN rp = 1..Len(rp) /\ Len(rp) \in Nat /\ DOMAIN rp = 1..(k - 1) /\ k - 1 \in Nat
        BY <1>1, <1>v, <2>2
      <4> HIDE DEF rp
      <4> QED BY <4>1
    <3> HIDE DEF r, rp
    <3>3. rp \in Seq(Nat)
      BY <1>v DEF rp
    <3>4. e \in Seq(Nat) /\ Len(e) = Len(rp) + 1 /\ e[Len(rp) + 1] = r.id
          /\ \A i \in 1..Len(rp) : e[i] = rp[i]
      BY <3>1, <3>3
    <3> HIDE DEF e
    <3>5. Len(e) = k /\ e[k] = r.id
      BY <1>1, <3>2, <3>4
    <3>6. e \in [1..k -> Nat]
      BY <3>4, <3>5
    <3> QED BY <3>2, <3>4, <3>5, <3>6
  <2> HIDE DEF e
  <2>9. r.id # 0 => PathsTo(k, l.paths, r.paths, rs, e)
    <3> SUFFICES ASSUME r.id # 0 PROVE PathsTo(k, l.paths, r.paths, rs, e)
      OBVIOUS
    <3>1. r.id \in 2..Len(r.paths) /\ r.paths[r.id] = new
      BY <2>5
    <3>a. Len(v.paths) <= Len(r.paths) /\ Len(v.paths) \in Nat
          /\ \A i \in 1..Len(v.paths) : r.paths[i] = v.paths[i]
      <4> HIDE DEF r
      <4> QED BY <1>v, <2>5 DEF Prefix
    <3>2. e[1] = 1 /\ 1 \in 1..(k - 1)
      BY <1>1, <2>2, <2>8
    <3>3. ASSUME NEW i \in 1..k PROVE e[i] \in 1..Len(r.paths)
      <4> HIDE DEF r
      <4>1. CASE i = k
        BY <2>8, <3>1, <4>1, <2>6
      <4>2. CASE i \in 1..(k - 1)
        <5>1. e[i] = rp[i] /\ rp[i] \in 1..Len(v.paths)
          BY <2>2, <2>8, <4>2
        <5> QED BY <5>1, <3>a, <2>6
      <4> QED BY <1>1, <4>1, <4>2
    <3>4. ASSUME NEW i \in 2..k
          PROVE  r.paths[e[i]] = [parent |-> e[l.paths[i].parent], component |-> rs[l.paths[i].component]]
      <4>1. l.paths[i].parent \in 1..(k - 1) /\ e[l.paths[i].parent] = rp[l.paths[i].parent]
        <5>1. l.paths[i].parent \in 1..(i - 1)
          BY <1>2
        <5>2. l.paths[i].parent \in 1..(k - 1)
          BY <1>1, <5>1
        <5> QED BY <2>8, <5>2
      <4>2. CASE i = k
        BY <2>8, <3>1, <4>1, <4>2
      <4>3. CASE i \in 2..(k - 1)
        <5>0. i \in 1..(k - 1)
          BY <1>1, <4>3
        <5>1. i \in 1..(k - 1) /\ e[i] = rp[i] /\ rp[i] \in 1..Len(v.paths)
          BY <2>2, <2>8, <5>0
        <5>2. r.paths[rp[i]] = v.paths[rp[i]]
          BY <3>a, <5>1
        <5> QED BY <2>2, <4>1, <4>3, <5>1, <5>2
      <4> QED BY <1>1, <4>2, <4>3
    <3>5. e \in [1..k -> 1..Len(r.paths)]
      BY <2>8, <3>3
    <3> HIDE DEF r
    <3> QED BY <3>2, <3>4, <3>5 DEF PathsTo
  <2>10. d.paths = r.paths /\ d.full = (r.id = 0) /\ d.remap = e /\ d \in NodeAccs
    <3> HIDE DEF r, d
    <3>1. d.paths = r.paths /\ d.full = (r.id = 0) /\ d.remap = e
      BY <2>1, Zenon
    <3>2. d \in NodeAccs
      BY <2>1, <2>6, <2>8 DEF NodeAccs
    <3> QED BY <3>1, <3>2
  <2>11. d \in Stage(k, t.paths, l.paths, ms, rs)
    <3> HIDE DEF r, d
    <3> QED BY <1>4, <2>5, <2>7, <2>9, <2>10 DEF Stage
  <2> HIDE DEF d, r, p, c
  <2> QED BY <1>6, <2>1, <2>4, <2>11 DEF d, r, p, c, e, node
<1> QED BY <1>v, <1>5, <1>6

(* The merge of a fork's paths, as its equations.                          *)
LEMMA MergingPathsIs ==
    ASSUME Sound(base), NEW t, NEW l, NEW ms, NEW rs, Ready(t, l, ms, rs)
    PROVE  LET r == MergingPaths(t.paths, l.paths, rs)
               x == [paths |-> t.paths, full |-> FALSE, remap |-> [i \in 1..BaseLen.paths |-> i]]
           IN \A k \in 0..Len(l.paths) :
                /\ r[k] \in Stage(k, t.paths, l.paths, ms, rs)
                /\ k <= BaseLen.paths => r[k] = x
                /\ k > BaseLen.paths => r[k] = MergeNode(r[k - 1], l.paths[k], rs)
<1> DEFINE B == BaseLen.paths
           n == Len(l.paths)
           x == [paths |-> t.paths, full |-> FALSE, remap |-> [i \in 1..B |-> i]]
           V(k) == Stage(k, t.paths, l.paths, ms, rs)
           Step(k, v) == IF k <= B THEN x ELSE MergeNode(v, l.paths[k], rs)
           G == [k \in 1..n |-> [v \in NodeAccs |-> IF v \in V(k - 1) THEN Step(k, v) ELSE x]]
           Def(f) == [k \in 0..n |-> IF k <= B THEN x ELSE MergeNode(f[k - 1], l.paths[k], rs)]
           r == MergingPaths(t.paths, l.paths, rs)
<1>1. n \in Nat /\ B \in Nat /\ B >= 1
  BY BaseIs, SoundParts, Capacity DEF Ready, Forked
<1>2. r = CHOOSE g : g = Def(g)
  BY DEF MergingPaths
<1>3. \A k \in 0..n : k <= B => x \in V(k)
  BY <1>1, MergeStart
<1>4. \A k \in 1..n : \A v \in V(k - 1) : Step(k, v) \in V(k)
  <2> SUFFICES ASSUME NEW k \in 1..n, NEW v \in V(k - 1) PROVE Step(k, v) \in V(k)
    OBVIOUS
  <2>1. CASE k <= B
    BY <1>1, <1>3, <2>1
  <2>2. CASE k > B
    <3>1. MergeNode(v, l.paths[k], rs) \in V(k)
      BY <2>2, MergeNodeIs
    <3> HIDE DEF V
    <3> QED BY <1>1, <2>2, <3>1
  <2> QED BY <1>1, <2>1, <2>2
<1>5. \A k \in 0..n : V(k) \subseteq NodeAccs
  BY DEF Stage
<1> HIDE DEF n, B, V, x
<1>6. x \in NodeAccs
  <2>1. x \in V(0)
    BY <1>1, <1>3
  <2> QED BY <1>1, <1>5, <2>1
<1>7. \A k \in 1..n : \A v \in NodeAccs : (IF v \in V(k - 1) THEN Step(k, v) ELSE x) \in NodeAccs
  <2> HIDE DEF Step
  <2>1. \A k \in 1..n : k \in 0..n
    BY <1>1
  <2> QED BY <1>4, <1>5, <1>6, <2>1
<1>8. G \in [1..n -> [NodeAccs -> NodeAccs]]
      /\ \A k \in 1..n : \A v \in NodeAccs : G[k][v] = IF v \in V(k - 1) THEN Step(k, v) ELSE x
  <2> HIDE DEF Step
  <2> QED BY <1>7
<1> HIDE DEF G
<1>9. PICK f : IsRun(f, NodeAccs, x, n, G)
  BY <1>1, <1>6, <1>8, Runs
<1>10. \A k \in 0..n : f[k] \in V(k)
  <2> DEFINE S == {k \in 0..n : f[k] \in V(k)}
  <2>1. 0 \in S
    BY <1>1, <1>3, <1>9 DEF IsRun
  <2>2. ASSUME NEW k \in 1..n, k - 1 \in S PROVE k \in S
    <3>1. k - 1 \in 0..n /\ f[k - 1] \in V(k - 1) /\ f[k] = G[k][f[k - 1]]
      BY <1>9, <2>2 DEF IsRun
    <3>2. f[k] = Step(k, f[k - 1])
      <4> HIDE DEF Step
      <4> QED BY <1>5, <1>8, <3>1
    <3>3. f[k] \in V(k)
      <4> HIDE DEF Step
      <4> QED BY <1>4, <3>1, <3>2
    <3> QED BY <1>1, <3>3
  <2> HIDE DEF S
  <2>3. \A k \in 0..n : k \in S
    BY <1>1, <2>1, <2>2, Induct
  <2> QED BY <2>3 DEF S
<1>11. f = Def(f)
  <2>1. ASSUME NEW k \in 0..n
        PROVE  f[k] = IF k <= B THEN x ELSE MergeNode(f[k - 1], l.paths[k], rs)
    <3>1. CASE k = 0
      BY <1>1, <1>9, <3>1 DEF IsRun
    <3>2. CASE k # 0
      <4>1. k \in 1..n /\ k - 1 \in 0..n
        BY <1>1, <3>2
      <4>2. f[k - 1] \in V(k - 1) /\ f[k - 1] \in NodeAccs /\ f[k] = G[k][f[k - 1]]
        BY <1>5, <1>9, <1>10, <4>1 DEF IsRun
      <4>3. f[k] = Step(k, f[k - 1])
        <5> HIDE DEF Step
        <5> QED BY <1>8, <4>1, <4>2
      <4> QED BY <4>3
    <3> QED BY <3>1, <3>2
  <2> QED BY <1>9, <2>1 DEF IsRun
<1> HIDE DEF r
<1>12. r = Def(r)
  <2> HIDE DEF Def
  <2> QED BY <1>2, <1>11
<1>13. \A k \in 0..n : /\ k <= B => r[k] = x
                       /\ k > B => r[k] = MergeNode(r[k - 1], l.paths[k], rs)
  <2>1. \A k \in 0..n : /\ k <= B => Def(r)[k] = x
                        /\ k > B => Def(r)[k] = MergeNode(r[k - 1], l.paths[k], rs)
    BY <1>1
  <2> HIDE DEF Def
  <2> QED BY <1>12, <2>1
<1>14. \A k \in 0..n : r[k] \in V(k)
  <2> DEFINE S == {k \in 0..n : r[k] \in V(k)}
  <2>1. 0 \in S
    BY <1>1, <1>3, <1>13
  <2>2. ASSUME NEW k \in 1..n, k - 1 \in S PROVE k \in S
    <3>1. r[k - 1] \in V(k - 1) /\ k \in 0..n
      BY <1>1, <2>2
    <3>2. r[k] = Step(k, r[k - 1])
      BY <1>1, <1>13, <3>1
    <3>3. r[k] \in V(k)
      <4> HIDE DEF Step
      <4> QED BY <1>4, <3>1, <3>2
    <3> QED BY <3>1, <3>3
  <2> HIDE DEF S
  <2>3. \A k \in 0..n : k \in S
    BY <1>1, <2>1, <2>2, Induct
  <2> QED BY <2>3 DEF S
<1> QED BY <1>13, <1>14 DEF r, n, B, V, x

(* The merge of fork l into tables t.                                      *)
StringsAt(t, l) == MergeStrings(t.strings, l.strings).remap
Merge(t, l) == MergePaths(t.paths, l.paths, StringsAt(t, l))
PathsAt(t, l) == Merge(t, l).remap
MergeFull(t, l) == Merge(t, l).full
Merged(t, l) == [strings |-> MergeStrings(t.strings, l.strings).strings, paths |-> Merge(t, l).paths]

(* The merged strings are what the merge of the paths starts from.         *)
LEMMA MergeReady ==
    ASSUME Sound(base), NEW t, NEW l, Forked(t), Forked(l)
    PROVE  /\ Ready(t, l, MergeStrings(t.strings, l.strings).strings, StringsAt(t, l))
           /\ Prefix(t.strings, MergeStrings(t.strings, l.strings).strings)
           /\ \A i \in 1..Len(l.strings) :
                MergeStrings(t.strings, l.strings).strings[StringsAt(t, l)[i]] = l.strings[i]
<1> DEFINE s == MergeStrings(t.strings, l.strings)
           ms == s.strings
<1>1. /\ t.strings \in Seq(Words) /\ Distinct(t.strings) /\ l.strings \in Seq(Words)
      /\ Prefix(base.strings, t.strings) /\ Prefix(base.strings, l.strings)
      /\ t.paths \in Seq(Node) /\ Distinct(t.paths) /\ Rooted(t.paths, Len(t.strings))
  BY SoundParts DEF Forked, Extends, Sound
<1>2. /\ ms \in Seq(Words) /\ Distinct(ms) /\ Prefix(t.strings, ms)
      /\ s.remap \in [1..Len(l.strings) -> 1..Len(ms)]
      /\ \A i \in 1..Len(l.strings) : ms[s.remap[i]] = l.strings[i]
      /\ \A i \in 1..BaseLen.strings : s.remap[i] = i
  BY <1>1, MergeStringsIs
<1> HIDE DEF s
<1>3. Rooted(t.paths, Len(ms))
  BY <1>1, <1>2 DEF Rooted, Prefix
<1>4. Sound([strings |-> ms, paths |-> t.paths])
  BY <1>1, <1>2, <1>3 DEF Sound, Tables
<1> QED BY <1>2, <1>4 DEF Ready, StringsAt, s

(* PathInternerFork::merge_delta_from: the merged tables are tables, what  *)
(* was there stays, and the fork is inside them where the remaps say.      *)
LEMMA MergeIs ==
    ASSUME Sound(base), NEW t, NEW l, Forked(t), Forked(l)
    PROVE  /\ Sound(Merged(t, l)) /\ Extends(t, Merged(t, l)) /\ Forked(Merged(t, l))
           /\ MergeFull(t, l) \in BOOLEAN
           /\ ~MergeFull(t, l) => Embeds(l, Merged(t, l), StringsAt(t, l), PathsAt(t, l))
<1> DEFINE ms == MergeStrings(t.strings, l.strings).strings
           rs == StringsAt(t, l)
           p == Merge(t, l)
           m == Merged(t, l)
           n == Len(l.paths)
<1>1. /\ Ready(t, l, ms, rs) /\ Prefix(t.strings, ms)
      /\ \A i \in 1..Len(l.strings) : ms[rs[i]] = l.strings[i]
  BY MergeReady
<1>2. p = MergingPaths(t.paths, l.paths, rs)[n]
  BY DEF Merge, MergePaths
<1>3. n \in Nat /\ BaseLen.paths <= n /\ AtLeast(n, BaseLen.paths) = n
  BY BaseIs, ForkedIs, SoundParts, Capacity DEF AtLeast
<1>4. p \in Stage(n, t.paths, l.paths, ms, rs)
  <2> HIDE DEF ms, rs, p
  <2>1. \A k \in 0..n : MergingPaths(t.paths, l.paths, rs)[k] \in Stage(k, t.paths, l.paths, ms, rs)
    BY <1>1, MergingPathsIs
  <2> HIDE DEF n
  <2> QED BY <1>2, <1>3, <2>1
<1>5. m.strings = ms /\ m.paths = p.paths /\ m = [strings |-> ms, paths |-> p.paths]
  BY DEF Merged
<1> HIDE DEF ms, rs, p, m
<1>6. /\ Sound([strings |-> ms, paths |-> p.paths]) /\ Prefix(t.paths, p.paths)
      /\ p.full \in BOOLEAN
      /\ ~p.full => PathsTo(n, l.paths, p.paths, rs, p.remap)
  BY <1>3, <1>4 DEF Stage, NodeAccs
<1>7. Sound(m) /\ Extends(t, m)
  BY <1>1, <1>5, <1>6 DEF Extends
<1>8. ~p.full => Embeds(l, m, rs, p.remap)
  BY <1>1, <1>5, <1>6 DEF Embeds, PathsTo, Ready
<1>9. Forked(m)
  BY <1>7, ExtendsTrans DEF Forked, Sound
<1> QED BY <1>6, <1>7, <1>8, <1>9 DEF m, p, rs, MergeFull, PathsAt

(* merge_delta_from finds the shared prefix, and parents first.            *)
LEMMA NoBaseMismatch ==
    ASSUME Sound(base), NEW t, NEW l, Forked(t), Forked(l)
    PROVE  ~BaseMismatch(t.paths, l.paths)
<1> DEFINE B == BaseLen.paths
<1>1. /\ B \in Nat /\ B >= 1 /\ B <= Len(t.paths) /\ B <= Len(l.paths)
      /\ \A i \in 1..B : t.paths[i] = l.paths[i]
      /\ t.paths \in Seq(Node) /\ l.paths \in Seq(Node)
      /\ \A i \in 2..Len(l.paths) : l.paths[i].parent \in 1..(i - 1)
  BY BaseIs, ForkedIs, SoundParts
<1> HIDE DEF B
<1>2. SubSeq(t.paths, 1, B) = SubSeq(l.paths, 1, B)
  BY <1>1
<1>3. \A i \in (B + 1)..Len(l.paths) : l.paths[i].parent \in 1..(i - 1)
  BY <1>1
<1> QED BY <1>2, <1>3 DEF BaseMismatch, B

(* Merging a fork goes through merging what it grew from.                  *)
LEMMA MergePrefix ==
    ASSUME Sound(base), NEW t, NEW l, NEW u, Forked(t), Forked(l), Forked(u), Extends(l, u)
    PROVE  /\ \A i \in 1..Len(l.strings) : StringsAt(t, u)[i] = StringsAt(t, l)[i]
           /\ \A k \in 0..Len(l.paths) :
                MergingPaths(t.paths, u.paths, StringsAt(t, u))[k]
                  = MergingPaths(t.paths, l.paths, StringsAt(t, l))[k]
           /\ MergeFull(t, l) => MergeFull(t, u)
<1> DEFINE rs == StringsAt(t, l)
           us == StringsAt(t, u)
           n == Len(l.paths)
           N == Len(u.paths)
           B == BaseLen.paths
           r == MergingPaths(t.paths, l.paths, rs)
           q == MergingPaths(t.paths, u.paths, us)
           lm == MergeStrings(t.strings, l.strings).strings
           um == MergeStrings(t.strings, u.strings).strings
           x == [paths |-> t.paths, full |-> FALSE, remap |-> [i \in 1..B |-> i]]
<1>1. \A i \in 1..Len(l.strings) : us[i] = rs[i]
  <2>1. /\ t.strings \in Seq(Words) /\ Distinct(t.strings) /\ l.strings \in Seq(Words)
        /\ u.strings \in Seq(Words) /\ Prefix(base.strings, t.strings)
        /\ Prefix(base.strings, l.strings) /\ Prefix(l.strings, u.strings)
    BY SoundParts DEF Forked, Extends, Sound
  <2> QED BY <2>1, MergeStringsPrefix DEF StringsAt
<1>2. /\ n \in Nat /\ N \in Nat /\ n <= N /\ B \in Nat /\ B >= 1 /\ B <= n
      /\ \A k \in 1..n : u.paths[k] = l.paths[k]
      /\ \A k \in 2..n : l.paths[k].component \in 1..Len(l.strings)
  BY BaseIs, ForkedIs, SoundParts, Capacity DEF Forked, Extends, Prefix
<1>3. Ready(t, l, lm, rs) /\ Ready(t, u, um, us)
  BY MergeReady
<1> HIDE DEF rs, us, lm, um
<1>4. \A k \in 0..n : /\ r[k] \in Stage(k, t.paths, l.paths, lm, rs)
                      /\ k <= B => r[k] = x
                      /\ k > B => r[k] = MergeNode(r[k - 1], l.paths[k], rs)
  BY <1>3, MergingPathsIs
<1>5. \A k \in 0..N : /\ q[k] \in Stage(k, t.paths, u.paths, um, us)
                      /\ k <= B => q[k] = x
                      /\ k > B => q[k] = MergeNode(q[k - 1], u.paths[k], us)
  BY <1>3, MergingPathsIs
<1>6. MergeFull(t, l) = r[n].full /\ MergeFull(t, u) = q[N].full
  BY DEF MergeFull, Merge, MergePaths, rs, us
<1> HIDE DEF n, N, B, r, q, x
<1>7. \A k \in 0..n : q[k] = r[k]
  <2> DEFINE S == {k \in 0..n : q[k] = r[k]}
  <2>1. 0 \in S
    BY <1>2, <1>4, <1>5
  <2>2. ASSUME NEW k \in 1..n, k - 1 \in S PROVE k \in S
    <3>1. k \in 0..n /\ k \in 0..N /\ q[k - 1] = r[k - 1]
      BY <1>2, <2>2
    <3>2. CASE k <= B
      BY <1>4, <1>5, <3>1, <3>2
    <3>3. CASE k > B
      <4>1. k \in 2..n /\ u.paths[k] = l.paths[k] /\ us[l.paths[k].component] = rs[l.paths[k].component]
        BY <1>1, <1>2, <3>3
      <4>2. MergeNode(r[k - 1], l.paths[k], us) = MergeNode(r[k - 1], l.paths[k], rs)
        BY <4>1 DEF MergeNode
      <4> QED BY <1>4, <1>5, <3>1, <3>3, <4>1, <4>2
    <3> QED BY <1>2, <3>2, <3>3
  <2> HIDE DEF S
  <2>3. \A k \in 0..n : k \in S
    BY <1>2, <2>1, <2>2, Induct
  <2> QED BY <2>3 DEF S
<1>8. r[n].full => q[N].full
  <2> SUFFICES ASSUME r[n].full PROVE q[N].full
    OBVIOUS
  <2> DEFINE S == {k \in 0..N : k >= n => q[k].full}
  <2>1. 0 \in S
    BY <1>2
  <2>2. ASSUME NEW k \in 1..N, k - 1 \in S PROVE k \in S
    <3>1. CASE k < n
      BY <1>2, <3>1
    <3>2. CASE k = n
      <4>1. q[k].full
        BY <1>2, <1>7, <3>2
      <4> QED BY <1>2, <4>1
    <3>3. CASE k > n
      <4>1. q[k - 1].full /\ q[k] = MergeNode(q[k - 1], u.paths[k], us)
        BY <1>2, <1>5, <2>2, <3>3
      <4>2. q[k] = q[k - 1]
        BY <4>1 DEF MergeNode
      <4> QED BY <1>2, <4>1, <4>2
    <3> QED BY <1>2, <3>1, <3>2, <3>3
  <2> HIDE DEF S
  <2>3. \A k \in 0..N : k \in S
    BY <1>2, <2>1, <2>2, Induct
  <2>4. N \in S
    BY <1>2, <2>3
  <2> QED BY <1>2, <2>4 DEF S
<1> QED BY <1>1, <1>6, <1>7, <1>8 DEF rs, us, r, q, n

-----------------------------------------------------------------------------
(***************************************************************************)
(* A step in the fork and the same step in the merged tables. Merging      *)
(* commutes with interning: what a fork wrote on its own is what would     *)
(* have been written in the tables it is merged into.                      *)
(***************************************************************************)
LEMMA LockString ==
    ASSUME Sound(base), NEW t, NEW l, Forked(t), Forked(l), NEW w \in Words
    PROVE  LET s == Interned(l.strings, w)
               u == [strings |-> s, paths |-> l.paths]
               m == Merged(t, l)
               z == Interned(m.strings, w)
           IN /\ Forked(u) /\ Extends(l, u) /\ Merged(t, u) = [strings |-> z, paths |-> m.paths]
              /\ MergeFull(t, u) = MergeFull(t, l) /\ PathsAt(t, u) = PathsAt(t, l)
              /\ StringsAt(t, u)[IdOf(s, w)] = IdOf(z, w)
<1> DEFINE s == Interned(l.strings, w)
           u == [strings |-> s, paths |-> l.paths]
           m == Merged(t, l)
           n == Len(l.strings)
           z == Interned(m.strings, w)
           M == MergeStrings(t.strings, l.strings)
           U == MergeStrings(t.strings, s)
<1>1. Sound(u) /\ Extends(l, u) /\ IdOf(s, w) \in 1..Len(s) /\ s[IdOf(s, w)] = w
  BY InternStringIs DEF Forked
<1>0. u.strings = s /\ u.paths = l.paths
  OBVIOUS
<1>2. Forked(u)
  <2> HIDE DEF u
  <2> QED BY <1>1, ExtendsTrans DEF Forked, Sound
<1>3. Merge(t, u) = Merge(t, l)
  <2> HIDE DEF u
  <2>1. \A k \in 0..Len(l.paths) :
                MergingPaths(t.paths, u.paths, StringsAt(t, u))[k]
                  = MergingPaths(t.paths, l.paths, StringsAt(t, l))[k]
    BY <1>1, <1>2, MergePrefix
  <2>2. Len(l.paths) \in 0..Len(l.paths)
    BY SoundParts, Capacity DEF Forked
  <2> QED BY <1>0, <2>1, <2>2 DEF Merge, MergePaths
<1>4. /\ t.strings \in Seq(Words) /\ Distinct(t.strings) /\ l.strings \in Seq(Words)
      /\ s \in Seq(Words) /\ n \in Nat /\ DOMAIN l.strings = 1..n
      /\ Prefix(base.strings, t.strings) /\ Prefix(base.strings, l.strings)
      /\ Prefix(base.strings, s) /\ Prefix(l.strings, s)
  <2>1. Prefix(base.strings, u.strings) /\ Prefix(l.strings, u.strings) /\ u.strings \in Seq(Words)
    <3> HIDE DEF u
    <3> QED BY <1>1, <1>2, SoundParts DEF Forked, Extends
  <2> QED BY <1>0, <2>1, SoundParts DEF Forked, Extends, Sound
<1>5. /\ M.strings = MergingStrings(t.strings, l.strings)[n] /\ M.strings \in Seq(Words)
      /\ M.remap \in [1..n -> 1..Len(M.strings)] /\ Distinct(M.strings)
      /\ \A i \in 1..n : M.strings[M.remap[i]] = l.strings[i]
  BY <1>4, MergeStringsIs
<1>6. /\ U.strings = MergingStrings(t.strings, s)[Len(s)] /\ U.strings \in Seq(Words)
      /\ U.remap \in [1..Len(s) -> 1..Len(U.strings)] /\ Distinct(U.strings)
      /\ \A i \in 1..Len(s) : U.strings[U.remap[i]] = s[i]
  <2> HIDE DEF s
  <2> QED BY <1>4, MergeStringsIs
<1>7. U.strings = Interned(M.strings, w)
  <2>1. CASE w \in Range(l.strings)
    <3>1. s = l.strings
      BY <2>1 DEF Interned
    <3>2. PICK i \in 1..n : l.strings[i] = w
      BY <1>4, <2>1 DEF Range
    <3>3. w \in Range(M.strings)
      <4>1. M.remap[i] \in DOMAIN M.strings /\ M.strings[M.remap[i]] = w
        BY <1>5, <3>2
      <4> QED BY <4>1 DEF Range
    <3> QED BY <3>1, <3>3 DEF Interned
  <2>2. CASE w \notin Range(l.strings)
    <3>1. s = Append(l.strings, w) /\ Len(s) = n + 1 /\ s[n + 1] = w
      BY <1>4, <2>2 DEF Interned
    <3>2. MergingStrings(t.strings, s)[n] = MergingStrings(t.strings, l.strings)[n]
      <4>1. n \in 0..n
        BY <1>4
      <4> HIDE DEF s
      <4> QED BY <1>4, <4>1, MergeStringsPrefix
    <3>3. MergingStrings(t.strings, s)[n + 1] = Interned(MergingStrings(t.strings, s)[n], w)
      <4>1. n + 1 \in 1..Len(s) /\ n + 1 > BaseLen.strings /\ (n + 1) - 1 = n
        BY <1>4, <3>1, BaseIs DEF Prefix
      <4> HIDE DEF s, n
      <4>2. \A k \in 1..Len(s) : k > BaseLen.strings
               => MergingStrings(t.strings, s)[k] = Interned(MergingStrings(t.strings, s)[k - 1], s[k])
        BY <1>4, MergingStringsIs
      <4> QED BY <3>1, <4>1, <4>2
    <3> QED BY <1>5, <1>6, <3>1, <3>2, <3>3
  <2> QED BY <2>1, <2>2
<1>8. m.strings = M.strings /\ m.paths = Merge(t, l).paths
      /\ Merged(t, u) = [strings |-> U.strings, paths |-> Merge(t, u).paths]
      /\ StringsAt(t, u) = U.remap
  BY <1>0 DEF Merged, StringsAt
<1>9. Merged(t, u) = [strings |-> z, paths |-> m.paths]
  BY <1>3, <1>7, <1>8
<1>10. U.remap[IdOf(s, w)] = IdOf(U.strings, w)
  <2> DEFINE i == U.remap[IdOf(s, w)]
  <2>1. i \in 1..Len(U.strings) /\ U.strings[i] = w
    BY <1>1, <1>6
  <2> HIDE DEF i, U
  <2> QED BY <1>6, <2>1, IdOfIs DEF i
<1>11. z = U.strings
  BY <1>7, <1>8
<1> HIDE DEF U, M, z, s, u, m
<1> QED BY <1>1, <1>2, <1>3, <1>8, <1>9, <1>10, <1>11 DEF MergeFull, PathsAt, z, s, u, m

(* A node of the merged tables that looks like a fork's comes from it.     *)
LEMMA EmbedReflects ==
    ASSUME NEW l, NEW m, NEW rs, NEW rp, Sound(l), Sound(m), Embeds(l, m, rs, rp),
           NEW p \in 1..Len(l.paths), NEW c \in 1..Len(l.strings), NEW i \in 1..Len(l.paths),
           m.paths[rp[i]] = [parent |-> rp[p], component |-> rs[c]]
    PROVE  l.paths[i] = [parent |-> p, component |-> c]
<1>0. /\ rp \in [1..Len(l.paths) -> 1..Len(m.paths)] /\ rp[1] = 1
      /\ m.paths[1] = RootNode /\ Len(l.paths) \in Nat /\ Len(m.paths) \in Nat
  BY SoundParts, Capacity DEF Embeds
<1>1. i # 1
  <2>1. rp[p] # 0
    BY <1>0
  <2> QED BY <1>0, <2>1 DEF RootNode
<1>2. i \in 2..Len(l.paths)
  BY <1>0, <1>1
<1>3. /\ l.paths[i].parent \in 1..Len(l.paths) /\ l.paths[i].component \in 1..Len(l.strings)
      /\ m.paths[rp[i]].parent = rp[l.paths[i].parent]
      /\ m.paths[rp[i]].component = rs[l.paths[i].component]
  BY <1>2, EmbedNode
<1>4. rp[l.paths[i].parent] = rp[p] /\ rs[l.paths[i].component] = rs[c]
  BY <1>3
<1>5. l.paths[i].parent = p /\ l.paths[i].component = c
  BY <1>3, <1>4, EmbedInjective
<1>6. l.paths[i] \in Node
  BY SoundParts
<1> QED BY <1>5, <1>6 DEF Node

(* A fork that fills its table fills the merged one with the same nodes.   *)
LEMMA EmbedFull ==
    ASSUME NEW l, NEW m, NEW rs, NEW rp, Sound(l), Sound(m), Embeds(l, m, rs, rp),
           Len(l.paths) = PathCapacity
    PROVE  /\ Len(m.paths) = PathCapacity
           /\ \A j \in 1..Len(m.paths) : \E i \in 1..Len(l.paths) : rp[i] = j
<1> DEFINE S == 1..Len(l.paths)
           T == 1..Len(m.paths)
<1>0. Len(l.paths) \in Nat /\ Len(m.paths) \in Nat /\ Len(m.paths) <= PathCapacity
      /\ PathCapacity \in Nat /\ Len(l.paths) >= 1 /\ Len(m.paths) >= 1
  BY SoundParts, Capacity
<1>1. IsFiniteSet(T) /\ Cardinality(T) = Len(m.paths) /\ Cardinality(S) = Len(l.paths)
  <2>1. \A a \in Nat : a >= 1 => IsFiniteSet(1..a) /\ Cardinality(1..a) = a
    <3> SUFFICES ASSUME NEW a \in Nat, a >= 1 PROVE IsFiniteSet(1..a) /\ Cardinality(1..a) = a
      OBVIOUS
    <3>1. IsFiniteSet(1..a) /\ Cardinality(1..a) = IF 1 > a THEN 0 ELSE a - 1 + 1
      BY FS_Interval
    <3> QED BY <3>1
  <2> QED BY <1>0, <2>1
<1>2. rp \in Injection(S, T)
  <2>1. rp \in [S -> T] /\ DOMAIN rp = S
    BY DEF Embeds
  <2>2. \A a, b \in S : rp[a] = rp[b] => a = b
    BY EmbedInjective
  <2> HIDE DEF S, T
  <2> QED BY <2>1, <2>2 DEF Injection, IsInjective
<1> HIDE DEF S, T
<1>3. Cardinality(S) <= Cardinality(T) /\ (Cardinality(S) = Cardinality(T) <=> rp \in Surjection(S, T))
  BY <1>1, <1>2, FS_Injection
<1>4. Len(m.paths) = PathCapacity /\ rp \in Surjection(S, T)
  BY <1>0, <1>1, <1>3
<1> QED BY <1>4 DEF Surjection, S, T

(* A child node in the fork and in the merged tables.                      *)
LEMMA LockChild ==
    ASSUME Sound(base), NEW t, NEW l, Forked(t), Forked(l), ~MergeFull(t, l),
           NEW p \in 1..Len(l.paths), NEW c \in 1..Len(l.strings)
    PROVE  LET node == [parent |-> p, component |-> c]
               a == InternChild(l.paths, node)
               u == [strings |-> l.strings, paths |-> a.paths]
               m == Merged(t, l)
               new == [parent |-> PathsAt(t, l)[p], component |-> StringsAt(t, l)[c]]
               b == InternChild(m.paths, new)
           IN /\ Forked(u) /\ Extends(l, u)
              /\ a.id = 0 => b.id = 0
              /\ a.id # 0 /\ b.id = 0 => MergeFull(t, u)
              /\ a.id # 0 /\ b.id # 0 => /\ ~MergeFull(t, u)
                                         /\ Merged(t, u) = [strings |-> m.strings, paths |-> b.paths]
                                         /\ PathsAt(t, u)[a.id] = b.id
<1> DEFINE rs == StringsAt(t, l)
           rp == PathsAt(t, l)
           m == Merged(t, l)
           node == [parent |-> p, component |-> c]
           new == [parent |-> rp[p], component |-> rs[c]]
           a == InternChild(l.paths, node)
           b == InternChild(m.paths, new)
           u == [strings |-> l.strings, paths |-> a.paths]
           n == Len(l.paths)
<1>1. Sound(l) /\ Sound(t) /\ Sound(m) /\ Embeds(l, m, rs, rp)
  BY MergeIs DEF Forked
<1>2. /\ l.paths \in Seq(Node) /\ n \in Nat /\ DOMAIN l.paths = 1..n
      /\ l = [strings |-> l.strings, paths |-> l.paths]
      /\ m.paths \in Seq(Node) /\ DOMAIN m.paths = 1..Len(m.paths) /\ Distinct(m.paths)
      /\ Distinct(l.paths) /\ BaseLen.paths <= n /\ BaseLen.paths \in Nat /\ BaseLen.paths >= 1
      /\ l.strings \in Seq(Words)
  BY <1>1, SoundParts, Capacity, ForkedIs, BaseIs DEF Sound
<1>3. rp[p] \in 1..Len(m.paths) /\ rs[c] \in 1..Len(m.strings)
      /\ rp \in [1..n -> 1..Len(m.paths)]
  BY <1>1 DEF Embeds
<1>4. /\ Sound(u) /\ Extends(l, u) /\ a.id \in 0..Len(a.paths)
      /\ (a.id = 0) <=> (n = PathCapacity /\ node \notin Range(l.paths))
      /\ a.id # 0 => /\ a.paths = Interned(l.paths, node)
                     /\ a.id = IdOf(a.paths, node)
                     /\ a.id \in 2..Len(a.paths) /\ a.paths[a.id] = node
  BY <1>1, InternChildIs
<1>5. /\ (b.id = 0) <=> (Len(m.paths) = PathCapacity /\ new \notin Range(m.paths))
      /\ b.id # 0 => /\ b.paths = Interned(m.paths, new)
                     /\ b.id = IdOf(b.paths, new)
  <2> DEFINE pp == rp[p]
             cc == rs[c]
  <2>1. pp \in 1..Len(m.paths) /\ cc \in 1..Len(m.strings)
    BY <1>3
  <2> HIDE DEF m, pp, cc
  <2>2. Sound(m)
    BY <1>1
  <2> DEFINE x == [parent |-> pp, component |-> cc]
             y == InternChild(m.paths, x)
  <2>3. /\ Sound([strings |-> m.strings, paths |-> y.paths])
        /\ (y.id = 0) <=> (Len(m.paths) = PathCapacity /\ x \notin Range(m.paths))
        /\ y.id # 0 => /\ y.paths = Interned(m.paths, x)
                       /\ y.id = IdOf(y.paths, x)
    <3> HIDE DEF rp, rs, node, new, a, b, u, n
    <3> QED BY <2>1, <2>2, InternChildIs
  <2> QED BY <2>3 DEF pp, cc
<1>6. Forked(u)
  <2> HIDE DEF u
  <2> QED BY <1>4, ExtendsTrans DEF Forked, Sound
<1>7. node \in Range(l.paths) <=> \E i \in 1..n : l.paths[i] = node
  <2> HIDE DEF node
  <2> QED BY <1>2 DEF Range
<1>8. ASSUME a.id = 0 PROVE b.id = 0
  <2>1. n = PathCapacity /\ node \notin Range(l.paths)
    BY <1>4, <1>8
  <2>2. /\ Len(m.paths) = PathCapacity
        /\ \A j \in 1..Len(m.paths) : \E i \in 1..n : rp[i] = j
    <3> HIDE DEF m, rp, rs
    <3> QED BY <1>1, <2>1, EmbedFull
  <2>3. ASSUME new \in Range(m.paths) PROVE FALSE
    <3>1. PICK j \in 1..Len(m.paths) : m.paths[j] = new
      <4> HIDE DEF new, m
      <4> QED BY <1>2, <2>3 DEF Range
    <3>2. PICK i \in 1..n : rp[i] = j
      BY <2>2
    <3>3. l.paths[i] = node
      <4> HIDE DEF m, rp, rs
      <4> QED BY <1>1, <3>1, <3>2, EmbedReflects
    <3> QED BY <1>7, <2>1, <3>3
  <2> HIDE DEF b, new, m
  <2> QED BY <1>5, <2>2, <2>3
<1>9. CASE node \in Range(l.paths)
  <2>1. PICK i \in 1..n : l.paths[i] = node
    BY <1>7, <1>9
  <2>2. a.id # 0 /\ a.paths = l.paths /\ a.id = i
    <3>1. a.id # 0
      <4> HIDE DEF node, a
      <4> QED BY <1>4, <1>9
    <3>2. a.paths = l.paths
      <4> HIDE DEF node, a
      <4> QED BY <1>4, <1>9, <3>1 DEF Interned
    <3>3. a.id = i
      <4> HIDE DEF node, a
      <4> QED BY <1>2, <1>4, <2>1, <3>1, <3>2, IdOfIs
    <3> QED BY <3>1, <3>2, <3>3
  <2>3. u = l
    BY <1>2, <2>2
  <2>4. i # 1
    <3>1. l.paths[1] = RootNode
      BY <1>1, SoundParts
    <3>2. node # RootNode
      BY DEF RootNode
    <3> QED BY <2>1, <3>1, <3>2
  <2>5. m.paths[rp[i]] = new /\ rp[i] \in 1..Len(m.paths)
    <3>1. i \in 2..n /\ l.paths[i].parent = p /\ l.paths[i].component = c
      BY <1>2, <2>1, <2>4
    <3> QED BY <1>1, <1>3, <3>1 DEF Embeds
  <2>6. new \in Range(m.paths)
    <3> HIDE DEF new, m, rp
    <3> QED BY <1>2, <2>5 DEF Range
  <2>7. b.id # 0 /\ b.paths = m.paths /\ b.id = rp[i]
    <3>1. b.id # 0
      <4> HIDE DEF b, new, m
      <4> QED BY <1>5, <2>6
    <3>2. b.paths = m.paths
      <4> HIDE DEF b, new, m
      <4> QED BY <1>5, <2>6, <3>1 DEF Interned
    <3>3. b.id = rp[i]
      <4> HIDE DEF b, new, m, rp
      <4> QED BY <1>2, <1>5, <2>5, <3>1, <3>2, IdOfIs
    <3> QED BY <3>1, <3>2, <3>3
  <2>8. m = [strings |-> m.strings, paths |-> m.paths]
    BY <1>1, SoundParts
  <2> HIDE DEF a, b, m, node, new, u
  <2> QED BY <1>4, <1>6, <2>2, <2>3, <2>7, <2>8 DEF a, b, m, node, new, u, rp, rs
<1>10. CASE node \notin Range(l.paths) /\ a.id # 0
  <2>0. node \in Node
    <3>1. p \in Nat /\ c \in Nat
      OBVIOUS
    <3> QED BY <3>1 DEF Node
  <2>1. a.paths = Append(l.paths, node) /\ Len(a.paths) = n + 1 /\ a.paths[n + 1] = node
    <3> HIDE DEF node, a
    <3> QED BY <1>2, <1>4, <1>10, <2>0 DEF Interned
  <2>2. a.id = n + 1
    <3>1. a.id \in 2..(n + 1) /\ a.paths[a.id] = node
      <4> HIDE DEF node, a
      <4> QED BY <1>4, <1>10, <2>1
    <3>2. \A j \in 1..n : a.paths[j] = l.paths[j] /\ l.paths[j] # node
      <4> HIDE DEF node, a
      <4> QED BY <1>2, <1>7, <1>10, <2>0, <2>1
    <3> HIDE DEF a, node
    <3>3. \A j \in 1..n : a.id # j
      BY <3>1, <3>2
    <3>4. n \in Nat
      BY <1>2
    <3> QED BY <3>1, <3>3, <3>4
  <2>3. StringsAt(t, u) = rs /\ u.paths = a.paths /\ u.strings = l.strings
    BY DEF StringsAt
  <2> DEFINE ms == MergeStrings(t.strings, l.strings).strings
             r == MergingPaths(t.paths, l.paths, rs)
             q == MergingPaths(t.paths, u.paths, rs)
             v == Merge(t, l)
  <2>4. v = r[n] /\ Merge(t, u) = q[n + 1]
    <3>1. Merge(t, u) = MergingPaths(t.paths, u.paths, StringsAt(t, u))[Len(u.paths)]
      BY DEF Merge, MergePaths
    <3> HIDE DEF u, a
    <3> QED BY <2>1, <2>3, <3>1 DEF Merge, MergePaths
  <2>5. q[n] = r[n]
    <3>1. \A k \in 0..n : MergingPaths(t.paths, u.paths, StringsAt(t, u))[k] = r[k]
      <4> HIDE DEF u
      <4> QED BY <1>4, <1>6, MergePrefix
    <3> HIDE DEF u, r, rs, n
    <3> QED BY <1>2, <2>3, <3>1
  <2>6. Ready(t, u, ms, rs)
    <3>1. MergeStrings(t.strings, u.strings).strings = ms
      BY <2>3
    <3> HIDE DEF u, ms, rs
    <3> QED BY <1>6, <2>3, <3>1, MergeReady
  <2>7. n + 1 \in 1..Len(u.paths) /\ n + 1 > BaseLen.paths /\ (n + 1) - 1 = n
    <3> HIDE DEF u, a, n
    <3> QED BY <1>2, <2>1, <2>3
  <2>8. q[n + 1] = MergeNode(q[n], u.paths[n + 1], rs) /\ q[n] \in Stage(n, t.paths, u.paths, ms, rs)
    <3> HIDE DEF u, ms, rs, q, n
    <3>1. \A k \in 0..Len(u.paths) :
            /\ q[k] \in Stage(k, t.paths, u.paths, ms, rs)
            /\ k <= BaseLen.paths => q[k] = [ paths |-> t.paths, full |-> FALSE,
                                             remap |-> [i \in 1..BaseLen.paths |-> i] ]
            /\ k > BaseLen.paths => q[k] = MergeNode(q[k - 1], u.paths[k], rs)
      <4> USE DEF q
      <4> QED BY <2>6, MergingPathsIs
    <3>2. n \in 0..Len(u.paths) /\ n + 1 \in 0..Len(u.paths)
      BY <1>2, <2>1, <2>3, <2>7
    <3> QED BY <2>7, <3>1, <3>2
  <2>9. u.paths[n + 1] = node /\ q[n] = v /\ v.remap = rp /\ ~v.full /\ v.paths = m.paths
    <3>1. v.remap = rp /\ ~v.full /\ v.paths = m.paths
      BY DEF PathsAt, MergeFull, Merged
    <3> HIDE DEF v, m, u, a, node, q, r
    <3> QED BY <2>1, <2>3, <2>4, <2>5, <3>1
  <2>10. Merge(t, u) = [paths |-> b.paths, full |-> b.id = 0, remap |-> Append(rp, b.id)]
    <3>1. Merge(t, u) = MergeNode(v, node, rs)
      <4> HIDE DEF u, v, q, node
      <4> QED BY <2>4, <2>8, <2>9
    <3>2. node.parent = p /\ node.component = c
      OBVIOUS
    <3> HIDE DEF v, m, node, rp, rs
    <3> QED BY <2>9, <3>1, <3>2 DEF MergeNode, Full
  <2>11. MergeFull(t, u) = (b.id = 0) /\ PathsAt(t, u) = Append(rp, b.id)
         /\ Merged(t, u) = [strings |-> m.strings, paths |-> b.paths]
    <3>1. m.strings = ms /\ Merged(t, u) = [strings |-> ms, paths |-> Merge(t, u).paths]
      BY <2>3 DEF Merged
    <3> HIDE DEF b, u, m, ms
    <3>2. Merge(t, u).full = (b.id = 0) /\ Merge(t, u).remap = Append(rp, b.id)
          /\ Merge(t, u).paths = b.paths
      <4> DEFINE e == Merge(t, u)
      <4> HIDE DEF e
      <4>1. e = [paths |-> b.paths, full |-> b.id = 0, remap |-> Append(rp, b.id)]
        BY <2>10 DEF e
      <4>2. e.full = (b.id = 0) /\ e.remap = Append(rp, b.id) /\ e.paths = b.paths
        BY <4>1, Zenon
      <4> QED BY <4>2 DEF e
    <3> QED BY <3>1, <3>2 DEF MergeFull, PathsAt
  <2>12. Append(rp, b.id)[n + 1] = b.id
    <3>0. rp \in Seq(Nat)
      <4> HIDE DEF rp, q, v, u, ms, rs
      <4> QED BY <2>8, <2>9 DEF Stage, NodeAccs
    <3>1. Len(rp) = n
      <4>1. DOMAIN rp = 1..Len(rp) /\ Len(rp) \in Nat /\ DOMAIN rp = 1..n
        BY <1>3, <3>0
      <4> HIDE DEF rp, n
      <4> QED BY <1>2, <4>1
    <3>2. rp \in Seq(Nat) /\ b.id \in Nat
      <4>1. rp \in Seq(Nat)
        BY <3>0
      <4>2. b.id \in 0..Len(b.paths)
        <5> DEFINE pp == rp[p]
                   cc == rs[c]
        <5>1. pp \in 1..Len(m.paths) /\ cc \in 1..Len(m.strings)
          BY <1>3
        <5> HIDE DEF m, pp, cc
        <5>2. LET y == InternChild(m.paths, [parent |-> pp, component |-> cc])
              IN y.id \in 0..Len(y.paths)
          BY <1>1, <5>1, InternChildIs
        <5> QED BY <5>2 DEF pp, cc
      <4> QED BY <4>1, <4>2
    <3> HIDE DEF rp, b, n
    <3> QED BY <3>1, <3>2
  <2> HIDE DEF a, b, m, node, new, u
  <2> QED BY <1>4, <1>6, <1>10, <2>2, <2>11, <2>12 DEF a, b, m, node, new, u, rp, rs
<1>11. CASE a.id = 0
  <2> HIDE DEF a, b, m, node, new, u
  <2> QED BY <1>4, <1>6, <1>8, <1>11 DEF a, b, m, node, new, u, rp, rs
<1> HIDE DEF a, b, m, node, new, u
<1> QED BY <1>9, <1>10, <1>11 DEF a, b, m, node, new, u, rp, rs

(* The fork's tables l can still be merged into t, and m is the result.    *)
InStep(t, l, m) == Forked(l) /\ ~MergeFull(t, l) /\ m = Merged(t, l)

WalkLock(t, v, x) ==
    \/ /\ InStep(t, v.tables, x.tables)
       /\ v.at \in 1..Len(v.tables.paths) /\ x.at = PathsAt(t, v.tables)[v.at] /\ x.at # 0
    \/ x.at = 0 /\ Forked(v.tables) /\ (v.at = 0 \/ MergeFull(t, v.tables))

(* One component of a path in the fork and in the merged tables.           *)
LEMMA DescendLock ==
    ASSUME Sound(base), NEW t, Forked(t), NEW l, Forked(l), NEW v \in Walks(l), NEW x,
           WalkLock(t, v, x), NEW w \in Words
    PROVE  WalkLock(t, Descend(v, w), Descend(x, w))
<1>0. Sound(v.tables) /\ Extends(l, v.tables) /\ v.at \in 0..Len(v.tables.paths)
      /\ v.tables \in Tables /\ l \in Tables /\ Sound(l) /\ Extends(base, l) /\ base \in Tables
  BY DEF Walks, Forked, Sound
<1>1. CASE x.at = 0
  <2> DEFINE d == Descend(v, w)
  <2>1. Descend(x, w) = x /\ Forked(v.tables) /\ (v.at = 0 \/ MergeFull(t, v.tables))
    BY <1>1 DEF Descend, Full, WalkLock
  <2>2. d \in Walks(l) /\ Extends(v.tables, d.tables) /\ (v.at = 0 => d = v)
    BY <1>0, DescendIs
  <2> HIDE DEF d
  <2>3. Sound(d.tables) /\ Extends(l, d.tables) /\ d.tables \in Tables
    BY <2>2 DEF Walks
  <2>4. Forked(d.tables)
    BY <1>0, <2>3, ExtendsTrans DEF Forked
  <2>5. d.at = 0 \/ MergeFull(t, d.tables)
    <3>1. CASE v.at = 0
      BY <2>2, <3>1
    <3>2. CASE MergeFull(t, v.tables)
      BY <2>1, <2>2, <2>4, <3>2, MergePrefix
    <3> QED BY <2>1, <3>1, <3>2
  <2> QED BY <1>1, <2>1, <2>4, <2>5 DEF WalkLock, d
<1>2. CASE x.at # 0
  <2> DEFINE L == v.tables
             s == Interned(L.strings, w)
             id == IdOf(s, w)
             u == [strings |-> s, paths |-> L.paths]
             m == Merged(t, L)
             z == Interned(m.strings, w)
             node == [parent |-> v.at, component |-> id]
             a == InternChild(L.paths, node)
             new == [parent |-> x.at, component |-> IdOf(z, w)]
             b == InternChild(m.paths, new)
             da == [strings |-> s, paths |-> a.paths]
             db == [strings |-> z, paths |-> b.paths]
  <2>1. /\ Forked(L) /\ ~MergeFull(t, L) /\ x.tables = m /\ v.at \in 1..Len(L.paths)
        /\ x.at = PathsAt(t, L)[v.at]
    BY <1>2 DEF WalkLock, InStep
  <2>2. v.at # 0
    BY <2>1
  <2>3. Descend(v, w) = [tables |-> da, at |-> a.id]
    BY <2>2 DEF Descend, Full
  <2>4. Descend(x, w) = [tables |-> db, at |-> b.id]
    BY <1>2, <2>1 DEF Descend, Full
  <2>5. /\ Forked(u) /\ Merged(t, u) = [strings |-> z, paths |-> m.paths]
        /\ MergeFull(t, u) = MergeFull(t, L) /\ PathsAt(t, u) = PathsAt(t, L)
        /\ StringsAt(t, u)[id] = IdOf(z, w)
    <3> HIDE DEF L
    <3> QED BY <2>1, LockString
  <2>6. id \in 1..Len(s)
    BY <1>0, InternStringIs
  <2>7. u.strings = s /\ u.paths = L.paths /\ Merged(t, u).paths = m.paths
        /\ Merged(t, u).strings = z
    BY <2>5
  <2>8. [parent |-> PathsAt(t, u)[v.at], component |-> StringsAt(t, u)[id]] = new
    BY <2>1, <2>5
  <2>9. /\ Forked(da)
        /\ a.id = 0 => b.id = 0
        /\ a.id # 0 /\ b.id = 0 => MergeFull(t, da)
        /\ a.id # 0 /\ b.id # 0 => /\ ~MergeFull(t, da) /\ Merged(t, da) = db
                                   /\ PathsAt(t, da)[a.id] = b.id
    <3> DEFINE f == Merged(t, u)
    <3>1. ~MergeFull(t, u) /\ v.at \in 1..Len(u.paths) /\ id \in 1..Len(u.strings)
      BY <2>1, <2>5, <2>6, <2>7
    <3>2. LET nod == [parent |-> v.at, component |-> id]
              aa == InternChild(u.paths, nod)
              uu == [strings |-> u.strings, paths |-> aa.paths]
              mm == Merged(t, u)
              nn == [parent |-> PathsAt(t, u)[v.at], component |-> StringsAt(t, u)[id]]
              bb == InternChild(mm.paths, nn)
          IN /\ Forked(uu) /\ Extends(u, uu)
             /\ aa.id = 0 => bb.id = 0
             /\ aa.id # 0 /\ bb.id = 0 => MergeFull(t, uu)
             /\ aa.id # 0 /\ bb.id # 0 => /\ ~MergeFull(t, uu)
                                          /\ Merged(t, uu) = [strings |-> mm.strings, paths |-> bb.paths]
                                          /\ PathsAt(t, uu)[aa.id] = bb.id
      <4> HIDE DEF u, id
      <4> QED BY <2>5, <3>1, LockChild
    <3> HIDE DEF u, new, z, s, id, L, m
    <3> QED BY <2>7, <2>8, <3>2
  <2>10. a.id \in 0..Len(a.paths) /\ Len(a.paths) \in Nat
    <3>1. Sound(u) /\ v.at \in 1..Len(u.paths) /\ id \in 1..Len(u.strings)
      BY <2>1, <2>5, <2>6, <2>7 DEF Forked
    <3>2. LET y == InternChild(u.paths, node)
          IN Sound([strings |-> u.strings, paths |-> y.paths]) /\ y.id \in 0..Len(y.paths)
      <4> HIDE DEF u, id
      <4> QED BY <3>1, InternChildIs
    <3>3. Sound(da) /\ da.paths = a.paths /\ a.id \in 0..Len(a.paths)
      <4> HIDE DEF id, L, s
      <4> QED BY <3>2
    <3> HIDE DEF da, a
    <3> QED BY <3>3, SoundParts, Capacity
  <2> DEFINE dv == Descend(v, w)
             dx == Descend(x, w)
  <2>11. dv.tables = da /\ dv.at = a.id /\ dx.tables = db /\ dx.at = b.id /\ da.paths = a.paths
    BY <2>3, <2>4
  <2> HIDE DEF da, db, a, b, dv, dx
  <2>12. WalkLock(t, dv, dx)
    <3>1. CASE b.id = 0
      BY <2>9, <2>11, <3>1 DEF WalkLock
    <3>2. CASE b.id # 0
      <4>1. a.id # 0 /\ a.id \in 1..Len(da.paths)
        BY <2>9, <2>10, <2>11, <3>2
      <4> QED BY <2>9, <2>11, <3>2, <4>1 DEF WalkLock, InStep
    <3> QED BY <3>1, <3>2
  <2> QED BY <2>12 DEF dv, dx
<1> QED BY <1>1, <1>2

(* A whole path in the fork and in the merged tables.                      *)
LEMMA InternPathLock ==
    ASSUME Sound(base), NEW t, Forked(t), NEW l, Forked(l), ~MergeFull(t, l),
           NEW text \in Seq(Words)
    PROVE  WalkLock(t, InternPath(l, text), InternPath(Merged(t, l), text))
<1> DEFINE m == Merged(t, l)
           n == Len(text)
           r == Walk(l, text)
           q == Walk(m, text)
           S == {k \in 0..n : WalkLock(t, r[k], q[k])}
<1>0. n \in Nat /\ \A k \in 1..n : text[k] \in Words
  OBVIOUS
<1>1. Sound(l) /\ Sound(m) /\ Embeds(l, m, StringsAt(t, l), PathsAt(t, l))
  BY MergeIs DEF Forked
<1>2. /\ r \in [0..n -> Walks(l)] /\ r[0] = [tables |-> l, at |-> 1]
      /\ \A k \in 1..n : r[k] = Descend(r[k - 1], text[k])
  BY <1>1, WalkIs
<1>3. /\ q[0] = [tables |-> m, at |-> 1]
      /\ \A k \in 1..n : q[k] = Descend(q[k - 1], text[k])
  <2> HIDE DEF m
  <2> QED BY <1>1, WalkIs
<1>4. WalkLock(t, r[0], q[0])
  <2>1. r[0].tables = l /\ r[0].at = 1 /\ q[0].tables = m /\ q[0].at = 1
    BY <1>2, <1>3
  <2>2. PathsAt(t, l)[1] = 1 /\ 1 \in 1..Len(l.paths)
    BY <1>1, SoundParts, Capacity DEF Embeds
  <2> HIDE DEF r, q
  <2> QED BY <2>1, <2>2 DEF WalkLock, InStep
<1> HIDE DEF n, r, q, m
<1>5. 0 \in S
  BY <1>0, <1>4
<1>6. ASSUME NEW k \in 1..n, k - 1 \in S PROVE k \in S
  <2>1. WalkLock(t, r[k - 1], q[k - 1]) /\ r[k - 1] \in Walks(l) /\ text[k] \in Words
    BY <1>0, <1>2, <1>6
  <2>2. WalkLock(t, Descend(r[k - 1], text[k]), Descend(q[k - 1], text[k]))
    BY <2>1, DescendLock
  <2>3. r[k] = Descend(r[k - 1], text[k]) /\ q[k] = Descend(q[k - 1], text[k])
    BY <1>2, <1>3
  <2>4. WalkLock(t, r[k], q[k])
    BY <2>2, <2>3, Zenon
  <2>5. k \in 0..n
    BY <1>0
  <2> QED BY <2>4, <2>5
<1> HIDE DEF S
<1>7. \A k \in 0..n : k \in S
  BY <1>0, <1>5, <1>6, Induct
<1>8. n \in S
  BY <1>0, <1>7
<1> QED BY <1>8 DEF S, InternPath, r, q, n, m

AccLock(t, v, x) ==
    \/ InStep(t, v.tables, x.tables) /\ ~v.full /\ ~x.full
    \/ x.full /\ Forked(v.tables) /\ (v.full \/ MergeFull(t, v.tables))

(* One write in the fork and in the merged tables.                         *)
LEMMA WriteOneLock ==
    ASSUME Sound(base), NEW t, Forked(t), NEW l, Forked(l), NEW v \in Accs(l),
           NEW x, AccLock(t, v, x), NEW w \in AWrite
    PROVE  AccLock(t, WriteOne(v, w), WriteOne(x, w))
<1>0. Sound(v.tables) /\ Extends(l, v.tables) /\ v.full \in BOOLEAN
      /\ v.tables \in Tables /\ l \in Tables /\ Sound(l) /\ Extends(base, l) /\ base \in Tables
      /\ w.path \in BOOLEAN /\ w.text \in Seq(Words)
  BY DEF Accs, Forked, Sound, AWrite, Write
<1> DEFINE d == WriteOne(v, w)
           e == WriteOne(x, w)
<1>1. CASE x.full
  <2>1. e = x /\ Forked(v.tables) /\ (v.full \/ MergeFull(t, v.tables))
    BY <1>1 DEF WriteOne, AccLock
  <2>2. d \in Accs(l) /\ Extends(v.tables, d.tables) /\ (v.full => d = v)
    BY <1>0, WriteOneIs
  <2> HIDE DEF d, e
  <2>3. Sound(d.tables) /\ Extends(l, d.tables) /\ d.tables \in Tables
    BY <2>2 DEF Accs
  <2>4. Forked(d.tables)
    BY <1>0, <2>3, ExtendsTrans DEF Forked
  <2>5. d.full \/ MergeFull(t, d.tables)
    <3>1. CASE v.full
      BY <2>2, <3>1
    <3>2. CASE MergeFull(t, v.tables)
      BY <2>1, <2>2, <2>4, <3>2, MergePrefix
    <3> QED BY <2>1, <3>1, <3>2
  <2> QED BY <1>1, <2>1, <2>4, <2>5 DEF AccLock, d, e
<1>2. CASE ~x.full /\ w.path
  <2> DEFINE a == InternPath(v.tables, w.text)
             b == InternPath(x.tables, w.text)
  <2>1. ~v.full /\ Forked(v.tables) /\ ~MergeFull(t, v.tables) /\ x.tables = Merged(t, v.tables)
    BY <1>2 DEF AccLock, InStep
  <2>2. WalkLock(t, a, b)
    BY <1>0, <2>1, InternPathLock
  <2>3. d.tables = a.tables /\ d.full = (a.at = 0)
    <3> DEFINE ids == IF a.at = 0 THEN v.ids ELSE Append(v.ids, a.at)
    <3>1. d = [tables |-> a.tables, full |-> a.at = 0, ids |-> ids]
      BY <1>2, <2>1 DEF WriteOne, Full
    <3> HIDE DEF d, a, ids
    <3> QED BY <3>1, Zenon
  <2>4. e.tables = b.tables /\ e.full = (b.at = 0)
    <3> DEFINE ids == IF b.at = 0 THEN x.ids ELSE Append(x.ids, b.at)
    <3>1. e = [tables |-> b.tables, full |-> b.at = 0, ids |-> ids]
      BY <1>2 DEF WriteOne, Full
    <3> HIDE DEF e, b, ids
    <3> QED BY <3>1, Zenon
  <2> HIDE DEF d, e, a, b
  <2>5. CASE b.at = 0
    <3>1. Forked(a.tables) /\ (a.at = 0 \/ MergeFull(t, a.tables))
      BY <2>2, <2>5 DEF WalkLock
    <3> QED BY <2>3, <2>4, <2>5, <3>1 DEF AccLock, d, e
  <2>6. CASE b.at # 0
    <3>1. InStep(t, a.tables, b.tables) /\ a.at # 0
      BY <2>2, <2>6 DEF WalkLock
    <3> QED BY <2>3, <2>4, <2>6, <3>1 DEF AccLock, d, e
  <2> QED BY <2>5, <2>6
<1>3. CASE ~x.full /\ ~w.path
  <2> DEFINE y == w.text[1]
             L == v.tables
             m == Merged(t, L)
             s == Interned(L.strings, y)
             z == Interned(m.strings, y)
             u == [strings |-> s, paths |-> L.paths]
  <2>1. ~v.full /\ Forked(L) /\ ~MergeFull(t, L) /\ x.tables = m
    BY <1>3 DEF AccLock, InStep
  <2>2. y \in Words
    <3>1. Len(w.text) = 1
      BY <1>3 DEF AWrite
    <3> QED BY <1>0, <3>1
  <2>3. d.tables = u /\ ~d.full
    BY <1>3, <2>1 DEF WriteOne
  <2>4. e.tables = [strings |-> z, paths |-> m.paths] /\ ~e.full
    BY <1>3, <2>1 DEF WriteOne
  <2>5. /\ Forked(u) /\ Merged(t, u) = [strings |-> z, paths |-> m.paths]
        /\ MergeFull(t, u) = MergeFull(t, L) /\ PathsAt(t, u) = PathsAt(t, L)
        /\ StringsAt(t, u)[IdOf(s, y)] = IdOf(z, y)
    <3> HIDE DEF L, y
    <3> QED BY <2>1, <2>2, LockString
  <2> HIDE DEF d, e, u, z, m
  <2> QED BY <2>1, <2>3, <2>4, <2>5 DEF AccLock, InStep, d, e
<1> QED BY <1>0, <1>1, <1>2, <1>3 DEF AccLock

(* A file written in a fork and the same file written in what the fork     *)
(* merges to: the same tables, unless one of the two does not fit.         *)
LEMMA WriteAllLock ==
    ASSUME Sound(base), NEW t, Forked(t), NEW l, Forked(l), ~MergeFull(t, l),
           NEW writes \in Writes
    PROVE  AccLock(t, WriteAll(l, writes), WriteAll(Merged(t, l), writes))
<1> DEFINE m == Merged(t, l)
           n == Len(writes)
           r == Writing(l, writes)
           q == Writing(m, writes)
           S == {k \in 0..n : AccLock(t, r[k], q[k])}
<1>0. n \in Nat
  BY DEF Writes
<1>1. Sound(l) /\ Sound(m)
  BY MergeIs DEF Forked
<1>2. /\ r \in [0..n -> Accs(l)] /\ r[0] = [tables |-> l, full |-> FALSE, ids |-> <<>>]
      /\ \A k \in 1..n : writes[k] \in AWrite /\ r[k] = WriteOne(r[k - 1], writes[k])
  BY <1>1, WritingIs
<1>3. /\ q[0] = [tables |-> m, full |-> FALSE, ids |-> <<>>]
      /\ \A k \in 1..n : q[k] = WriteOne(q[k - 1], writes[k])
  <2> HIDE DEF m
  <2> QED BY <1>1, WritingIs
<1>4. AccLock(t, r[0], q[0])
  <2>1. r[0].tables = l /\ ~r[0].full /\ q[0].tables = m /\ ~q[0].full
    BY <1>2, <1>3
  <2> HIDE DEF r, q
  <2> QED BY <2>1 DEF AccLock, InStep
<1> HIDE DEF n, r, q, m
<1>5. 0 \in S
  BY <1>0, <1>4
<1>6. ASSUME NEW k \in 1..n, k - 1 \in S PROVE k \in S
  <2>1. AccLock(t, r[k - 1], q[k - 1]) /\ r[k - 1] \in Accs(l) /\ writes[k] \in AWrite
    BY <1>0, <1>2, <1>6
  <2>2. AccLock(t, WriteOne(r[k - 1], writes[k]), WriteOne(q[k - 1], writes[k]))
    BY <2>1, WriteOneLock
  <2> QED BY <1>0, <1>2, <1>3, <2>2
<1> HIDE DEF S
<1>7. \A k \in 0..n : k \in S
  BY <1>0, <1>5, <1>6, Induct
<1>8. n \in S
  BY <1>0, <1>7
<1> QED BY <1>8 DEF S, WriteAll, r, q, n, m

-----------------------------------------------------------------------------
(***************************************************************************)
(* The plan: consecutive ranges that cover the files.                      *)
(***************************************************************************)
NumChunks == Cardinality(Chunks)

(* The last file of the first c chunks.                                    *)
LastFile(c) == IF c = 0 THEN 0 ELSE Plan[c].last

IsPlan(plan, n, files) ==
    /\ n \in Nat /\ DOMAIN plan = 1..n
    /\ \A c \in 1..n : /\ plan[c].last \in Nat /\ plan[c].first \in Nat
                       /\ plan[c].last + 1 >= plan[c].first
    /\ n > 0 => plan[1].first = 1 /\ plan[n].last = files
    /\ n = 0 => files = 0
    /\ \A c \in 2..n : plan[c].first = plan[c - 1].last + 1

(* Arithmetic of the plan: one size more.                                  *)
LEMMA TimesLess ==
    ASSUME NEW c \in Nat, c >= 1, NEW s \in Nat
    PROVE  c * s = (c - 1) * s + s /\ c * s \in Nat /\ (c - 1) * s \in Nat
OBVIOUS

(* Arithmetic of the plan: quotient and remainder.                         *)
LEMMA DivMod ==
    ASSUME NEW a \in Nat, NEW b \in Nat, b > 0
    PROVE  /\ a = b * (a \div b) + (a % b)
           /\ a \div b \in Nat /\ a % b \in Nat /\ a % b < b
OBVIOUS

(* plan_file_preparation_chunks: consecutive ranges, covering the files.   *)
LEMMA ChunkPlanIs ==
    ASSUME module \in Modules, threads \in ThreadCounts
    PROVE  \E n : IsPlan(ChunkPlan, n, NumFiles)
<1> DEFINE n == ChunkCount
           size == NumFiles \div n
           larger == NumFiles % n
<1>1. NumFiles \in Nat
  BY FilesOf DEF NumFiles
<1>2. n \in Nat /\ n > 0
  <2>1. /\ threads \in Nat /\ TasksPerThread \in Nat /\ MinChunkSize \in Nat /\ MinChunkSize > 0
    BY FilePreparationAssumption DEF FilePreparationAssumption
  <2>2. AtLeast(threads, 1) \in Nat
    BY <2>1 DEF AtLeast
  <2>3. AtLeast(threads, 1) * TasksPerThread \in Nat
    BY <2>1, <2>2
  <2>4. NumFiles \div MinChunkSize \in Nat
    BY <1>1, <2>1, DivMod
  <2> QED BY <1>1, <2>3, <2>4 DEF ChunkCount, AtLeast, AtMost
<1> HIDE DEF n
<1>3. NumFiles = n * size + larger /\ size \in Nat /\ larger \in Nat /\ larger < n
  BY <1>1, <1>2, DivMod
<1>4. ChunkPlan = [ c \in 1..n |-> [ first |-> (c - 1) * size + AtMost(c - 1, larger) + 1,
                                     last |-> c * size + AtMost(c, larger) ] ]
  BY DEF ChunkPlan, n
<1> HIDE DEF size, larger
<1>5. \A c \in 1..n : /\ ChunkPlan[c].first = (c - 1) * size + AtMost(c - 1, larger) + 1
                      /\ ChunkPlan[c].last = c * size + AtMost(c, larger)
  BY <1>4
<1>6. DOMAIN ChunkPlan = 1..n
  BY <1>4
<1>7. ASSUME NEW c \in 1..n
      PROVE  /\ ChunkPlan[c].last \in Nat /\ ChunkPlan[c].first \in Nat
             /\ ChunkPlan[c].last + 1 >= ChunkPlan[c].first
  <2>1. c \in Nat /\ c >= 1
    BY <1>2
  <2>2. c * size = (c - 1) * size + size /\ c * size \in Nat /\ (c - 1) * size \in Nat
    BY <1>3, <2>1, TimesLess
  <2>3. AtMost(c, larger) \in Nat /\ AtMost(c - 1, larger) \in Nat
        /\ AtMost(c, larger) >= AtMost(c - 1, larger)
    BY <1>3, <2>1 DEF AtMost
  <2> DEFINE x == c * size
             y == (c - 1) * size
  <2>4. x = y + size /\ x \in Nat /\ y \in Nat
        /\ ChunkPlan[c].first = y + AtMost(c - 1, larger) + 1
        /\ ChunkPlan[c].last = x + AtMost(c, larger)
    BY <1>5, <2>2
  <2> HIDE DEF x, y
  <2> QED BY <1>3, <2>3, <2>4
<1>8. ChunkPlan[1].first = 1 /\ ChunkPlan[n].last = NumFiles
  <2>1. 1 \in 1..n /\ n \in 1..n
    BY <1>2
  <2>2. (1 - 1) * size = 0 /\ AtMost(1 - 1, larger) = 0
    BY <1>3 DEF AtMost
  <2>3. AtMost(n, larger) = larger
    BY <1>2, <1>3 DEF AtMost
  <2> QED BY <1>3, <1>5, <2>1, <2>2, <2>3
<1>9. ASSUME NEW c \in 2..n PROVE ChunkPlan[c].first = ChunkPlan[c - 1].last + 1
  <2>1. c \in 1..n /\ c - 1 \in 1..n
    BY <1>2
  <2> QED BY <1>5, <2>1
<1> QED BY <1>2, <1>6, <1>7, <1>8, <1>9 DEF IsPlan

(* So does every strategy's plan.                                          *)
LEMMA PlanExists ==
    ASSUME module \in Modules, threads \in ThreadCounts
    PROVE  \E n : IsPlan(Plan, n, NumFiles)
<1>1. NumFiles \in Nat
  BY FilesOf DEF NumFiles
<1>2. Strategy \in {"serial", "per file", "chunked"}
  <2>1. AlwaysSerialCount \in Nat /\ AlwaysParallelCount \in Nat
    BY FilePreparationAssumption DEF FilePreparationAssumption
  <2> QED BY <1>1, <2>1 DEF Strategy
<1>3. CASE Strategy = "serial"
  <2>1. Plan = <<[first |-> 1, last |-> NumFiles]>>
    BY <1>3 DEF Plan
  <2>2. DOMAIN Plan = 1..1 /\ Plan[1].first = 1 /\ Plan[1].last = NumFiles
    BY <2>1
  <2>3. IsPlan(Plan, 1, NumFiles)
    BY <1>1, <2>2 DEF IsPlan
  <2> QED BY <2>3
<1>4. CASE Strategy = "per file"
  <2>1. Plan = [i \in 1..NumFiles |-> [first |-> i, last |-> i]]
    BY <1>4 DEF Plan
  <2>2. DOMAIN Plan = 1..NumFiles /\ \A i \in 1..NumFiles : Plan[i].first = i /\ Plan[i].last = i
    BY <2>1
  <2>3. IsPlan(Plan, NumFiles, NumFiles)
    BY <1>1, <2>2 DEF IsPlan
  <2> QED BY <2>3
<1>5. CASE Strategy = "chunked" /\ NumFiles = 0
  <2>1. Plan = <<>>
    BY <1>5 DEF Plan
  <2>2. DOMAIN Plan = 1..0
    BY <2>1
  <2>3. IsPlan(Plan, 0, NumFiles)
    BY <1>5, <2>2 DEF IsPlan
  <2> QED BY <2>3
<1>6. CASE Strategy = "chunked" /\ NumFiles # 0
  <2>1. Plan = ChunkPlan
    BY <1>1, <1>6 DEF Plan
  <2> QED BY <2>1, ChunkPlanIs
<1> QED BY <1>2, <1>3, <1>4, <1>5, <1>6

(* The plan, as the last file of each chunk.                               *)
LEMMA PlanIs ==
    ASSUME module \in Modules, threads \in ThreadCounts
    PROVE  /\ NumFiles \in Nat /\ NumChunks \in Nat /\ Chunks = 1..NumChunks
           /\ IsFiniteSet(Chunks)
           /\ LastFile(0) = 0 /\ LastFile(NumChunks) = NumFiles
           /\ \A c \in 0..NumChunks : LastFile(c) \in 0..NumFiles
           /\ \A c \in 1..NumChunks : /\ Plan[c].first = LastFile(c - 1) + 1
                                      /\ Plan[c].last = LastFile(c)
                                      /\ LastFile(c - 1) <= LastFile(c)
<1>1. PICK n : IsPlan(Plan, n, NumFiles)
  BY PlanExists
<1>2. NumFiles \in Nat
  BY FilesOf DEF NumFiles
<1>3. n \in Nat /\ Chunks = 1..n
  BY <1>1 DEF IsPlan, Chunks
<1>4. NumChunks = n /\ IsFiniteSet(Chunks)
  <2>1. IsFiniteSet(1..n) /\ Cardinality(1..n) = IF 1 > n THEN 0 ELSE n - 1 + 1
    BY <1>3, FS_Interval
  <2> QED BY <1>3, <2>1 DEF NumChunks
<1>5. \A c \in 0..n : LastFile(c) \in Nat
  BY <1>1, <1>3 DEF LastFile, IsPlan
<1>6. ASSUME NEW c \in 1..n
      PROVE  /\ Plan[c].first = LastFile(c - 1) + 1 /\ Plan[c].last = LastFile(c)
             /\ LastFile(c - 1) <= LastFile(c)
  <2>1. CASE c = 1
    BY <1>1, <1>3, <2>1 DEF LastFile, IsPlan
  <2>2. CASE c # 1
    <3>1. c \in 2..n /\ c - 1 # 0
      BY <1>3, <2>2
    <3> QED BY <1>1, <1>3, <3>1 DEF LastFile, IsPlan
  <2> QED BY <2>1, <2>2
<1>7. LastFile(n) = NumFiles /\ LastFile(0) = 0
  BY <1>1, <1>3 DEF LastFile, IsPlan
<1>8. \A c \in 0..n : LastFile(c) <= NumFiles
  <2> DEFINE S == {j \in 0..n : LastFile(n - j) <= NumFiles}
  <2>1. 0 \in S
    BY <1>3, <1>7, <1>2
  <2>2. ASSUME NEW j \in 1..n, j - 1 \in S PROVE j \in S
    <3>1. n - (j - 1) \in 1..n /\ (n - (j - 1)) - 1 = n - j /\ n - j \in 0..n
          /\ n - (j - 1) \in 0..n
      BY <1>3
    <3>2. LastFile(n - (j - 1)) <= NumFiles
      BY <2>2
    <3>3. LastFile(n - j) <= LastFile(n - (j - 1))
      BY <1>6, <3>1
    <3> QED BY <1>2, <1>3, <1>5, <3>1, <3>2, <3>3
  <2> HIDE DEF S
  <2>3. \A j \in 0..n : j \in S
    BY <1>3, <2>1, <2>2, Induct
  <2>4. ASSUME NEW c \in 0..n PROVE LastFile(c) <= NumFiles
    <3>1. n - c \in 0..n /\ n - (n - c) = c
      BY <1>3
    <3> QED BY <2>3, <3>1 DEF S
  <2> QED BY <2>4
<1> QED BY <1>2, <1>3, <1>4, <1>5, <1>6, <1>7, <1>8

-----------------------------------------------------------------------------
(***************************************************************************)
(* The inductive invariant.                                                *)
(***************************************************************************)
Ends == {"ok", "diagnosed", "infrastructure"}
Failures == {"diagnosed", "infrastructure"}
Results == [file : Nat, domain : {"global", "local"}, ends : Ends, ids : Seq(Nat)]

(* What a worker with tables t has to show for one file: ids that stand    *)
(* for its writes, for a retained file in the base tables already.         *)
ResultIs(t, r) ==
    /\ r \in Results /\ r.file \in 1..NumFiles
    /\ module.files[r.file].retained =>
         r.domain = "global" /\ Resolves(base, module.files[r.file].writes, r.ids)
    /\ ~module.files[r.file].retained =>
         r.domain = "local" /\ Resolves(t, module.files[r.file].writes, r.ids)
    /\ r.ends = "ok" => Len(r.ids) = Len(module.files[r.file].writes)

(* The worker of chunk c has gone through its files in order.              *)
ForkIs(w, c) ==
    /\ w.at \in Nat /\ Plan[c].first <= w.at /\ w.at <= Plan[c].last + 1
    /\ Forked(w.tables) /\ w.results \in Seq(Results)
    /\ Len(w.results) = w.at - Plan[c].first
    /\ \A k \in 1..Len(w.results) :
         ResultIs(w.tables, w.results[k]) /\ w.results[k].file = LastFile(c - 1) + k

AsWritten(w) ==
    \A k \in 1..Len(w.results) : w.results[k].ends = module.files[w.results[k].file].ends

HasFailed(w) == \E k \in 1..Len(w.results) : w.results[k].ends \in Failures

(* The worker and the sequential run, from the start of the chunk: either  *)
(* merging the worker's tables would give the sequential ones, or the      *)
(* sequential run is full and so was the worker, or its merge will be.     *)
ForkLock(w, c) ==
    ~Sequentially[LastFile(c - 1)].full =>
      \/ /\ InStep(Sequentially[LastFile(c - 1)].tables, w.tables, Sequentially[w.at - 1].tables)
         /\ ~Sequentially[w.at - 1].full /\ AsWritten(w)
      \/ /\ Sequentially[w.at - 1].full
         /\ HasFailed(w) \/ MergeFull(Sequentially[LastFile(c - 1)].tables, w.tables)

Setup == module \in Modules /\ threads \in ThreadCounts /\ base = BaseTables(module)

Forks == DOMAIN work = Chunks /\ \A c \in Chunks : ForkIs(work[c], c) /\ ForkLock(work[c], c)

Arrivals ==
    /\ arrived \in Seq(Chunks) /\ Distinct(arrived)
    /\ \A i \in 1..Len(arrived) : work[arrived[i]].at > Plan[arrived[i]].last
    /\ phase # "preparing" => Len(arrived) = NumChunks

Errors == [file : Nat, ids : Seq(Nat)]

(* Outputs and diagnostics stand for what their files wrote.               *)
Kept(t, out, errs) ==
    /\ out \in [1..NumFiles -> Seq(Seq(Nat))]
    /\ \A i \in 1..NumFiles : out[i] # <<>> =>
         /\ Len(out[i]) = 1 /\ Len(out[i][1]) = Len(module.files[i].writes)
         /\ Resolves(t, module.files[i].writes, out[i][1])
    /\ errs \in Seq(Errors)
    /\ \A k \in 1..Len(errs) : \/ errs[k].ids = <<>>
                               \/ Resolves(t, module.files[errs[k].file].writes, errs[k].ids)

ChunkOf(i) == CHOOSE c \in Chunks : LastFile(c - 1) < i /\ i <= LastFile(c)

(* What was handed over for file i.                                        *)
HandedOver(i) == work[ChunkOf(i)].results[i - LastFile(ChunkOf(i) - 1)]

Reported(errs) == {errs[k].file : k \in 1..Len(errs)}

RisingFiles(errs) == \A i, j \in 1..Len(errs) : i < j => errs[i].file < errs[j].file

(* The first n files have been collected.                                  *)
CollectedTo(n, out, warn, errs) ==
    /\ \A i \in 1..n : HandedOver(i).ends # "infrastructure"
    /\ warn \in Seq(Nat) /\ Ascending(warn) /\ Range(warn) = {i \in 1..n : module.files[i].warns}
    /\ RisingFiles(errs)
    /\ Reported(errs) = {i \in 1..n : HandedOver(i).ends = "diagnosed"}
    /\ \A i \in 1..NumFiles : out[i] # <<>> <=> i <= n /\ HandedOver(i).ends = "ok"

(* The merged tables and the sequential run after n files.                 *)
Tracks(n, t) ==
    /\ ~Sequentially[n].full =>
         /\ t = Sequentially[n].tables
         /\ \A i \in 1..n : HandedOver(i).ends = module.files[i].ends
    /\ Sequentially[n].full => \E i \in 1..n : HandedOver(i).ends \in Failures

Merging ==
    /\ merged \in 0..Len(arrived) /\ Forked(tables) /\ Kept(tables, slots, errors)
    /\ phase \in {"preparing", "merging", "accepted", "diagnosed", "infrastructure"}
    /\ Range(warnings) \subseteq 1..NumFiles
    /\ phase = "preparing" =>
         /\ merged = 0 /\ tables = base /\ warnings = <<>> /\ errors = <<>>
         /\ \A i \in 1..NumFiles : slots[i] = <<>>
    /\ phase = "merging" => /\ CollectedTo(LastFile(merged), slots, warnings, errors)
                            /\ Tracks(LastFile(merged), tables)

IInv ==
    Setup /\ Forks /\ Arrivals /\ Merging /\ MergeIsSequential /\ AcceptanceIsPlanIndependent

-----------------------------------------------------------------------------
(***************************************************************************)
(* The workers.                                                            *)
(***************************************************************************)
LEMMA SetupIs ==
    ASSUME Setup
    PROVE  /\ Sound(base) /\ Forked(base) /\ NumFiles \in Nat
           /\ \A i \in 1..NumFiles : module.files[i] \in AFile
<1>1. Sound(base)
  BY RetainedIs DEF Setup
<1>2. Extends(base, base)
  BY <1>1, ExtendsSelf DEF Sound
<1> QED BY <1>1, <1>2, FilesOf DEF Setup, Forked, NumFiles

(* A result keeps its meaning when its worker's tables grow.               *)
LEMMA ResultExtends ==
    ASSUME NEW t, NEW u, Sound(t), Sound(u), Extends(t, u), NEW r, ResultIs(t, r)
    PROVE  ResultIs(u, r)
<1> DEFINE ws == module.files[r.file].writes
<1>1. Resolves(t, ws, r.ids) => Resolves(u, ws, r.ids)
  BY ResolvesExtends
<1> QED BY <1>1 DEF ResultIs

(* prepare_module_file: what it leaves of the worker's tables, and the     *)
(* file's result.                                                          *)
LEMMA PreparedIs ==
    ASSUME Setup, NEW t, Forked(t), NEW i \in 1..NumFiles
    PROVE  LET p == Prepared(t, i)
               f == module.files[i]
               w == WriteAll(t, f.writes)
           IN /\ Forked(p.tables) /\ Extends(t, p.tables)
              /\ ResultIs(p.tables, p.result) /\ p.result.file = i
              /\ f.retained => p.tables = t /\ p.result.ends = f.ends
              /\ ~f.retained => /\ p.tables = w.tables
                                /\ w.full => p.result.ends \in Failures
                                /\ ~w.full => p.result.ends = f.ends
<1> DEFINE p == Prepared(t, i)
           f == module.files[i]
           w == WriteAll(t, f.writes)
<1>0. /\ Sound(base) /\ f \in AFile /\ NumFiles \in Nat /\ Sound(t) /\ Extends(base, t)
      /\ t \in Tables /\ base \in Tables
  BY SetupIs DEF Forked, Sound
<1>1. /\ f.writes \in Writes /\ f.ends \in Ends /\ f.retained \in BOOLEAN
      /\ (f.retained => f.ends = "ok")
  BY <1>0 DEF AFile, File, Ends
<1>2. CASE f.retained
  <2> DEFINE ids == WriteAll(Discovery(module)[i - 1].tables, f.writes).ids
             r == [file |-> i, domain |-> "global", ends |-> "ok", ids |-> ids]
  <2>1. p = [tables |-> t, result |-> r]
    BY <1>2 DEF Prepared
  <2>2. ids \in Seq(Nat) /\ Len(ids) = Len(f.writes) /\ Resolves(base, f.writes, ids)
    <3>1. i \in 1..Len(module.files) /\ module \in Modules /\ base = BaseTables(module)
      BY DEF NumFiles, Setup
    <3> QED BY <1>2, <3>1, RetainedIs
  <2> HIDE DEF ids
  <2>3. /\ r \in Results /\ r.file = i /\ r.domain = "global" /\ r.ends = "ok" /\ r.ids = ids
    BY <1>0, <2>2 DEF Results, Ends
  <2>4. p.tables = t /\ p.result = r
    BY <2>1
  <2> HIDE DEF r, p
  <2>5. ResultIs(t, r)
    BY <1>1, <1>2, <2>2, <2>3 DEF ResultIs
  <2>6. Extends(t, t)
    BY <1>0, ExtendsSelf
  <2> QED BY <1>1, <1>2, <2>3, <2>4, <2>5, <2>6 DEF p
<1>3. CASE ~f.retained
  <2> DEFINE e == EndOf(f, w)
             r == [file |-> i, domain |-> "local", ends |-> e, ids |-> w.ids]
  <2>1. p = [tables |-> w.tables, result |-> r]
    BY <1>3 DEF Prepared
  <2>2. w \in Accs(t) /\ Resolves(w.tables, f.writes, w.ids)
        /\ (~w.full => Len(w.ids) = Len(f.writes))
    BY <1>0, <1>1, WriteAllIs
  <2> HIDE DEF w
  <2>3. /\ w.tables \in Tables /\ Sound(w.tables) /\ Extends(t, w.tables)
        /\ w.full \in BOOLEAN /\ w.ids \in Seq(Nat)
    BY <2>2 DEF Accs
  <2>4. Forked(w.tables)
    BY <1>0, <2>3, ExtendsTrans DEF Forked
  <2>5. e \in Ends /\ (w.full => e \in Failures) /\ (~w.full => e = f.ends)
    BY <1>1, <2>3 DEF Ends, Failures, EndOf
  <2> HIDE DEF e
  <2>6. r \in Results /\ r.file = i /\ r.domain = "local" /\ r.ends = e /\ r.ids = w.ids
    BY <1>0, <2>3, <2>5 DEF Results
  <2>7. p.tables = w.tables /\ p.result = r
    BY <2>1
  <2> HIDE DEF r, p
  <2>8. ResultIs(w.tables, r)
    BY <1>3, <2>2, <2>3, <2>5, <2>6 DEF ResultIs, Failures
  <2> QED BY <1>3, <2>3, <2>4, <2>5, <2>6, <2>7, <2>8 DEF p, w
<1> QED BY <1>1, <1>2, <1>3

(* The next file of a chunk.                                               *)
LEMMA ForkStep ==
    ASSUME Setup, NEW c \in Chunks, NEW w, ForkIs(w, c), ForkLock(w, c), w.at <= Plan[c].last
    PROVE  LET p == Prepared(w.tables, w.at)
               d == [tables |-> p.tables, at |-> w.at + 1, results |-> Append(w.results, p.result)]
           IN ForkIs(d, c) /\ ForkLock(d, c)
<1> DEFINE p == Prepared(w.tables, w.at)
           d == [tables |-> p.tables, at |-> w.at + 1, results |-> Append(w.results, p.result)]
           lo == LastFile(c - 1)
           n == Len(w.results)
           i == w.at
           f == module.files[i]
           a == WriteAll(w.tables, f.writes)
<1>1. /\ Sound(base) /\ NumFiles \in Nat /\ \A j \in 1..NumFiles : module.files[j] \in AFile
      /\ module \in Modules /\ threads \in ThreadCounts
  BY SetupIs DEF Setup
<1>2. /\ c \in 1..NumChunks /\ NumChunks \in Nat /\ lo \in 0..NumFiles
      /\ LastFile(c) \in 0..NumFiles /\ Plan[c].first = lo + 1 /\ Plan[c].last = LastFile(c)
  <2>1. c \in 1..NumChunks /\ NumChunks \in Nat
    BY <1>1, PlanIs
  <2>2. c - 1 \in 0..NumChunks /\ c \in 0..NumChunks
    BY <2>1
  <2> QED BY <1>1, <2>1, <2>2, PlanIs
<1>3. /\ w.at \in Nat /\ lo + 1 <= w.at /\ Forked(w.tables) /\ w.results \in Seq(Results)
      /\ n = w.at - (lo + 1) /\ n \in Nat
      /\ \A k \in 1..n : ResultIs(w.tables, w.results[k]) /\ w.results[k].file = lo + k
  BY <1>2 DEF ForkIs
<1>4. i \in 1..NumFiles /\ i = lo + n + 1 /\ i <= LastFile(c)
  <2>1. w.at <= LastFile(c)
    BY <1>2
  <2>2. lo \in Nat /\ LastFile(c) \in Nat /\ LastFile(c) <= NumFiles
    BY <1>1, <1>2
  <2>3. w.at \in Nat /\ lo + 1 <= w.at /\ n = w.at - (lo + 1) /\ n \in Nat /\ NumFiles \in Nat
    BY <1>1, <1>3
  <2> HIDE DEF lo, n
  <2> QED BY <2>1, <2>2, <2>3
<1>5. /\ Forked(p.tables) /\ Extends(w.tables, p.tables)
      /\ ResultIs(p.tables, p.result) /\ p.result.file = i
      /\ f.retained => p.tables = w.tables /\ p.result.ends = f.ends
      /\ ~f.retained => /\ p.tables = a.tables
                        /\ a.full => p.result.ends \in Failures
                        /\ ~a.full => p.result.ends = f.ends
  BY <1>3, <1>4, PreparedIs
<1>6. d.tables = p.tables /\ d.at = i + 1 /\ d.results = Append(w.results, p.result)
  OBVIOUS
<1> HIDE DEF p, d, lo, n
<1>7. p.result \in Results
  BY <1>5 DEF ResultIs
<1>8. /\ d.results \in Seq(Results) /\ Len(d.results) = n + 1 /\ d.results[n + 1] = p.result
      /\ \A k \in 1..n : d.results[k] = w.results[k]
  BY <1>3, <1>6, <1>7 DEF n
<1>9. ForkIs(d, c)
  <2>1. ASSUME NEW k \in 1..Len(d.results)
        PROVE  ResultIs(d.tables, d.results[k]) /\ d.results[k].file = lo + k
    <3>1. CASE k = n + 1
      BY <1>4, <1>5, <1>6, <1>8, <3>1, <1>2, <1>3
    <3>2. CASE k \in 1..n
      <4>1. ResultIs(w.tables, w.results[k]) /\ w.results[k].file = lo + k
        BY <1>3, <3>2
      <4>2. ResultIs(p.tables, w.results[k])
        BY <1>3, <1>5, <4>1, ResultExtends DEF Forked
      <4> QED BY <1>6, <1>8, <3>2, <4>1, <4>2
    <3> QED BY <1>3, <1>8, <3>1, <3>2
  <2>2. /\ d.at \in Nat /\ Plan[c].first <= d.at /\ d.at <= Plan[c].last + 1
        /\ Len(d.results) = d.at - Plan[c].first
    <3>1. lo \in Nat /\ LastFile(c) \in Nat
      BY <1>1, <1>2
    <3>2. /\ d.at \in Nat /\ lo + 1 <= d.at /\ d.at <= LastFile(c) + 1
          /\ Len(d.results) = d.at - (lo + 1)
      <4>1. /\ w.at \in Nat /\ lo + 1 <= w.at /\ n = w.at - (lo + 1) /\ n \in Nat
            /\ w.at <= LastFile(c) /\ d.at = w.at + 1 /\ Len(d.results) = n + 1
        BY <1>3, <1>4, <1>6, <1>8
      <4> QED BY <3>1, <4>1
    <3> QED BY <1>2, <3>2
  <2> QED BY <1>5, <1>6, <1>8, <2>1, <2>2 DEF ForkIs, lo
<1>10. ForkLock(d, c)
  <2> DEFINE t == Sequentially[lo].tables
             x == Sequentially[i - 1]
             y == Sequentially[i]
  <2> SUFFICES ASSUME ~Sequentially[lo].full
               PROVE  \/ InStep(t, d.tables, y.tables) /\ ~y.full /\ AsWritten(d)
                      \/ y.full /\ (HasFailed(d) \/ MergeFull(t, d.tables))
    <3>1. d.at - 1 = i
      BY <1>3, <1>6
    <3> QED BY <3>1 DEF ForkLock, lo
  <2>1. \/ InStep(t, w.tables, x.tables) /\ ~x.full /\ AsWritten(w)
        \/ x.full /\ (HasFailed(w) \/ MergeFull(t, w.tables))
    BY DEF ForkLock, lo
  <2>2. Forked(t)
    BY <1>1, <1>2, SequentialGrows DEF Forked
  <2>3. /\ y = SequentialOne(x, f) /\ x \in Chains(base) /\ (x.full => y.full)
        /\ x.full \in BOOLEAN /\ y.full \in BOOLEAN
    <3>1. i - 1 \in 0..NumFiles /\ i \in 0..NumFiles /\ i - 1 \in 0..i
      BY <1>4, <1>1
    <3>2. y = SequentialOne(x, f) /\ x \in Chains(base)
      BY <1>1, <1>4, <3>1, SequentiallyIs
    <3> QED BY <1>1, <3>1, <3>2, SequentialGrows
  <2>4. f \in AFile /\ f.writes \in Writes /\ f.retained \in BOOLEAN
    BY <1>1, <1>4 DEF AFile, File
  <2>5. HasFailed(w) => HasFailed(d)
    <3>1. ASSUME NEW k \in 1..n, w.results[k].ends \in Failures
          PROVE  k \in 1..Len(d.results) /\ d.results[k].ends \in Failures
      BY <1>3, <1>8, <3>1
    <3> QED BY <3>1 DEF HasFailed, n
  <2>6. AsWritten(w) /\ p.result.ends = f.ends => AsWritten(d)
    <3> SUFFICES ASSUME AsWritten(w), p.result.ends = f.ends, NEW k \in 1..Len(d.results)
                 PROVE  d.results[k].ends = module.files[d.results[k].file].ends
      BY DEF AsWritten
    <3>1. CASE k = n + 1
      BY <1>5, <1>8, <3>1
    <3>2. CASE k \in 1..n
      BY <1>8, <3>2 DEF AsWritten, n
    <3> QED BY <1>3, <1>8, <3>1, <3>2
  <2>7. p.result.ends \in Failures => HasFailed(d)
    <3>1. n + 1 \in 1..Len(d.results)
      BY <1>3, <1>8
    <3> QED BY <1>8, <3>1 DEF HasFailed
  <2>8. CASE x.full
    <3>1. y.full
      BY <2>3, <2>8
    <3>2. MergeFull(t, w.tables) => MergeFull(t, d.tables)
      <4> HIDE DEF t
      <4> QED BY <1>1, <1>3, <1>5, <1>6, <2>2, MergePrefix
    <3> HIDE DEF t, x, y
    <3> QED BY <2>1, <2>5, <2>8, <3>1, <3>2
  <2>9. CASE ~x.full /\ f.retained
    <3>1. y = x
      BY <2>3, <2>9 DEF SequentialOne
    <3> HIDE DEF t, x, y
    <3> QED BY <1>5, <1>6, <2>1, <2>6, <2>9, <3>1
  <2>10. CASE ~x.full /\ ~f.retained
    <3> DEFINE b == WriteAll(x.tables, f.writes)
    <3>1. y = Onto(x, f)
      BY <2>3, <2>10 DEF SequentialOne
    <3>2. y.tables = b.tables /\ y.full = (x.full \/ b.full)
      <4>1. LET e == Onto(x, f)
            IN /\ e \in Chains(base) /\ Extends(x.tables, e.tables)
               /\ e.tables = b.tables /\ e.full = (x.full \/ b.full)
        <5> HIDE DEF x, f
        <5> QED BY <1>1, <2>3, <2>4, OntoIs
      <4> QED BY <3>1, <4>1
    <3>3. Forked(w.tables) /\ ~MergeFull(t, w.tables) /\ x.tables = Merged(t, w.tables) /\ AsWritten(w)
      BY <2>1, <2>10 DEF InStep
    <3>4. AccLock(t, a, b)
      <4>1. AccLock(t, WriteAll(w.tables, f.writes), WriteAll(Merged(t, w.tables), f.writes))
        <5> HIDE DEF t, f
        <5> QED BY <1>1, <2>2, <2>4, <3>3, WriteAllLock
      <4> QED BY <3>3, <4>1
    <3> HIDE DEF t, x, y, a, b
    <3>5. CASE b.full
      <4>1. y.full /\ (a.full \/ MergeFull(t, a.tables))
        BY <2>3, <3>2, <3>4, <3>5 DEF AccLock
      <4> QED BY <1>5, <1>6, <2>7, <2>10, <4>1
    <3>6. CASE ~b.full
      <4>1. InStep(t, a.tables, b.tables) /\ ~a.full
        BY <3>4, <3>6 DEF AccLock
      <4>2. ~y.full
        BY <2>10, <3>2, <3>6
      <4> QED BY <1>5, <1>6, <2>6, <2>10, <3>2, <3>3, <4>1, <4>2
    <3> QED BY <3>5, <3>6
  <2> QED BY <2>3, <2>4, <2>8, <2>9, <2>10
<1> QED BY <1>9, <1>10 DEF d, p

-----------------------------------------------------------------------------
(***************************************************************************)
(* The order of the merge.                                                 *)
(***************************************************************************)

(* A rising numbering of 1..n in itself is the identity.                   *)
LEMMA RisingIsIdentity ==
    ASSUME NEW n \in Nat, NEW f \in [1..n -> 1..n],
           \A i, j \in 1..n : i < j => f[i] < f[j]
    PROVE  \A k \in 1..n : f[k] = k
<1>1. \A k \in 1..n : k <= f[k]
  <2> DEFINE S == {k \in 0..n : k > 0 => k <= f[k]}
  <2>1. 0 \in S
    OBVIOUS
  <2>2. ASSUME NEW k \in 1..n, k - 1 \in S PROVE k \in S
    <3>1. CASE k = 1
      BY <3>1
    <3>2. CASE k # 1
      <4>1. k - 1 \in 1..n /\ k - 1 < k
        BY <3>2
      <4>2. k - 1 <= f[k - 1] /\ f[k - 1] < f[k] /\ f[k - 1] \in Nat /\ f[k] \in Nat
        BY <2>2, <4>1
      <4> QED BY <4>2
    <3> QED BY <3>1, <3>2
  <2> HIDE DEF S
  <2>3. \A k \in 0..n : k \in S
    BY <2>1, <2>2, Induct
  <2> QED BY <2>3 DEF S
<1>2. \A k \in 1..n : f[k] <= k
  <2> DEFINE S == {j \in 0..n : j < n => f[n - j] <= n - j}
  <2>1. 0 \in S
    OBVIOUS
  <2>2. ASSUME NEW j \in 1..n, j - 1 \in S PROVE j \in S
    <3> SUFFICES ASSUME j < n PROVE f[n - j] <= n - j
      OBVIOUS
    <3>1. n - j \in 1..n /\ n - (j - 1) \in 1..n /\ n - j < n - (j - 1)
      OBVIOUS
    <3>2. f[n - (j - 1)] <= n - (j - 1)
      BY <2>2
    <3>3. f[n - j] < f[n - (j - 1)] /\ f[n - j] \in Nat /\ f[n - (j - 1)] \in Nat
      BY <3>1
    <3> QED BY <3>2, <3>3
  <2> HIDE DEF S
  <2>3. \A j \in 0..n : j \in S
    BY <2>1, <2>2, Induct
  <2>4. ASSUME NEW k \in 1..n PROVE f[k] <= k
    <3>1. n - k \in 0..n /\ n - k < n /\ n - (n - k) = k
      OBVIOUS
    <3> QED BY <2>3, <3>1 DEF S
  <2> QED BY <2>4
<1>3. ASSUME NEW k \in 1..n PROVE f[k] = k
  <2>1. f[k] \in Nat /\ k <= f[k] /\ f[k] <= k
    BY <1>1, <1>2
  <2> QED BY <2>1
<1> QED BY <1>3

(* As many distinct arrivals as chunks are all of the chunks.              *)
LEMMA Everyone ==
    ASSUME NEW n \in Nat, NEW s \in Seq(1..n), Distinct(s), Len(s) = n
    PROVE  DOMAIN s = 1..n /\ Range(s) = 1..n
<1>1. DOMAIN s = 1..n /\ s \in [1..n -> 1..n]
  OBVIOUS
<1>2. s \in Injection(1..n, 1..n)
  BY <1>1 DEF Distinct, Injection, IsInjective
<1>3. IsFiniteSet(1..n)
  BY FS_Interval
<1>4. s \in Surjection(1..n, 1..n)
  <2> DEFINE T == 1..n
  <2>1. s \in Injection(T, T) /\ IsFiniteSet(T)
    BY <1>2, <1>3
  <2> HIDE DEF T
  <2>2. s \in Surjection(T, T)
    BY <2>1, FS_Injection
  <2> QED BY <2>2 DEF T
<1> QED BY <1>1, <1>4 DEF Surjection, Range

(* sort_by_key: chunks are merged in the order of the plan, whatever the   *)
(* order their workers came back in.                                       *)
LEMMA MergeOrderIs ==
    ASSUME Setup, Arrivals, Len(arrived) = NumChunks
    PROVE  \A k \in 1..NumChunks : MergeOrder[k] = k
<1> DEFINE n == NumChunks
           O == [DOMAIN arrived -> Range(arrived)]
           P(o) == \A i, j \in DOMAIN arrived : i < j => o[i] < o[j]
           id == [k \in 1..n |-> k]
<1>1. n \in Nat /\ Chunks = 1..n
  BY PlanIs DEF Setup
<1>2. DOMAIN arrived = 1..n /\ Range(arrived) = 1..n
  BY <1>1, Everyone DEF Arrivals
<1> HIDE DEF n
<1>3. id \in O /\ P(id)
  BY <1>1, <1>2
<1>4. MergeOrder = CHOOSE o \in O : P(o)
  BY DEF MergeOrder
<1>5. MergeOrder \in O /\ P(MergeOrder)
  <2> HIDE DEF O, P, id
  <2> QED BY <1>3, <1>4
<1> QED BY <1>1, <1>2, <1>5, RisingIsIdentity DEF n

(* Later chunks have later files.                                          *)
LEMMA LastFileRises ==
    ASSUME Setup
    PROVE  \A d \in 0..NumChunks : \A c \in 0..d : LastFile(c) <= LastFile(d)
<1> DEFINE n == NumChunks
           S == {d \in 0..n : \A c \in 0..d : LastFile(c) <= LastFile(d)}
<1>1. /\ n \in Nat /\ NumFiles \in Nat /\ \A c \in 0..n : LastFile(c) \in 0..NumFiles
      /\ \A c \in 1..n : LastFile(c - 1) <= LastFile(c)
  BY PlanIs DEF Setup
<1> HIDE DEF n
<1>2. 0 \in S
  BY <1>1
<1>3. ASSUME NEW d \in 1..n, d - 1 \in S PROVE d \in S
  <2>1. ASSUME NEW c \in 0..d PROVE LastFile(c) <= LastFile(d)
    <3>1. LastFile(d) \in Nat
      BY <1>1
    <3>2. CASE c = d
      BY <3>1, <3>2
    <3>3. CASE c # d
      <4>1. c \in 0..(d - 1) /\ d - 1 \in 0..n /\ c \in 0..n
        BY <1>1, <3>3
      <4>2. LastFile(c) <= LastFile(d - 1) /\ LastFile(d - 1) <= LastFile(d)
        BY <1>1, <1>3, <4>1
      <4>3. LastFile(c) \in Nat /\ LastFile(d - 1) \in Nat
        BY <1>1, <4>1
      <4> QED BY <3>1, <4>2, <4>3
    <3> QED BY <3>2, <3>3
  <2> QED BY <2>1, <1>1
<1> HIDE DEF S
<1>4. \A d \in 0..n : d \in S
  BY <1>1, <1>2, <1>3, Induct
<1> QED BY <1>4 DEF S, n

(* A file is in one chunk.                                                 *)
LEMMA ChunkOfIs ==
    ASSUME Setup, NEW c \in Chunks, NEW i \in Nat, LastFile(c - 1) < i, i <= LastFile(c)
    PROVE  ChunkOf(i) = c
<1> DEFINE P(d) == LastFile(d - 1) < i /\ i <= LastFile(d)
<1>1. /\ NumChunks \in Nat /\ Chunks = 1..NumChunks /\ NumFiles \in Nat
      /\ \A d \in 0..NumChunks : LastFile(d) \in 0..NumFiles
  BY PlanIs DEF Setup
<1>2. ASSUME NEW d \in Chunks, NEW e \in Chunks, P(d), P(e), d < e PROVE FALSE
  <2>1. d \in 0..(e - 1) /\ e - 1 \in 0..NumChunks /\ d \in 0..NumChunks
    BY <1>1, <1>2
  <2>2. LastFile(d) <= LastFile(e - 1)
    BY <2>1, LastFileRises
  <2>3. LastFile(d) \in Nat /\ LastFile(e - 1) \in Nat
    BY <1>1, <2>1
  <2> QED BY <1>2, <2>2, <2>3
<1>3. \A d \in Chunks : P(d) => d = c
  <2> SUFFICES ASSUME NEW d \in Chunks, P(d), d # c PROVE FALSE
    OBVIOUS
  <2>1. d < c \/ c < d
    BY <1>1
  <2>2. P(c)
    OBVIOUS
  <2> HIDE DEF P
  <2> QED BY <1>2, <2>1, <2>2
<1>4. ChunkOf(i) = CHOOSE d \in Chunks : P(d)
  BY DEF ChunkOf
<1>5. P(c)
  OBVIOUS
<1> HIDE DEF P
<1> QED BY <1>3, <1>4, <1>5

(* What the workers handed over, file by file.                             *)
LEMMA HandedIs ==
    ASSUME Setup, Forks, NEW c \in Chunks, work[c].at > Plan[c].last
    PROVE  /\ Len(work[c].results) = LastFile(c) - LastFile(c - 1)
           /\ work[c].at = LastFile(c) + 1
           /\ \A k \in 1..Len(work[c].results) :
                HandedOver(LastFile(c - 1) + k) = work[c].results[k]
<1> DEFINE lo == LastFile(c - 1)
           hi == LastFile(c)
           at == work[c].at
           n == Len(work[c].results)
<1>1. /\ c \in 1..NumChunks /\ NumChunks \in Nat /\ NumFiles \in Nat
      /\ lo \in Nat /\ hi \in Nat /\ Plan[c].first = lo + 1 /\ Plan[c].last = hi
  <2>1. c \in 1..NumChunks /\ NumChunks \in Nat /\ NumFiles \in Nat
    BY PlanIs DEF Setup
  <2>2. c - 1 \in 0..NumChunks /\ c \in 0..NumChunks
    BY <2>1
  <2>3. lo \in 0..NumFiles /\ hi \in 0..NumFiles
    BY <2>2, PlanIs DEF Setup
  <2> QED BY <2>1, <2>3, PlanIs DEF Setup
<1>2. /\ at \in Nat /\ at <= hi + 1 /\ n = at - (lo + 1) /\ at > hi
  BY <1>1 DEF Forks, ForkIs
<1> HIDE DEF lo, hi, at, n
<1>3. at = hi + 1 /\ n = hi - lo
  BY <1>1, <1>2
<1>4. ASSUME NEW k \in 1..n PROVE HandedOver(lo + k) = work[c].results[k]
  <2>1. lo + k \in Nat /\ lo < lo + k /\ lo + k <= hi /\ (lo + k) - lo = k
    BY <1>1, <1>3
  <2>2. ChunkOf(lo + k) = c
    BY <2>1, ChunkOfIs DEF lo, hi
  <2> QED BY <2>1, <2>2 DEF HandedOver, lo
<1> QED BY <1>3, <1>4 DEF lo, hi, at, n

(* A remap that is not applied would have changed nothing.                 *)
LEMMA RemappedIs ==
    ASSUME NEW n \in Nat, NEW T, NEW remap \in [1..n -> T], NEW id \in 1..n
    PROVE  Remapped(remap, id) = remap[id]
BY DEF Remapped, IsIdentity

(* remap_prepared_file_output: the ids of a chunk's result, rewritten to   *)
(* the merged tables, stand for what they stood for in its own.            *)
LEMMA RemapOutputIs ==
    ASSUME Setup, NEW t, NEW l, Forked(t), Forked(l), ~MergeFull(t, l),
           NEW r, ResultIs(l, r)
    PROVE  LET d == RemapOutput(r, StringsAt(t, l), PathsAt(t, l))
           IN /\ d \in Results /\ d.file = r.file /\ d.ends = r.ends
              /\ Len(d.ids) = Len(r.ids)
              /\ Resolves(Merged(t, l), module.files[r.file].writes, d.ids)
              /\ Frozen(Merged(t, l), d)
<1> DEFINE rs == StringsAt(t, l)
           rp == PathsAt(t, l)
           m == Merged(t, l)
           ws == module.files[r.file].writes
           d == RemapOutput(r, rs, rp)
<1>1. /\ Sound(base) /\ module.files[r.file] \in AFile /\ Sound(l) /\ Sound(m)
      /\ Extends(base, m) /\ Embeds(l, m, rs, rp)
  <2>1. Sound(base) /\ module.files[r.file] \in AFile
    BY SetupIs DEF ResultIs
  <2> QED BY <2>1, MergeIs DEF Forked
<1>2. r \in Results /\ r.ids \in Seq(Nat) /\ r.domain \in {"global", "local"}
  BY DEF ResultIs, Results
<1> HIDE DEF rs, rp, m
<1>3. Resolves(m, ws, d.ids) /\ d \in Results /\ d.file = r.file /\ d.ends = r.ends
      /\ Len(d.ids) = Len(r.ids)
  <2>1. CASE module.files[r.file].retained
    <3>1. r.domain = "global" /\ Resolves(base, ws, r.ids)
      BY <2>1 DEF ResultIs
    <3>2. d = r
      BY <3>1 DEF RemapOutput
    <3>3. Resolves(m, ws, r.ids)
      BY <1>1, <3>1, ResolvesExtends
    <3> QED BY <1>2, <3>2, <3>3
  <2>2. CASE ~module.files[r.file].retained
    <3>1. r.domain = "local" /\ Resolves(l, ws, r.ids)
      BY <2>2 DEF ResultIs
    <3> DEFINE ids == [ j \in DOMAIN r.ids |-> IF ws[j].path THEN Remapped(rp, r.ids[j])
                                                            ELSE Remapped(rs, r.ids[j]) ]
    <3>2. d = [r EXCEPT !.ids = ids]
      BY <3>1 DEF RemapOutput
    <3>3. DOMAIN ids = 1..Len(r.ids) /\ Len(r.ids) \in Nat /\ Len(r.ids) <= Len(ws)
      BY <1>2, <3>1 DEF Resolves
    <3>4. ASSUME NEW j \in 1..Len(r.ids)
          PROVE  ids[j] \in Nat /\ IsIn(m, ws[j], ids[j]) /\ StandsFor(m, ws[j], ids[j])
      <4> DEFINE id == r.ids[j]
      <4>1. IsIn(l, ws[j], id) /\ StandsFor(l, ws[j], id)
        BY <3>1 DEF Resolves
      <4>2. /\ Len(l.strings) \in Nat /\ Len(l.paths) \in Nat
            /\ Len(m.strings) \in Nat /\ Len(m.paths) \in Nat
        BY <1>1 DEF Sound, Tables
      <4>3. CASE ws[j].path
        <5>1. id \in 1..Len(l.paths)
          BY <4>1, <4>3 DEF IsIn
        <5>2. ids[j] = Remapped(rp, id)
          BY <1>2, <4>3
        <5> HIDE DEF ids, id
        <5>3. rp \in [1..Len(l.paths) -> 1..Len(m.paths)]
          BY <1>1 DEF Embeds
        <5>4. ids[j] = rp[id]
          BY <4>2, <5>1, <5>2, <5>3, RemappedIs
        <5>5. rp[id] \in 1..Len(m.paths)
          BY <5>1, <5>3
        <5>6. TextOf(m, rp[id]) = TextOf(l, id)
          BY <1>1, <5>1, EmbedText
        <5> QED BY <4>1, <4>2, <4>3, <5>4, <5>5, <5>6 DEF IsIn, StandsFor
      <4>4. CASE ~ws[j].path
        <5>1. id \in 1..Len(l.strings)
          BY <4>1, <4>4 DEF IsIn
        <5>2. ids[j] = Remapped(rs, id)
          BY <1>2, <4>4
        <5> HIDE DEF ids, id
        <5>3. rs \in [1..Len(l.strings) -> 1..Len(m.strings)]
          BY <1>1 DEF Embeds
        <5>4. ids[j] = rs[id]
          BY <4>2, <5>1, <5>2, <5>3, RemappedIs
        <5>5. rs[id] \in 1..Len(m.strings)
          BY <5>1, <5>3
        <5>6. m.strings[rs[id]] = l.strings[id]
          BY <1>1, <5>1 DEF Embeds
        <5> QED BY <4>1, <4>2, <4>4, <5>4, <5>5, <5>6 DEF IsIn, StandsFor
      <4> QED BY <4>3, <4>4
    <3>5. ids \in Seq(Nat) /\ Len(ids) = Len(r.ids)
      <4>1. ids = [j \in 1..Len(r.ids) |-> ids[j]]
        BY <3>3
      <4> HIDE DEF ids
      <4>2. ids \in [1..Len(r.ids) -> Nat]
        BY <3>4, <4>1
      <4> QED BY <3>3, <4>2
    <3> HIDE DEF ids
    <3>6. d.ids = ids /\ d.file = r.file /\ d.ends = r.ends /\ d \in Results
      BY <1>2, <3>2, <3>5 DEF Results
    <3> HIDE DEF d
    <3>7. Resolves(m, ws, d.ids)
      BY <3>3, <3>4, <3>5, <3>6 DEF Resolves
    <3> QED BY <3>5, <3>6, <3>7
  <2> QED BY <2>1, <2>2
<1> HIDE DEF d
<1>4. Frozen(m, d)
  <2>1. \A j \in 1..Len(d.ids) : IsIn(m, ws[j], d.ids[j])
    BY <1>3 DEF Resolves
  <2>2. /\ DOMAIN d.ids = 1..Len(d.ids) /\ DOMAIN m.paths = 1..Len(m.paths)
        /\ DOMAIN m.strings = 1..Len(m.strings)
    BY <1>1, <1>3 DEF Sound, Tables, Results
  <2> QED BY <1>3, <2>1, <2>2 DEF Frozen, IsIn
<1> QED BY <1>3, <1>4 DEF d, rs, rp, m

-----------------------------------------------------------------------------
(***************************************************************************)
(* Collecting the results of a chunk.                                      *)
(***************************************************************************)
CollectAccs ==
    [ slots : [1..NumFiles -> Seq(Seq(Nat))], warnings : Seq(Nat), errors : Seq(Errors),
      frozen : [1..NumFiles -> BOOLEAN], end : {"merging", "infrastructure", "fault"} ]

ErrorOf(r) == [file |-> r.file, ids |-> r.ids]

(* What one prepared file adds to what has been collected.                 *)
LEMMA CollectIs ==
    ASSUME NEW v \in CollectAccs, NEW r \in Results, r.file \in 1..NumFiles
    PROVE  LET d == Collect(v, r)
           IN /\ d \in CollectAccs /\ d.frozen = v.frozen
              /\ v.end # "merging" => d = v
              /\ v.end = "merging" =>
                   /\ r.ends = "infrastructure" =>
                        /\ d.end = "infrastructure" /\ d.slots = v.slots
                        /\ d.warnings = v.warnings /\ d.errors = v.errors
                   /\ r.ends = "diagnosed" =>
                        /\ d.end = "merging" /\ d.slots = v.slots
                        /\ d.warnings = Warned(v.warnings, r)
                        /\ d.errors = Append(v.errors, ErrorOf(r))
                   /\ r.ends = "ok" /\ v.slots[r.file] = <<>> /\ v.frozen[r.file] =>
                        /\ d.end = "merging" /\ d.slots = [v.slots EXCEPT ![r.file] = <<r.ids>>]
                        /\ d.warnings = Warned(v.warnings, r) /\ d.errors = v.errors
<1> DEFINE d == Collect(v, r)
           x == Warned(v.warnings, r)
           e == Append(v.errors, ErrorOf(r))
           s == [v.slots EXCEPT ![r.file] = <<r.ids>>]
<1>1. /\ v.slots \in [1..NumFiles -> Seq(Seq(Nat))] /\ v.warnings \in Seq(Nat)
      /\ v.errors \in Seq(Errors) /\ v.frozen \in [1..NumFiles -> BOOLEAN]
      /\ v.end \in {"merging", "infrastructure", "fault"}
      /\ v = [ slots |-> v.slots, warnings |-> v.warnings, errors |-> v.errors,
               frozen |-> v.frozen, end |-> v.end ]
  BY DEF CollectAccs
<1>2. /\ r.file \in Nat /\ r.ids \in Seq(Nat) /\ r.ends \in {"ok", "diagnosed", "infrastructure"}
  BY DEF Results, Ends
<1>3. x \in Seq(Nat)
  BY <1>1, <1>2 DEF Warned
<1>4. e \in Seq(Errors)
  BY <1>1, <1>2 DEF Errors, ErrorOf
<1>5. s \in [1..NumFiles -> Seq(Seq(Nat))] /\ DOMAIN v.slots = 1..NumFiles
  BY <1>1, <1>2
<1> HIDE DEF x, e, s
<1>6. CASE v.end # "merging"
  <2>1. d = v
    BY <1>6 DEF Collect
  <2> QED BY <1>6, <2>1
<1>7. CASE v.end = "merging" /\ r.ends = "infrastructure"
  <2>1. d = [v EXCEPT !.end = "infrastructure"]
    BY <1>7 DEF Collect
  <2>2. d = [ slots |-> v.slots, warnings |-> v.warnings, errors |-> v.errors,
              frozen |-> v.frozen, end |-> "infrastructure" ]
    BY <1>1, <2>1
  <2> HIDE DEF d
  <2>3. d \in CollectAccs
    BY <1>1, <2>2 DEF CollectAccs
  <2> QED BY <1>7, <2>2, <2>3 DEF d
<1>8. CASE v.end = "merging" /\ r.ends = "diagnosed"
  <2>1. d = [v EXCEPT !.warnings = x, !.errors = e]
    BY <1>8 DEF Collect, x, e, ErrorOf
  <2>2. d = [ slots |-> v.slots, warnings |-> x, errors |-> e,
              frozen |-> v.frozen, end |-> "merging" ]
    BY <1>1, <1>8, <2>1
  <2> HIDE DEF d
  <2>3. d \in CollectAccs
    BY <1>1, <1>3, <1>4, <2>2 DEF CollectAccs
  <2> QED BY <1>8, <2>2, <2>3 DEF d, x, e
<1>9. CASE v.end = "merging" /\ r.ends = "ok" /\ v.slots[r.file] = <<>> /\ v.frozen[r.file]
  <2>1. d = [v EXCEPT !.warnings = x, !.slots[r.file] = <<r.ids>>]
    BY <1>5, <1>9 DEF Collect, x
  <2>2. d = [ slots |-> s, warnings |-> x, errors |-> v.errors,
              frozen |-> v.frozen, end |-> "merging" ]
    BY <1>1, <1>9, <2>1 DEF s
  <2> HIDE DEF d
  <2>3. d \in CollectAccs
    BY <1>1, <1>3, <1>5, <2>2 DEF CollectAccs
  <2> QED BY <1>9, <2>2, <2>3 DEF d, x, s
<1>10. CASE v.end = "merging" /\ r.ends = "ok" /\ ~(v.slots[r.file] = <<>> /\ v.frozen[r.file])
  <2>1. d = [v EXCEPT !.end = "fault"]
    BY <1>10 DEF Collect
  <2>2. d = [ slots |-> v.slots, warnings |-> v.warnings, errors |-> v.errors,
              frozen |-> v.frozen, end |-> "fault" ]
    BY <1>1, <2>1
  <2> HIDE DEF d
  <2>3. d \in CollectAccs
    BY <1>1, <2>2 DEF CollectAccs
  <2> QED BY <1>10, <2>2, <2>3 DEF d
<1> QED BY <1>1, <1>2, <1>6, <1>7, <1>8, <1>9, <1>10

(* Collecting a chunk, as its equations.                                   *)
LEMMA CollectingIs ==
    ASSUME NEW start \in CollectAccs, NEW R \in Seq(Results),
           \A k \in 1..Len(R) : R[k].file \in 1..NumFiles
    PROVE  LET a == Collecting(start, R)
           IN /\ a \in [0..Len(R) -> CollectAccs]
              /\ a[0] = start
              /\ \A k \in 1..Len(R) : a[k] = Collect(a[k - 1], R[k])
<1> DEFINE V == CollectAccs
           n == Len(R)
           G == [k \in 1..n |-> [v \in V |-> Collect(v, R[k])]]
           Def(f) == [k \in 0..n |-> IF k = 0 THEN start ELSE Collect(f[k - 1], R[k])]
           r == Collecting(start, R)
<1>1. n \in Nat /\ \A k \in 1..n : R[k] \in Results
  OBVIOUS
<1>3. \A k \in 1..n, v \in V : Collect(v, R[k]) \in V
  BY <1>1, CollectIs
<1>4. G \in [1..n -> [V -> V]] /\ \A k \in 1..n, v \in V : G[k][v] = Collect(v, R[k])
  <2> HIDE DEF V
  <2> QED BY <1>3
<1>6. r = CHOOSE g : g = Def(g)
  BY DEF Collecting
<1> HIDE DEF n, G, V
<1>2. start \in V
  BY DEF V
<1>5. PICK f : IsRun(f, V, start, n, G)
  BY <1>1, <1>2, <1>4, Runs
<1>7. f = Def(f)
  <2>1. \A k \in 0..n : k # 0 => k - 1 \in 0..n /\ k \in 1..n
    BY <1>1
  <2>2. ASSUME NEW k \in 0..n
        PROVE  f[k] = IF k = 0 THEN start ELSE Collect(f[k - 1], R[k])
    BY <1>4, <1>5, <2>1 DEF IsRun
  <2> QED BY <1>5, <2>2 DEF IsRun
<1> HIDE DEF r
<1>8. r = Def(r)
  <2> HIDE DEF Def
  <2> QED BY <1>6, <1>7
<1>9. r[0] = start /\ \A k \in 1..n : r[k] = Collect(r[k - 1], R[k])
  <2>1. Def(r)[0] = start /\ \A k \in 1..n : Def(r)[k] = Collect(r[k - 1], R[k])
    BY <1>1
  <2> HIDE DEF Def
  <2> QED BY <1>8, <2>1
<1>10. r = [k \in 0..n |-> r[k]]
  BY <1>8
<1>11. r \in [0..n -> V]
  <2>1. \A k \in 1..n : r[k - 1] \in V => r[k] \in V
    BY <1>3, <1>9
  <2> QED BY <1>1, <1>2, <1>9, <1>10, <2>1, RunType
<1> QED BY <1>9, <1>11 DEF r, n, V

(* Files reported so far, and one more.                                    *)
LEMMA AppendRising ==
    ASSUME NEW V, NEW errs \in Seq(V), NEW e \in V, NEW F, NEW n \in Nat,
           RisingFiles(errs), Reported(errs) = F,
           F \subseteq 1..n, e.file = n + 1
    PROVE  LET s == Append(errs, e)
           IN RisingFiles(s) /\ Reported(s) = F \cup {n + 1}
<1> DEFINE s == Append(errs, e)
           l == Len(errs)
<1>1. /\ l \in Nat /\ Len(s) = l + 1 /\ s[l + 1] = e /\ \A k \in 1..l : s[k] = errs[k]
  OBVIOUS
<1>2. \A k \in 1..l : errs[k].file \in F
  BY DEF Reported
<1> HIDE DEF s
<1>3. RisingFiles(s)
  <2> SUFFICES ASSUME NEW i \in 1..Len(s), NEW j \in 1..Len(s), i < j
               PROVE  s[i].file < s[j].file
    BY DEF RisingFiles
  <2>0. i \in 1..l
    BY <1>1
  <2>1. i \in 1..l /\ s[i] = errs[i] /\ errs[i].file \in 1..n
    BY <1>1, <1>2, <2>0
  <2>2. CASE j = l + 1
    BY <1>1, <2>1, <2>2
  <2>3. CASE j # l + 1
    <3>1. j \in 1..l
      BY <1>1, <2>3
    <3> QED BY <1>1, <2>1, <3>1 DEF RisingFiles
  <2> QED BY <2>2, <2>3
<1>4. Reported(s) = F \cup {n + 1}
  <2>1. ASSUME NEW k \in 1..Len(s) PROVE s[k].file \in F \cup {n + 1}
    <3>1. CASE k = l + 1
      BY <1>1, <3>1
    <3>2. CASE k # l + 1
      <4>1. k \in 1..l
        BY <1>1, <3>2
      <4> QED BY <1>1, <1>2, <4>1
    <3> QED BY <3>1, <3>2
  <2>2. ASSUME NEW x \in F PROVE x \in Reported(s)
    <3>1. PICK k \in 1..l : errs[k].file = x
      BY <2>2 DEF Reported
    <3>2. k \in 1..Len(s) /\ s[k].file = x
      BY <1>1, <3>1
    <3> QED BY <3>2 DEF Reported
  <2>3. n + 1 \in Reported(s)
    <3>1. l + 1 \in 1..Len(s)
      BY <1>1
    <3> QED BY <1>1, <3>1 DEF Reported
  <2> QED BY <2>1, <2>2, <2>3 DEF Reported
<1> QED BY <1>3, <1>4 DEF s

(* A warning of a later file keeps the warnings ascending.                 *)
LEMMA AppendAscending ==
    ASSUME NEW warn \in Seq(Nat), NEW n \in Nat, Ascending(warn), Range(warn) \subseteq 1..n
    PROVE  LET s == Append(warn, n + 1)
           IN s \in Seq(Nat) /\ Ascending(s) /\ Range(s) = Range(warn) \cup {n + 1}
<1> DEFINE s == Append(warn, n + 1)
           l == Len(warn)
<1>1. /\ l \in Nat /\ Len(s) = l + 1 /\ s[l + 1] = n + 1 /\ s \in Seq(Nat)
      /\ \A k \in 1..l : s[k] = warn[k]
      /\ DOMAIN s = 1..(l + 1) /\ DOMAIN warn = 1..l
  OBVIOUS
<1>2. \A k \in 1..l : warn[k] \in 1..n
  BY <1>1 DEF Range
<1> HIDE DEF s
<1>3. Ascending(s)
  <2> SUFFICES ASSUME NEW i \in 1..(l + 1), NEW j \in 1..(l + 1), i < j
               PROVE  s[i] < s[j]
    BY <1>1 DEF Ascending
  <2>1. i \in 1..l /\ s[i] = warn[i] /\ warn[i] \in 1..n
    BY <1>1, <1>2
  <2>2. CASE j = l + 1
    BY <1>1, <2>1, <2>2
  <2>3. CASE j # l + 1
    <3>1. j \in 1..l
      BY <1>1, <2>3
    <3> QED BY <1>1, <2>1, <3>1 DEF Ascending
  <2> QED BY <2>2, <2>3
<1>4. Range(s) = Range(warn) \cup {n + 1}
  <2>1. ASSUME NEW k \in 1..(l + 1) PROVE s[k] \in Range(warn) \cup {n + 1}
    <3>1. CASE k = l + 1
      BY <1>1, <3>1
    <3>2. CASE k # l + 1
      <4>1. k \in 1..l
        BY <1>1, <3>2
      <4> QED BY <1>1, <4>1 DEF Range
    <3> QED BY <3>1, <3>2
  <2>2. ASSUME NEW x \in Range(warn) PROVE x \in Range(s)
    <3>1. PICK k \in 1..l : warn[k] = x
      BY <1>1, <2>2 DEF Range
    <3>2. k \in 1..(l + 1) /\ s[k] = x
      BY <1>1, <3>1
    <3> QED BY <1>1, <3>2 DEF Range
  <2>3. n + 1 \in Range(s)
    <3>1. l + 1 \in 1..(l + 1)
      BY <1>1
    <3> QED BY <1>1, <3>1 DEF Range
  <2> QED BY <1>1, <2>1, <2>2, <2>3 DEF Range
<1> QED BY <1>1, <1>3, <1>4 DEF s

(* The results of one chunk, as rewritten to the merged tables m: those of *)
(* the files after lo.                                                     *)
Rewritten(m, lo, R) ==
    /\ R \in Seq(Results) /\ lo \in Nat /\ lo + Len(R) <= NumFiles
    /\ \A k \in 1..Len(R) :
         /\ R[k].file = lo + k /\ R[k].ends = HandedOver(lo + k).ends
         /\ Resolves(m, module.files[lo + k].writes, R[k].ids)
         /\ R[k].ends = "ok" => Len(R[k].ids) = Len(module.files[lo + k].writes)

(* k of them have been collected.                                          *)
Collected(m, lo, R, k, v) ==
    /\ v \in CollectAccs /\ (\A i \in 1..NumFiles : v.frozen[i])
    /\ Kept(m, v.slots, v.errors) /\ Range(v.warnings) \subseteq 1..NumFiles
    /\ v.end # "fault"
    /\ v.end = "merging" => CollectedTo(lo + k, v.slots, v.warnings, v.errors)
    /\ v.end = "infrastructure" => \E j \in 1..k : R[j].ends = "infrastructure"

(* The warnings after one file more.                                       *)
LEMMA WarnedIs ==
    ASSUME NEW n \in Nat, n + 1 <= NumFiles, NumFiles \in Nat, NEW warn \in Seq(Nat), Ascending(warn),
           Range(warn) = {i \in 1..n : module.files[i].warns},
           module.files[n + 1].warns \in BOOLEAN, NEW r, r.file = n + 1
    PROVE  LET x == Warned(warn, r)
           IN /\ x \in Seq(Nat) /\ Ascending(x) /\ Range(x) \subseteq 1..NumFiles
              /\ Range(x) = {i \in 1..(n + 1) : module.files[i].warns}
<1> DEFINE x == Warned(warn, r)
           W(j) == {i \in 1..j : module.files[i].warns}
<1>1. W(n) \subseteq 1..n /\ W(n) \subseteq 1..NumFiles /\ n + 1 \in 1..NumFiles
  OBVIOUS
<1>2. CASE module.files[n + 1].warns
  <2>1. x = Append(warn, n + 1)
    BY <1>2 DEF Warned
  <2>2. x \in Seq(Nat) /\ Ascending(x) /\ Range(x) = W(n) \cup {n + 1}
    <3> HIDE DEF x
    <3> QED BY <1>1, <2>1, AppendAscending
  <2>3. W(n + 1) = W(n) \cup {n + 1}
    BY <1>2
  <2> HIDE DEF x, W
  <2>4. Range(x) \subseteq 1..NumFiles /\ Range(x) = W(n + 1)
    BY <1>1, <2>2, <2>3
  <2> QED BY <2>2, <2>4 DEF x, W
<1>3. CASE ~module.files[n + 1].warns
  <2>1. x = warn
    BY <1>3 DEF Warned
  <2>2. W(n + 1) = W(n)
    BY <1>3
  <2> HIDE DEF x, W
  <2>3. Range(x) = W(n + 1) /\ Range(x) \subseteq 1..NumFiles
    BY <1>1, <2>1, <2>2 DEF W
  <2> QED BY <2>1, <2>3 DEF x, W
<1> QED BY <1>2, <1>3

(* One result more.                                                        *)
LEMMA CollectStep ==
    ASSUME Setup, NEW m, NEW lo, NEW R, Rewritten(m, lo, R), NEW k \in 1..Len(R),
           NEW v, Collected(m, lo, R, k - 1, v)
    PROVE  Collected(m, lo, R, k, Collect(v, R[k]))
<1> DEFINE r == R[k]
           d == Collect(v, r)
           n == lo + (k - 1)
           i == n + 1
           ws == module.files[i].writes
<1>1. /\ NumFiles \in Nat /\ n \in Nat /\ lo + k = i /\ i \in 1..NumFiles /\ k \in Nat
      /\ i <= NumFiles /\ k - 1 \in Nat
  BY SetupIs DEF Rewritten
<1>2. /\ r \in Results /\ r.file = i /\ r.ends = HandedOver(i).ends /\ Resolves(m, ws, r.ids)
      /\ r.ends = "ok" => Len(r.ids) = Len(ws)
      /\ r.ids \in Seq(Nat) /\ r.ends \in Ends
  <2>1. r.file = lo + k /\ r.ends = HandedOver(lo + k).ends
        /\ Resolves(m, module.files[lo + k].writes, r.ids)
        /\ (r.ends = "ok" => Len(r.ids) = Len(module.files[lo + k].writes))
    BY DEF Rewritten
  <2>2. r \in Results
    BY DEF Rewritten
  <2> HIDE DEF r
  <2> QED BY <1>1, <2>1, <2>2 DEF Results
<1>3. module.files[i].warns \in BOOLEAN
  <2>1. module.files[i] \in AFile
    BY <1>1, SetupIs
  <2> QED BY <2>1 DEF AFile, File
<1>4. /\ v \in CollectAccs /\ (\A j \in 1..NumFiles : v.frozen[j])
      /\ Kept(m, v.slots, v.errors) /\ Range(v.warnings) \subseteq 1..NumFiles
      /\ v.end # "fault"
      /\ v.end = "merging" => CollectedTo(n, v.slots, v.warnings, v.errors)
      /\ v.end = "infrastructure" => \E j \in 1..(k - 1) : R[j].ends = "infrastructure"
      /\ v.end \in {"merging", "infrastructure", "fault"}
  BY DEF Collected, CollectAccs
<1> HIDE DEF r, n
<1>5. /\ d \in CollectAccs /\ d.frozen = v.frozen
      /\ v.end # "merging" => d = v
      /\ v.end = "merging" =>
           /\ r.ends = "infrastructure" =>
                /\ d.end = "infrastructure" /\ d.slots = v.slots
                /\ d.warnings = v.warnings /\ d.errors = v.errors
           /\ r.ends = "diagnosed" =>
                /\ d.end = "merging" /\ d.slots = v.slots
                /\ d.warnings = Warned(v.warnings, r)
                /\ d.errors = Append(v.errors, ErrorOf(r))
           /\ r.ends = "ok" /\ v.slots[r.file] = <<>> /\ v.frozen[r.file] =>
                /\ d.end = "merging" /\ d.slots = [v.slots EXCEPT ![r.file] = <<r.ids>>]
                /\ d.warnings = Warned(v.warnings, r) /\ d.errors = v.errors
  <2>1. v \in CollectAccs /\ r \in Results /\ r.file \in 1..NumFiles
    BY <1>1, <1>2, <1>4
  <2> QED BY <2>1, CollectIs
<1> HIDE DEF d, ws, i
<1>6. CASE v.end # "merging"
  <2>1. \E j \in 1..k : R[j].ends = "infrastructure"
    BY <1>1, <1>4, <1>6
  <2> QED BY <1>4, <1>5, <1>6, <2>1 DEF Collected, d, r
<1>7. CASE v.end = "merging" /\ r.ends = "infrastructure"
  <2>1. \E j \in 1..k : R[j].ends = "infrastructure"
    BY <1>7 DEF r
  <2> QED BY <1>4, <1>5, <1>7, <2>1 DEF Collected, d, r
<1>8. CASE v.end = "merging" /\ r.ends \in {"ok", "diagnosed"}
  <2>0. CollectedTo(n, v.slots, v.warnings, v.errors)
    BY <1>4, <1>8
  <2>1. LET x == Warned(v.warnings, r)
        IN /\ x \in Seq(Nat) /\ Ascending(x) /\ Range(x) \subseteq 1..NumFiles
           /\ Range(x) = {j \in 1..(n + 1) : module.files[j].warns}
    <3>1. /\ v.warnings \in Seq(Nat) /\ Ascending(v.warnings)
          /\ Range(v.warnings) = {j \in 1..n : module.files[j].warns}
      BY <2>0 DEF CollectedTo
    <3>2. n + 1 <= NumFiles /\ module.files[n + 1].warns \in BOOLEAN /\ r.file = n + 1
      BY <1>1, <1>2, <1>3 DEF i
    <3> QED BY <1>1, <3>1, <3>2, WarnedIs
  <2>2. \A j \in 1..i : HandedOver(j).ends # "infrastructure"
    <3> SUFFICES ASSUME NEW j \in 1..i PROVE HandedOver(j).ends # "infrastructure"
      OBVIOUS
    <3>1. CASE j = i
      BY <1>2, <1>8, <3>1
    <3>2. CASE j # i
      <4>1. j \in 1..n
        BY <1>1, <3>2 DEF i
      <4> QED BY <2>0, <4>1 DEF CollectedTo
    <3> QED BY <3>1, <3>2
  <2> DEFINE D(j) == {x \in 1..j : HandedOver(x).ends = "diagnosed"}
  <2>3. /\ RisingFiles(v.errors) /\ Reported(v.errors) = D(n) /\ D(n) \subseteq 1..n
        /\ v.errors \in Seq(Errors)
    BY <2>0, <1>4 DEF CollectedTo, Kept
  <2>4. /\ v.slots \in [1..NumFiles -> Seq(Seq(Nat))]
        /\ \A j \in 1..NumFiles : v.slots[j] # <<>> <=> j <= n /\ HandedOver(j).ends = "ok"
    BY <2>0, <1>4 DEF CollectedTo, Kept
  <2>5. CASE r.ends = "diagnosed"
    <3> DEFINE e == ErrorOf(r)
    <3>1. e \in Errors /\ e.file = n + 1 /\ e.ids = r.ids
      BY <1>1, <1>2 DEF Errors, ErrorOf, i
    <3>2. d.errors = Append(v.errors, e) /\ d.slots = v.slots /\ d.warnings = Warned(v.warnings, r)
          /\ d.end = "merging"
      BY <1>5, <1>8, <2>5
    <3> HIDE DEF e
    <3>3. RisingFiles(d.errors) /\ Reported(d.errors) = D(n) \cup {n + 1}
      <4>1. RisingFiles(Append(v.errors, e)) /\ Reported(Append(v.errors, e)) = D(n) \cup {n + 1}
        <5> HIDE DEF D
        <5> QED BY <1>1, <2>3, <3>1, AppendRising
      <4> HIDE DEF D
      <4> QED BY <3>2, <4>1
    <3>4. D(i) = D(n) \cup {n + 1}
      BY <1>1, <1>2, <2>5 DEF i
    <3>5. \A j \in 1..NumFiles : d.slots[j] # <<>> <=> j <= i /\ HandedOver(j).ends = "ok"
      <4> SUFFICES ASSUME NEW j \in 1..NumFiles
                   PROVE  v.slots[j] # <<>> <=> j <= i /\ HandedOver(j).ends = "ok"
        BY <3>2
      <4>1. HandedOver(i).ends # "ok"
        BY <1>2, <2>5
      <4>2. j # i => (j <= i <=> j <= n)
        BY <1>1 DEF i
      <4>3. ~(i <= n)
        BY <1>1 DEF i
      <4> QED BY <2>4, <4>1, <4>2, <4>3
    <3>6. Kept(m, d.slots, d.errors)
      <4>1. d.errors \in Seq(Errors)
        BY <2>3, <3>1, <3>2
      <4>2. ASSUME NEW j \in 1..Len(d.errors)
            PROVE  \/ d.errors[j].ids = <<>>
                   \/ Resolves(m, module.files[d.errors[j].file].writes, d.errors[j].ids)
        <5>1. CASE j = Len(v.errors) + 1
          <6>1. d.errors[j] = e
            BY <2>3, <3>2, <5>1
          <6> QED BY <1>1, <1>2, <3>1, <6>1 DEF ws, i
        <5>2. CASE j \in 1..Len(v.errors)
          <6>1. d.errors[j] = v.errors[j]
            BY <2>3, <3>1, <3>2, <5>2
          <6> QED BY <1>4, <5>2, <6>1 DEF Kept
        <5>3. Len(d.errors) = Len(v.errors) + 1 /\ Len(v.errors) \in Nat
          BY <2>3, <3>1, <3>2
        <5> QED BY <5>1, <5>2, <5>3
      <4> QED BY <1>4, <3>2, <4>1, <4>2 DEF Kept
    <3> HIDE DEF D
    <3>7. Reported(d.errors) = D(i)
      BY <3>3, <3>4
    <3>8. CollectedTo(i, d.slots, d.warnings, d.errors)
      BY <2>1, <2>2, <3>2, <3>3, <3>5, <3>7 DEF CollectedTo, D, i
    <3>9. Range(d.warnings) \subseteq 1..NumFiles
      BY <2>1, <3>2
    <3> QED BY <1>1, <1>4, <1>5, <3>2, <3>6, <3>8, <3>9 DEF Collected, d, r
  <2>6. CASE r.ends = "ok"
    <3>1. v.slots[i] = <<>> /\ v.frozen[i]
      <4>1. ~(i <= n)
        BY <1>1 DEF i
      <4> QED BY <1>1, <1>4, <2>4, <4>1
    <3>2. d.errors = v.errors /\ d.slots = [v.slots EXCEPT ![i] = <<r.ids>>]
          /\ d.warnings = Warned(v.warnings, r) /\ d.end = "merging"
      BY <1>2, <1>5, <1>8, <2>6, <3>1
    <3>3. /\ d.slots \in [1..NumFiles -> Seq(Seq(Nat))] /\ d.slots[i] = <<r.ids>>
          /\ \A j \in 1..NumFiles : j # i => d.slots[j] = v.slots[j]
      <4>1. <<r.ids>> \in Seq(Seq(Nat))
        BY <1>2
      <4>2. v.slots \in [1..NumFiles -> Seq(Seq(Nat))] /\ i \in 1..NumFiles
        BY <1>1, <2>4
      <4> QED BY <3>2, <4>1, <4>2
    <3>4. D(i) = D(n)
      BY <1>1, <1>2, <2>6 DEF i
    <3>5. ASSUME NEW j \in 1..NumFiles
          PROVE  d.slots[j] # <<>> <=> j <= i /\ HandedOver(j).ends = "ok"
      <4>1. CASE j = i
        <5>1. HandedOver(i).ends = "ok" /\ i <= i
          BY <1>1, <1>2, <2>6
        <5>2. d.slots[i] # <<>>
          BY <3>3
        <5> QED BY <4>1, <5>1, <5>2
      <4>2. CASE j # i
        <5>1. j <= i <=> j <= n
          BY <1>1, <4>2 DEF i
        <5> QED BY <2>4, <3>3, <4>2, <5>1
      <4> QED BY <4>1, <4>2
    <3>6. Kept(m, d.slots, d.errors)
      <4>1. ASSUME NEW j \in 1..NumFiles, d.slots[j] # <<>>
            PROVE  /\ Len(d.slots[j]) = 1 /\ Len(d.slots[j][1]) = Len(module.files[j].writes)
                   /\ Resolves(m, module.files[j].writes, d.slots[j][1])
        <5>1. CASE j = i
          <6>1. d.slots[i][1] = r.ids /\ Len(d.slots[i]) = 1
            BY <3>3
          <6>2. Len(r.ids) = Len(ws)
            BY <1>2, <2>6
          <6> QED BY <1>2, <5>1, <6>1, <6>2 DEF ws
        <5>2. CASE j # i
          BY <1>4, <3>3, <4>1, <5>2 DEF Kept
        <5> QED BY <5>1, <5>2
      <4> QED BY <1>4, <3>2, <3>3, <4>1 DEF Kept
    <3> HIDE DEF D
    <3>7. Reported(d.errors) = D(i) /\ RisingFiles(d.errors)
      BY <2>3, <3>2, <3>4
    <3>8. CollectedTo(i, d.slots, d.warnings, d.errors)
      BY <2>1, <2>2, <3>2, <3>5, <3>7 DEF CollectedTo, D, i
    <3>9. Range(d.warnings) \subseteq 1..NumFiles
      BY <2>1, <3>2
    <3> QED BY <1>1, <1>4, <1>5, <3>2, <3>6, <3>8, <3>9 DEF Collected, d, r
  <2> QED BY <1>8, <2>5, <2>6
<1> QED BY <1>2, <1>4, <1>6, <1>7, <1>8 DEF Ends

(* All of them.                                                            *)
LEMMA CollectAll ==
    ASSUME Setup, NEW m, NEW lo, NEW R, Rewritten(m, lo, R), NEW start,
           Collected(m, lo, R, 0, start)
    PROVE  Collected(m, lo, R, Len(R), Collecting(start, R)[Len(R)])
<1> DEFINE n == Len(R)
           a == Collecting(start, R)
           S == {k \in 0..n : Collected(m, lo, R, k, a[k])}
<1>1. n \in Nat /\ NumFiles \in Nat /\ lo \in Nat /\ lo + n <= NumFiles /\ R \in Seq(Results)
  BY SetupIs DEF Rewritten
<1>2. \A k \in 1..n : R[k].file \in 1..NumFiles
  BY <1>1 DEF Rewritten
<1>3. start \in CollectAccs
  BY DEF Collected
<1>4. a[0] = start /\ \A k \in 1..n : a[k] = Collect(a[k - 1], R[k])
  BY <1>1, <1>2, <1>3, CollectingIs
<1> HIDE DEF a, n
<1>5. 0 \in S
  BY <1>1, <1>4
<1>6. ASSUME NEW k \in 1..n, k - 1 \in S PROVE k \in S
  <2>1. Collected(m, lo, R, k - 1, a[k - 1])
    BY <1>6
  <2>2. Collected(m, lo, R, k, Collect(a[k - 1], R[k]))
    BY <2>1, CollectStep DEF n
  <2> QED BY <1>1, <1>4, <2>2
<1> HIDE DEF S
<1>7. \A k \in 0..n : k \in S
  BY <1>1, <1>5, <1>6, Induct
<1>8. n \in S
  BY <1>1, <1>7
<1> QED BY <1>8 DEF S, n, a

-----------------------------------------------------------------------------
(***************************************************************************)
(* What a step that keeps the module, the base tables and the pool keeps.  *)
(***************************************************************************)
Same == module' = module /\ threads' = threads /\ base' = base

(* The plan and the sequential run.                                        *)
LEMMA SameModule ==
    ASSUME Same
    PROVE  /\ NumFiles' = NumFiles /\ Sequentially' = Sequentially /\ Sequential' = Sequential
           /\ Plan' = Plan /\ Chunks' = Chunks /\ NumChunks' = NumChunks
           /\ BaseLen' = BaseLen /\ (Setup' <=> Setup)
           /\ \A c : LastFile(c)' = LastFile(c)
<1>1. NumFiles' = NumFiles
  BY DEF Same, NumFiles
<1>2. Sequentially' = Sequentially
  BY DEF Same, Sequentially, NumFiles
<1>3. Plan' = Plan
  BY DEF Same, Plan, ChunkPlan, NumFiles, Strategy, ChunkCount
<1>4. Chunks' = Chunks /\ NumChunks' = NumChunks /\ \A c : LastFile(c)' = LastFile(c)
  BY <1>3 DEF Chunks, NumChunks, LastFile
<1>5. Sequential' = Sequential
  BY <1>1, <1>2 DEF Sequential
<1>6. BaseLen' = BaseLen /\ (Setup' <=> Setup)
  BY DEF Same, BaseLen, Setup
<1> QED BY <1>1, <1>2, <1>3, <1>4, <1>5, <1>6

(* What is known of a worker.                                              *)
LEMMA SameFork ==
    ASSUME Same
    PROVE  /\ \A t : Forked(t)' <=> Forked(t)
           /\ \A w, c : ForkIs(w, c)' <=> ForkIs(w, c)
           /\ \A w, c : ForkLock(w, c)' <=> ForkLock(w, c)
<1>1. \A t : Forked(t)' <=> Forked(t)
  BY DEF Same, Forked
<1>2. \A t, l : Merge(t, l)' = Merge(t, l)
  BY DEF Same, Merge, StringsAt, MergeStrings, MergePaths, MergingStrings, MergingPaths, BaseLen
<1>3. \A t, l : MergeFull(t, l)' = MergeFull(t, l)
  BY <1>2 DEF MergeFull
<1>4. \A t, l : Merged(t, l)' = Merged(t, l)
  BY <1>2 DEF Same, Merged, MergeStrings, MergingStrings, BaseLen
<1>5. \A t, l, m : InStep(t, l, m)' <=> InStep(t, l, m)
  BY <1>1, <1>3, <1>4 DEF InStep
<1>6. \A w : (AsWritten(w)' <=> AsWritten(w)) /\ (HasFailed(w)' <=> HasFailed(w))
  BY DEF Same, AsWritten, HasFailed
<1>7. \A t, r : ResultIs(t, r)' <=> ResultIs(t, r)
  BY SameModule DEF Same, ResultIs
<1>8. \A w, c : ForkIs(w, c)' <=> ForkIs(w, c)
  BY <1>1, <1>7, SameModule DEF ForkIs
<1>9. \A w, c : ForkLock(w, c)' <=> ForkLock(w, c)
  BY <1>3, <1>5, <1>6, SameModule DEF ForkLock
<1> QED BY <1>1, <1>8, <1>9

(* What is known of the outputs.                                           *)
LEMMA SameKept ==
    ASSUME Same
    PROVE  \A t, o, e : Kept(t, o, e)' <=> Kept(t, o, e)
BY SameModule DEF Same, Kept

(* What is known of the collected files.                                   *)
LEMMA SameCollected ==
    ASSUME Same, work' = work
    PROVE  /\ \A i : HandedOver(i)' = HandedOver(i)
           /\ \A n, o, w, e : CollectedTo(n, o, w, e)' <=> CollectedTo(n, o, w, e)
           /\ \A n, t : Tracks(n, t)' <=> Tracks(n, t)
<1>1. \A i : ChunkOf(i)' = ChunkOf(i)
  BY SameModule DEF ChunkOf
<1>2. \A i : HandedOver(i)' = HandedOver(i)
  BY <1>1, SameModule DEF HandedOver
<1>3. \A n, o, w, e : CollectedTo(n, o, w, e)' <=> CollectedTo(n, o, w, e)
  BY <1>2, SameModule DEF Same, CollectedTo
<1>4. \A n, t : Tracks(n, t)' <=> Tracks(n, t)
  BY <1>2, SameModule DEF Same, Tracks
<1> QED BY <1>2, <1>3, <1>4

(* Nothing collected is lost when tables grow.                             *)
LEMMA KeptExtends ==
    ASSUME NEW t, NEW u, Sound(t), Sound(u), Extends(t, u), NEW out, NEW errs, Kept(t, out, errs)
    PROVE  Kept(u, out, errs)
<1>1. \A writes, ids : Resolves(t, writes, ids) => Resolves(u, writes, ids)
  BY ResolvesExtends
<1> QED BY <1>1 DEF Kept

-----------------------------------------------------------------------------
(***************************************************************************)
(* The initial states.                                                     *)
(***************************************************************************)

(* Merging a fork that nothing was added to changes nothing.               *)
LEMMA MergeNothing ==
    ASSUME Sound(base), NEW t, Forked(t)
    PROVE  InStep(t, base, t)
<1> DEFINE ls == base.strings
           lp == base.paths
           ms == MergeStrings(t.strings, ls).strings
           rs == StringsAt(t, base)
<1>1. /\ Forked(base) /\ t \in Tables /\ Sound(t) /\ base \in Tables
      /\ ls \in Seq(Words) /\ t.strings \in Seq(Words) /\ Distinct(t.strings)
      /\ Prefix(ls, t.strings) /\ Prefix(ls, ls)
  <2>1. base \in Tables /\ Extends(base, base)
    BY ExtendsSelf DEF Sound
  <2> QED BY <2>1 DEF Forked, Sound, Tables, Extends
<1>2. /\ BaseLen.strings = Len(ls) /\ BaseLen.paths = Len(lp)
      /\ Len(ls) \in Nat /\ Len(lp) \in Nat /\ Len(lp) >= 1
  BY BaseIs
<1>3. ms = t.strings
  <2> DEFINE r == MergingStrings(t.strings, ls)
  <2>1. /\ r \in [0..Len(ls) -> Grown(t.strings)] /\ r[0] = t.strings
        /\ \A k \in 1..Len(ls) : /\ k <= BaseLen.strings => r[k] = t.strings
                                 /\ k > BaseLen.strings => r[k] = Interned(r[k - 1], ls[k])
    BY <1>1, MergingStringsIs
  <2>2. ms = r[Len(ls)]
    BY <1>1, MergeStringsIs
  <2> HIDE DEF r, ms
  <2>3. r[Len(ls)] = t.strings
    BY <1>2, <2>1
  <2> QED BY <2>2, <2>3
<1>4. Ready(t, base, ms, rs)
  BY <1>1, MergeReady
<1> DEFINE x == [paths |-> t.paths, full |-> FALSE, remap |-> [i \in 1..BaseLen.paths |-> i]]
           q == MergingPaths(t.paths, lp, rs)
<1>5. q[Len(lp)] = x
  <2> HIDE DEF ms, rs
  <2>1. \A k \in 0..Len(lp) :
          /\ q[k] \in Stage(k, t.paths, lp, ms, rs)
          /\ k <= BaseLen.paths => q[k] = x
          /\ k > BaseLen.paths => q[k] = MergeNode(q[k - 1], lp[k], rs)
    BY <1>4, MergingPathsIs
  <2> HIDE DEF q, x
  <2> QED BY <1>2, <2>1
<1>6. Merge(t, base) = x
  BY <1>5 DEF Merge, MergePaths
<1>7. Merge(t, base).full = FALSE /\ Merge(t, base).paths = t.paths
  BY <1>6
<1> HIDE DEF ms
<1>8. Merged(t, base) = [strings |-> t.strings, paths |-> t.paths]
  BY <1>3, <1>7 DEF Merged, ms
<1>9. t = [strings |-> t.strings, paths |-> t.paths]
  BY <1>1 DEF Tables
<1> QED BY <1>1, <1>7, <1>8, <1>9 DEF InStep, MergeFull

(* A module about to be prepared.                                          *)
LEMMA InitInvariant == Init => IInv
<1> SUFFICES ASSUME Init PROVE IInv
  OBVIOUS
<1>1. Setup /\ tables = base /\ arrived = <<>> /\ merged = 0 /\ phase = "preparing"
      /\ warnings = <<>> /\ errors = <<>> /\ slots = [i \in 1..NumFiles |-> <<>>]
      /\ work = [c \in Chunks |-> [tables |-> base, at |-> Plan[c].first, results |-> <<>>]]
  BY DEF Init, Setup
<1>2. Sound(base) /\ Forked(base) /\ NumFiles \in Nat
  BY <1>1, SetupIs
<1>3. Forks
  <2>1. DOMAIN work = Chunks
    BY <1>1
  <2>2. ASSUME NEW c \in Chunks PROVE ForkIs(work[c], c) /\ ForkLock(work[c], c)
    <3> DEFINE w == work[c]
               lo == LastFile(c - 1)
               hi == LastFile(c)
    <3>1. w.tables = base /\ w.at = Plan[c].first /\ w.results = <<>>
      BY <1>1
    <3>2. /\ lo \in 0..NumFiles /\ lo \in Nat /\ hi \in Nat /\ lo <= hi
          /\ Plan[c].first = lo + 1 /\ Plan[c].last = hi
      <4>1. c \in 1..NumChunks /\ NumChunks \in Nat
        BY <1>1, PlanIs DEF Setup
      <4>2. c - 1 \in 0..NumChunks /\ c \in 0..NumChunks
        BY <4>1
      <4>3. lo \in 0..NumFiles /\ hi \in 0..NumFiles
        BY <1>1, <4>2, PlanIs DEF Setup
      <4> QED BY <1>1, <4>1, <4>3, PlanIs DEF Setup
    <3> HIDE DEF w, lo, hi
    <3>3. ForkIs(w, c)
      <4>1. w.at = lo + 1 /\ Len(w.results) = 0 /\ w.results \in Seq(Results)
        BY <3>1, <3>2
      <4>2. /\ w.at \in Nat /\ Plan[c].first <= w.at /\ w.at <= Plan[c].last + 1
            /\ Len(w.results) = w.at - Plan[c].first
        BY <3>2, <4>1
      <4> QED BY <1>2, <3>1, <4>1, <4>2 DEF ForkIs
    <3>4. ForkLock(w, c)
      <4>1. w.at - 1 = lo
        BY <3>1, <3>2
      <4>2. Forked(Sequentially[lo].tables)
        BY <1>1, <1>2, <3>2, SequentialGrows DEF Forked, Setup
      <4>3. InStep(Sequentially[lo].tables, w.tables, Sequentially[w.at - 1].tables)
        BY <1>2, <3>1, <4>1, <4>2, MergeNothing
      <4>4. AsWritten(w)
        BY <3>1 DEF AsWritten
      <4> QED BY <4>1, <4>3, <4>4 DEF ForkLock, lo
    <3> QED BY <3>3, <3>4 DEF w
  <2> QED BY <2>1, <2>2 DEF Forks
<1>4. Arrivals
  BY <1>1 DEF Arrivals, Distinct
<1>5. Merging
  <2>1. slots \in [1..NumFiles -> Seq(Seq(Nat))] /\ \A i \in 1..NumFiles : slots[i] = <<>>
    BY <1>1
  <2>2. Kept(tables, slots, errors)
    BY <1>1, <2>1 DEF Kept
  <2>3. Range(warnings) \subseteq 1..NumFiles /\ merged \in 0..Len(arrived)
    BY <1>1 DEF Range
  <2> QED BY <1>1, <1>2, <2>1, <2>2, <2>3 DEF Merging
<1>6. MergeIsSequential /\ AcceptanceIsPlanIndependent
  BY <1>1 DEF MergeIsSequential, AcceptanceIsPlanIndependent, Ended
<1> QED BY <1>1, <1>3, <1>4, <1>5, <1>6 DEF IInv

-----------------------------------------------------------------------------
(***************************************************************************)
(* The steps of the workers.                                               *)
(***************************************************************************)
(* A worker prepares its next file.                                        *)
LEMMA PrepareFileInvariant ==
    ASSUME IInv, NEW c \in Chunks, PrepareFile(c)
    PROVE  IInv'
<1> DEFINE w == work[c]
           p == Prepared(w.tables, w.at)
           d == [tables |-> p.tables, at |-> w.at + 1, results |-> Append(w.results, p.result)]
<1>1. /\ Same /\ tables' = tables /\ arrived' = arrived /\ merged' = merged /\ slots' = slots
      /\ warnings' = warnings /\ errors' = errors /\ phase' = phase /\ phase = "preparing"
      /\ w.at <= Plan[c].last /\ work' = [work EXCEPT ![c] = d]
  BY DEF PrepareFile, Same
<1>2. Setup /\ Forks /\ Arrivals /\ Merging
  BY DEF IInv
<1>3. ForkIs(w, c) /\ ForkLock(w, c) /\ DOMAIN work = Chunks
  BY <1>2 DEF Forks
<1>4. ForkIs(d, c) /\ ForkLock(d, c)
  BY <1>1, <1>2, <1>3, ForkStep
<1> HIDE DEF d
<1>5. work'[c] = d /\ DOMAIN work' = Chunks /\ \A e \in Chunks : e # c => work'[e] = work[e]
  BY <1>1, <1>3
<1>6. Forks'
  <2>1. \A e \in Chunks : ForkIs(work'[e], e) /\ ForkLock(work'[e], e)
    BY <1>2, <1>4, <1>5 DEF Forks
  <2> QED BY <1>1, <1>5, <2>1, SameModule, SameFork DEF Forks
<1>7. Arrivals'
  <2>1. ASSUME NEW i \in 1..Len(arrived)
        PROVE  work'[arrived[i]].at > Plan[arrived[i]].last
    <3>1. arrived[i] \in Chunks /\ work[arrived[i]].at > Plan[arrived[i]].last
      BY <1>2 DEF Arrivals
    <3>2. arrived[i] # c
      <4> SUFFICES ASSUME arrived[i] = c PROVE FALSE
        OBVIOUS
      <4>1. w.at \in Nat /\ Plan[c].last \in Nat
        <5>1. Plan[c].last = LastFile(c) /\ NumFiles \in Nat /\ c \in 0..NumChunks
          BY <1>2, PlanIs DEF Setup
        <5>2. LastFile(c) \in 0..NumFiles
          BY <1>2, <5>1, PlanIs DEF Setup
        <5> QED BY <1>3, <5>1, <5>2 DEF ForkIs
      <4> QED BY <1>1, <3>1, <4>1
    <3> QED BY <1>5, <3>1, <3>2
  <2> QED BY <1>1, <1>2, <2>1, SameModule DEF Arrivals, Distinct
<1>8. Merging'
  <2>1. Kept(tables, slots, errors)' /\ Forked(tables)'
    <3>1. Kept(tables', slots', errors') /\ Forked(tables')
      BY <1>1, <1>2 DEF Merging
    <3> QED BY <1>1, <3>1, SameFork, SameKept
  <2> QED BY <1>1, <1>2, <2>1, SameModule DEF Merging, Same
<1>9. (MergeIsSequential /\ AcceptanceIsPlanIndependent)'
  BY <1>1 DEF MergeIsSequential, AcceptanceIsPlanIndependent, Ended
<1> QED BY <1>1, <1>2, <1>6, <1>7, <1>8, <1>9, SameModule DEF IInv

(* A worker hands its chunk over.                                          *)
LEMMA ArriveInvariant ==
    ASSUME IInv, NEW c \in Chunks, Arrive(c)
    PROVE  IInv'
<1>1. /\ Same /\ tables' = tables /\ work' = work /\ merged' = merged /\ slots' = slots
      /\ warnings' = warnings /\ errors' = errors /\ phase' = phase /\ phase = "preparing"
      /\ work[c].at > Plan[c].last /\ arrived' = Append(arrived, c) /\ c \notin Range(arrived)
  BY DEF Arrive, Same
<1>2. Setup /\ Forks /\ Arrivals /\ Merging
  BY DEF IInv
<1>3. Forks'
  <2>1. \A e \in Chunks : ForkIs(work'[e], e) /\ ForkLock(work'[e], e)
    BY <1>1, <1>2 DEF Forks
  <2> QED BY <1>1, <1>2, <2>1, SameModule, SameFork DEF Forks
<1>4. /\ arrived \in Seq(Chunks) /\ Len(arrived) \in Nat /\ DOMAIN arrived = 1..Len(arrived)
      /\ arrived' \in Seq(Chunks) /\ Len(arrived') = Len(arrived) + 1
      /\ arrived'[Len(arrived) + 1] = c
      /\ \A i \in 1..Len(arrived) : arrived'[i] = arrived[i] /\ arrived[i] # c
  BY <1>1, <1>2 DEF Arrivals, Range
<1>5. Distinct(arrived')
  BY <1>2, <1>4 DEF Arrivals, Distinct
<1>6. Arrivals'
  <2>1. ASSUME NEW i \in 1..Len(arrived') PROVE work[arrived'[i]].at > Plan[arrived'[i]].last
    <3>1. CASE i = Len(arrived) + 1
      BY <1>1, <1>4, <3>1
    <3>2. CASE i \in 1..Len(arrived)
      BY <1>2, <1>4, <3>2 DEF Arrivals
    <3> QED BY <1>4, <3>1, <3>2
  <2> QED BY <1>1, <1>4, <1>5, <2>1, SameModule DEF Arrivals, Distinct
<1>7. Merging'
  <2>1. Kept(tables, slots, errors)' /\ Forked(tables)'
    <3>1. Kept(tables', slots', errors') /\ Forked(tables')
      BY <1>1, <1>2 DEF Merging
    <3> QED BY <1>1, <3>1, SameFork, SameKept
  <2>2. merged' \in 0..Len(arrived')
    BY <1>1, <1>2, <1>4 DEF Merging
  <2> QED BY <1>1, <1>2, <2>1, <2>2, SameModule DEF Merging, Same
<1>8. (MergeIsSequential /\ AcceptanceIsPlanIndependent)'
  BY <1>1 DEF MergeIsSequential, AcceptanceIsPlanIndependent, Ended
<1> QED BY <1>1, <1>2, <1>3, <1>6, <1>7, <1>8, SameModule DEF IInv

(* The join neither finds a chunk twice nor a fork of another prefix.      *)
LEMMA JoinedInvariant ==
    ASSUME IInv, Joined
    PROVE  IInv'
<1>1. /\ Same /\ tables' = tables /\ work' = work /\ merged' = merged /\ slots' = slots
      /\ warnings' = warnings /\ errors' = errors /\ phase = "preparing"
      /\ arrived' = arrived /\ Len(arrived) = NumChunks
  BY DEF Joined, Same, NumChunks
<1>2. Setup /\ Forks /\ Arrivals /\ Merging
  BY DEF IInv
<1>3. /\ merged = 0 /\ tables = base /\ warnings = <<>> /\ errors = <<>>
      /\ \A i \in 1..NumFiles : slots[i] = <<>>
  BY <1>1, <1>2 DEF Merging
<1>4. phase' = "merging"
  <2>1. \A i, j \in DOMAIN arrived : arrived[i] = arrived[j] => i = j
    BY <1>2 DEF Arrivals, Distinct
  <2>2. BaseLen.paths = Len(tables.paths)
    BY <1>3 DEF BaseLen
  <2> QED BY <2>1, <2>2 DEF Joined
<1>5. Forks'
  <2>1. \A e \in Chunks : ForkIs(work'[e], e) /\ ForkLock(work'[e], e)
    BY <1>1, <1>2 DEF Forks
  <2> QED BY <1>1, <1>2, <2>1, SameModule, SameFork DEF Forks
<1>6. Arrivals'
  BY <1>1, <1>2, SameModule DEF Arrivals, Distinct
<1>7. NumFiles \in Nat /\ LastFile(0) = 0 /\ module \in Modules /\ Sound(base)
  BY <1>2, PlanIs, SetupIs DEF Setup
<1>8. CollectedTo(0, slots, warnings, errors)
  <2>1. warnings \in Seq(Nat) /\ Ascending(warnings) /\ Range(warnings) = {}
    BY <1>3 DEF Ascending, Range
  <2>2. RisingFiles(errors) /\ Reported(errors) = {}
    BY <1>3 DEF RisingFiles, Reported
  <2>3. \A i \in 1..NumFiles : ~(i <= 0)
    BY <1>7
  <2> QED BY <1>3, <1>7, <2>1, <2>2, <2>3 DEF CollectedTo
<1>9. Tracks(0, tables)
  <2>1. Sequentially[0] = [tables |-> base, full |-> FALSE]
    BY <1>7, SequentiallyIs
  <2>2. Sequentially[0].tables = base /\ ~Sequentially[0].full
    BY <2>1
  <2> QED BY <1>3, <2>2 DEF Tracks
<1>10. Merging'
  <2>1. Kept(tables, slots, errors)' /\ Forked(tables)'
    <3>1. Kept(tables', slots', errors') /\ Forked(tables')
      BY <1>1, <1>2 DEF Merging
    <3> QED BY <1>1, <3>1, SameFork, SameKept
  <2>2. (CollectedTo(LastFile(merged), slots, warnings, errors) /\ Tracks(LastFile(merged), tables))'
    <3>1. LastFile(merged)' = 0
      BY <1>1, <1>3, <1>7, SameModule DEF LastFile
    <3>2. CollectedTo(0, slots', warnings', errors') /\ Tracks(0, tables')
      BY <1>1, <1>8, <1>9
    <3> QED BY <1>1, <3>1, <3>2, SameCollected
  <2> QED BY <1>1, <1>2, <1>4, <2>1, <2>2, SameModule DEF Merging, Same
<1>11. (MergeIsSequential /\ AcceptanceIsPlanIndependent)'
  BY <1>4 DEF MergeIsSequential, AcceptanceIsPlanIndependent, Ended
<1> QED BY <1>1, <1>2, <1>5, <1>6, <1>10, <1>11, SameModule DEF IInv

-----------------------------------------------------------------------------
(***************************************************************************)
(* The merge of the next chunk.                                            *)
(***************************************************************************)

(* The chunk that is merged next, and what its worker left.                *)
LEMMA NextChunk ==
    ASSUME IInv, phase = "merging", merged < Len(arrived)
    PROVE  LET c == merged + 1
           IN /\ MergeOrder[c] = c /\ c \in Chunks /\ merged \in Nat /\ merged = c - 1
              /\ LastFile(merged) \in 0..NumFiles /\ LastFile(c) \in 0..NumFiles
              /\ LastFile(merged) <= LastFile(c)
              /\ ForkIs(work[c], c) /\ ForkLock(work[c], c)
              /\ Len(work[c].results) = LastFile(c) - LastFile(merged)
              /\ work[c].at = LastFile(c) + 1
              /\ \A k \in 1..Len(work[c].results) :
                   HandedOver(LastFile(merged) + k) = work[c].results[k]
<1> DEFINE c == merged + 1
<1>1. Setup /\ Forks /\ Arrivals /\ Merging
  BY DEF IInv
<1>2. /\ Len(arrived) = NumChunks /\ NumChunks \in Nat /\ Chunks = 1..NumChunks
      /\ merged \in 0..Len(arrived)
  BY <1>1, PlanIs DEF Arrivals, Merging, Setup
<1>3. c \in 1..NumChunks /\ merged \in Nat /\ merged = c - 1 /\ c \in Chunks
      /\ merged \in 0..NumChunks /\ c \in 0..NumChunks
  BY <1>2
<1> HIDE DEF c
<1>4. MergeOrder[c] = c
  BY <1>1, <1>2, <1>3, MergeOrderIs
<1>5. /\ LastFile(merged) \in 0..NumFiles /\ LastFile(c) \in 0..NumFiles
      /\ LastFile(c - 1) <= LastFile(c)
  BY <1>1, <1>3, PlanIs DEF Setup
<1>6. work[c].at > Plan[c].last
  <2>1. arrived \in Seq(1..NumChunks) /\ Distinct(arrived)
    BY <1>1, <1>2 DEF Arrivals
  <2>2. DOMAIN arrived = 1..NumChunks /\ Range(arrived) = 1..NumChunks
    BY <1>2, <2>1, Everyone
  <2>3. PICK i \in 1..NumChunks : arrived[i] = c
    BY <1>3, <2>2 DEF Range
  <2> QED BY <1>1, <1>2, <2>3 DEF Arrivals
<1>7. /\ Len(work[c].results) = LastFile(c) - LastFile(c - 1)
      /\ work[c].at = LastFile(c) + 1
      /\ \A k \in 1..Len(work[c].results) :
           HandedOver(LastFile(c - 1) + k) = work[c].results[k]
  BY <1>1, <1>3, <1>6, HandedIs
<1>8. ForkIs(work[c], c) /\ ForkLock(work[c], c)
  BY <1>1, <1>3 DEF Forks
<1> QED BY <1>3, <1>4, <1>5, <1>7, <1>8 DEF c

(* A merge that overflows does so because the module's paths do not fit.   *)
LEMMA FullIsFull ==
    ASSUME IInv, phase = "merging", merged < Len(arrived),
           MergeFull(tables, work[merged + 1].tables)
    PROVE  Sequential.full
<1> DEFINE c == merged + 1
           lo == LastFile(merged)
           hi == LastFile(c)
<1>1. /\ c - 1 = merged /\ lo \in 0..NumFiles /\ hi \in 0..NumFiles /\ lo <= hi
      /\ ForkLock(work[c], c) /\ work[c].at = hi + 1
  BY NextChunk
<1>2. Setup /\ module \in Modules /\ Sound(base) /\ NumFiles \in Nat
  BY SetupIs DEF IInv, Setup
<1>3. Tracks(lo, tables)
  BY DEF IInv, Merging
<1> HIDE DEF lo, hi
<1>4. /\ Sequentially[lo].full => Sequential.full
      /\ Sequentially[hi].full => Sequential.full
  <2>1. NumFiles \in 0..NumFiles /\ lo \in 0..NumFiles /\ hi \in 0..NumFiles
    BY <1>1, <1>2
  <2> QED BY <1>2, <2>1, SequentialGrows DEF Sequential
<1>5. CASE ~Sequentially[lo].full
  <2>1. tables = Sequentially[lo].tables
    BY <1>3, <1>5 DEF Tracks
  <2>2. work[c].at - 1 = hi
    BY <1>1, <1>2
  <2>3. Sequentially[hi].full
    BY <1>1, <1>5, <2>1, <2>2 DEF ForkLock, lo, InStep
  <2> QED BY <1>4, <2>3
<1> QED BY <1>4, <1>5

(* The merged tables keep up with the sequential run.                      *)
LEMMA TracksNext ==
    ASSUME IInv, phase = "merging", merged < Len(arrived),
           ~MergeFull(tables, work[merged + 1].tables)
    PROVE  Tracks(LastFile(merged + 1), Merged(tables, work[merged + 1].tables))
<1> DEFINE c == merged + 1
           w == work[c]
           lo == LastFile(merged)
           hi == LastFile(c)
           m == Merged(tables, w.tables)
           n == Len(w.results)
<1>1. /\ c - 1 = merged /\ lo \in 0..NumFiles /\ hi \in 0..NumFiles /\ lo <= hi
      /\ ForkIs(w, c) /\ ForkLock(w, c) /\ n = hi - lo /\ w.at = hi + 1
      /\ \A k \in 1..n : HandedOver(lo + k) = w.results[k]
  BY NextChunk
<1>2. Setup /\ module \in Modules /\ Sound(base) /\ NumFiles \in Nat
  BY SetupIs DEF IInv, Setup
<1>3. Tracks(lo, tables)
  BY DEF IInv, Merging
<1>4. \A k \in 1..n : w.results[k].file = lo + k
  BY <1>1 DEF ForkIs
<1> HIDE DEF w, lo, hi, n
<1>5. Sequentially[lo].full => Sequentially[hi].full
  <2>1. lo \in 0..hi
    BY <1>1, <1>2
  <2> QED BY <1>1, <1>2, <2>1, SequentialGrows
<1>6. w.at - 1 = hi /\ lo \in Nat /\ hi \in Nat
  BY <1>1, <1>2
<1>7. ~Sequentially[lo].full => tables = Sequentially[lo].tables
  BY <1>3 DEF Tracks
<1>8. ~Sequentially[lo].full =>
        \/ /\ InStep(tables, w.tables, Sequentially[hi].tables)
           /\ ~Sequentially[hi].full /\ AsWritten(w)
        \/ Sequentially[hi].full /\ HasFailed(w)
  <2>1. ~MergeFull(tables, w.tables)
    BY DEF w
  <2> QED BY <1>1, <1>6, <1>7, <2>1 DEF ForkLock, lo
<1>9. ASSUME ~Sequentially[hi].full
      PROVE  m = Sequentially[hi].tables /\ \A i \in 1..hi : HandedOver(i).ends = module.files[i].ends
  <2>1. InStep(tables, w.tables, Sequentially[hi].tables) /\ AsWritten(w)
    BY <1>5, <1>8, <1>9
  <2>2. m = Sequentially[hi].tables
    BY <2>1 DEF InStep
  <2>3. ASSUME NEW i \in 1..hi PROVE HandedOver(i).ends = module.files[i].ends
    <3>1. CASE i <= lo
      <4>1. i \in 1..lo
        BY <1>6, <3>1
      <4> QED BY <1>3, <1>5, <1>9, <4>1 DEF Tracks
    <3>2. CASE ~(i <= lo)
      <4>1. i - lo \in 1..n /\ lo + (i - lo) = i
        BY <1>1, <1>6, <3>2
      <4>2. HandedOver(i) = w.results[i - lo] /\ w.results[i - lo].file = i
        BY <1>1, <1>4, <4>1
      <4>3. w.results[i - lo].ends = module.files[w.results[i - lo].file].ends
        BY <2>1, <4>1 DEF AsWritten, n
      <4> QED BY <4>2, <4>3
    <3> QED BY <3>1, <3>2
  <2> QED BY <2>2, <2>3
<1>10. ASSUME Sequentially[hi].full
       PROVE  \E i \in 1..hi : HandedOver(i).ends \in Failures
  <2>1. CASE Sequentially[lo].full
    <3>1. PICK i \in 1..lo : HandedOver(i).ends \in Failures
      BY <1>3, <2>1 DEF Tracks
    <3>2. i \in 1..hi
      BY <1>1, <1>6
    <3> QED BY <3>1, <3>2
  <2>2. CASE ~Sequentially[lo].full
    <3>1. HasFailed(w)
      BY <1>8, <1>10, <2>2
    <3>2. PICK k \in 1..n : w.results[k].ends \in Failures
      BY <3>1 DEF HasFailed, n
    <3>3. lo + k \in 1..hi /\ HandedOver(lo + k) = w.results[k]
      BY <1>1, <1>6
    <3> QED BY <3>2, <3>3
  <2> QED BY <2>1, <2>2
<1> HIDE DEF m
<1>11. Tracks(hi, m)
  BY <1>9, <1>10 DEF Tracks
<1> QED BY <1>11 DEF hi, m, w

(* What the merge of the next chunk leaves when its paths fit.             *)
NextResults(c) ==
    [ k \in DOMAIN work[c].results |->
        RemapOutput(work[c].results[k], StringsAt(tables, work[c].tables),
                    PathsAt(tables, work[c].tables)) ]

NextFrozen(c) ==
    [ i \in 1..NumFiles |->
        \A k \in DOMAIN NextResults(c) :
          NextResults(c)[k].file = i => Frozen(Merged(tables, work[c].tables), NextResults(c)[k]) ]

NextStart(c) ==
    [ slots |-> slots, warnings |-> warnings, errors |-> errors, frozen |-> NextFrozen(c),
      end |-> "merging" ]

NextAll(c) == Collecting(NextStart(c), NextResults(c))[Len(NextResults(c))]

(* The next chunk's results are rewritten and collected.                   *)
LEMMA CollectNext ==
    ASSUME IInv, phase = "merging", merged < Len(arrived),
           ~MergeFull(tables, work[merged + 1].tables)
    PROVE  LET c == merged + 1
           IN /\ Rewritten(Merged(tables, work[c].tables), LastFile(merged), NextResults(c))
              /\ Len(NextResults(c)) = LastFile(c) - LastFile(merged)
              /\ Collected(Merged(tables, work[c].tables), LastFile(merged), NextResults(c),
                           Len(NextResults(c)), NextAll(c))
<1> DEFINE c == merged + 1
           w == work[c]
           l == w.tables
           lo == LastFile(merged)
           hi == LastFile(c)
           m == Merged(tables, l)
           n == Len(w.results)
           R == NextResults(c)
<1>1. /\ c - 1 = merged /\ lo \in 0..NumFiles /\ hi \in 0..NumFiles /\ lo <= hi
      /\ ForkIs(w, c) /\ n = hi - lo /\ \A k \in 1..n : HandedOver(lo + k) = w.results[k]
  BY NextChunk
<1>2. Setup /\ Sound(base) /\ NumFiles \in Nat
  BY SetupIs DEF IInv
<1>3. /\ Forked(tables) /\ Kept(tables, slots, errors) /\ Range(warnings) \subseteq 1..NumFiles
      /\ CollectedTo(lo, slots, warnings, errors)
  BY DEF IInv, Merging
<1>4. /\ Forked(l) /\ w.results \in Seq(Results)
      /\ \A k \in 1..n : ResultIs(l, w.results[k]) /\ w.results[k].file = lo + k
  BY <1>1 DEF ForkIs
<1>5. Sound(tables) /\ Sound(m) /\ Extends(tables, m)
  BY <1>2, <1>3, <1>4, MergeIs DEF Forked
<1>6. DOMAIN w.results = 1..n /\ n \in Nat /\ lo \in Nat
  BY <1>1, <1>2, <1>4
<1>7. ~MergeFull(tables, l)
  OBVIOUS
<1>8. R = [k \in 1..n |-> RemapOutput(w.results[k], StringsAt(tables, l), PathsAt(tables, l))]
  BY <1>6 DEF NextResults
<1> HIDE DEF c, w, l, lo, hi, m, n, R
<1>9. ASSUME NEW k \in 1..n
      PROVE  /\ R[k] \in Results /\ R[k].file = lo + k /\ R[k].ends = w.results[k].ends
             /\ Len(R[k].ids) = Len(w.results[k].ids)
             /\ Resolves(m, module.files[lo + k].writes, R[k].ids)
             /\ Frozen(m, R[k])
  <2> DEFINE r == w.results[k]
             d == RemapOutput(r, StringsAt(tables, l), PathsAt(tables, l))
  <2>1. ResultIs(l, r) /\ r.file = lo + k
    BY <1>4
  <2>2. R[k] = d
    BY <1>8
  <2>3. /\ d \in Results /\ d.file = r.file /\ d.ends = r.ends /\ Len(d.ids) = Len(r.ids)
        /\ Resolves(Merged(tables, l), module.files[r.file].writes, d.ids)
        /\ Frozen(Merged(tables, l), d)
    <3> HIDE DEF r
    <3> QED BY <1>2, <1>3, <1>4, <1>7, <2>1, RemapOutputIs
  <2> HIDE DEF d
  <2> QED BY <2>1, <2>2, <2>3 DEF m
<1>10. R \in Seq(Results) /\ Len(R) = n /\ DOMAIN R = 1..n
  <2>1. R \in [1..n -> Results]
    BY <1>8, <1>9
  <2> QED BY <1>6, <2>1
<1>11. Rewritten(m, lo, R)
  <2>1. ASSUME NEW k \in 1..Len(R)
        PROVE  /\ R[k].file = lo + k /\ R[k].ends = HandedOver(lo + k).ends
               /\ Resolves(m, module.files[lo + k].writes, R[k].ids)
               /\ R[k].ends = "ok" => Len(R[k].ids) = Len(module.files[lo + k].writes)
    <3>1. k \in 1..n
      BY <1>10
    <3>2. /\ ResultIs(l, w.results[k]) /\ w.results[k].file = lo + k
          /\ HandedOver(lo + k) = w.results[k]
      BY <1>1, <1>4, <3>1
    <3>3. w.results[k].ends = "ok" =>
            Len(w.results[k].ids) = Len(module.files[lo + k].writes)
      BY <3>2 DEF ResultIs
    <3> QED BY <1>9, <3>1, <3>2, <3>3
  <2>2. lo + Len(R) <= NumFiles
    BY <1>1, <1>2, <1>6, <1>10
  <2> QED BY <1>6, <1>10, <2>1, <2>2 DEF Rewritten
<1>12. Collected(m, lo, R, 0, NextStart(c))
  <2> DEFINE z == NextFrozen(c)
             v == NextStart(c)
  <2>1. z = [i \in 1..NumFiles |-> \A k \in DOMAIN R : R[k].file = i => Frozen(m, R[k])]
    BY DEF NextFrozen, R, m, l, w
  <2>2. \A k \in DOMAIN R : Frozen(m, R[k])
    BY <1>9, <1>10
  <2>3. z = [i \in 1..NumFiles |-> TRUE]
    <3> DEFINE B(i) == \A k \in DOMAIN R : R[k].file = i => Frozen(m, R[k])
    <3>1. \A i : B(i) = TRUE
      BY <2>2
    <3>2. z = [i \in 1..NumFiles |-> B(i)]
      BY <2>1
    <3> HIDE DEF B, z
    <3> QED BY <3>1, <3>2
  <2> HIDE DEF z
  <2>4. z \in [1..NumFiles -> BOOLEAN] /\ \A i \in 1..NumFiles : z[i]
    BY <2>3
  <2>5. /\ v.slots = slots /\ v.warnings = warnings /\ v.errors = errors /\ v.frozen = z
        /\ v.end = "merging"
    BY DEF NextStart, z
  <2>6. v \in CollectAccs
    <3>1. slots \in [1..NumFiles -> Seq(Seq(Nat))] /\ errors \in Seq(Errors) /\ warnings \in Seq(Nat)
      BY <1>3 DEF Kept, CollectedTo
    <3>2. v = [ slots |-> slots, warnings |-> warnings, errors |-> errors, frozen |-> z,
                end |-> "merging" ]
      BY DEF NextStart, z
    <3> HIDE DEF v
    <3> QED BY <2>4, <3>1, <3>2 DEF CollectAccs
  <2> HIDE DEF v
  <2>7. Kept(m, slots, errors)
    BY <1>3, <1>5, KeptExtends
  <2>8. lo + 0 = lo
    BY <1>6
  <2>9. Collected(m, lo, R, 0, v)
    BY <1>3, <2>4, <2>5, <2>6, <2>7, <2>8 DEF Collected
  <2> QED BY <2>9 DEF v
<1>13. Collected(m, lo, R, Len(R), Collecting(NextStart(c), R)[Len(R)])
  BY <1>2, <1>11, <1>12, CollectAll
<1> QED BY <1>1, <1>10, <1>11, <1>13 DEF NextAll, R, m, lo, hi, l, w, c

(* The merge of a chunk, in the terms of this proof.                       *)
LEMMA MergeChunkIs ==
    ASSUME IInv, MergeChunk
    PROVE  LET c == merged + 1
               l == work[c].tables
           IN /\ Same /\ work' = work /\ arrived' = arrived /\ merged' = c
              /\ phase = "merging" /\ merged < Len(arrived)
              /\ tables' = Merged(tables, l)
              /\ MergeFull(tables, l) =>
                   /\ phase' = "diagnosed" /\ errors' = <<CapacityError>>
                   /\ warnings' = <<>> /\ slots' = slots
              /\ ~MergeFull(tables, l) =>
                   /\ phase' = NextAll(c).end /\ slots' = NextAll(c).slots
                   /\ warnings' = NextAll(c).warnings /\ errors' = NextAll(c).errors
<1> DEFINE c == merged + 1
           l == work[c].tables
<1>1. phase = "merging" /\ merged < Len(arrived)
  BY DEF MergeChunk
<1>2. MergeOrder[c] = c /\ ForkIs(work[c], c)
  BY <1>1, NextChunk
<1>3. ~BaseMismatch(tables.paths, l.paths)
  <2>1. Sound(base) /\ Forked(tables) /\ Forked(l)
    BY <1>2, SetupIs DEF IInv, Merging, ForkIs
  <2> QED BY <2>1, NoBaseMismatch
<1>4. /\ Same /\ work' = work /\ arrived' = arrived /\ merged' = c
  BY DEF MergeChunk, Same
<1> HIDE DEF c
<1> DEFINE s == MergeStrings(tables.strings, l.strings)
           p == MergePaths(tables.paths, l.paths, s.remap)
           t == [strings |-> s.strings, paths |-> p.paths]
<1>5. p.full = MergeFull(tables, l) /\ t = Merged(tables, l) /\ p.remap = PathsAt(tables, l)
      /\ s.remap = StringsAt(tables, l)
  BY DEF MergeFull, Merged, Merge, StringsAt, PathsAt
<1> DEFINE results == [ k \in DOMAIN work[c].results |->
                          RemapOutput(work[c].results[k], s.remap, p.remap) ]
           frozen == [ i \in 1 .. NumFiles |->
                         \A k \in DOMAIN results : results[k].file = i => Frozen(t, results[k]) ]
           all == Collecting([ slots |-> slots, warnings |-> warnings,
                               errors |-> errors, frozen |-> frozen,
                               end |-> "merging" ], results)[Len(results)]
<1>6. IF p.full
      THEN phase' = "diagnosed" /\ errors' = <<CapacityError>> /\ warnings' = <<>>
           /\ tables' = t /\ slots' = slots
      ELSE phase' = all.end /\ tables' = t /\ slots' = all.slots
           /\ warnings' = all.warnings /\ errors' = all.errors
  <2> HIDE DEF all, t
  <2> QED BY <1>2, <1>3, Zenon DEF MergeChunk, all, t, c
<1> HIDE DEF s, p, t
<1>7. results = NextResults(c)
  BY <1>5 DEF NextResults
<1> HIDE DEF results
<1>8. frozen = NextFrozen(c)
  BY <1>5, <1>7 DEF NextFrozen
<1> HIDE DEF frozen
<1>9. all = NextAll(c)
  BY <1>7, <1>8 DEF NextAll, NextStart
<1> HIDE DEF all
<1> QED BY <1>1, <1>4, <1>5, <1>6, <1>9 DEF c

(* Merging a chunk, whether its paths fit or not.                          *)
LEMMA MergeChunkInvariant ==
    ASSUME IInv, MergeChunk
    PROVE  IInv'
<1> DEFINE c == merged + 1
           l == work[c].tables
           m == Merged(tables, l)
           a == NextAll(c)
<1>1. /\ Same /\ work' = work /\ arrived' = arrived /\ merged' = c
      /\ phase = "merging" /\ merged < Len(arrived) /\ tables' = m
      /\ MergeFull(tables, l) =>
           /\ phase' = "diagnosed" /\ errors' = <<CapacityError>>
           /\ warnings' = <<>> /\ slots' = slots
      /\ ~MergeFull(tables, l) =>
           /\ phase' = a.end /\ slots' = a.slots
           /\ warnings' = a.warnings /\ errors' = a.errors
  BY MergeChunkIs
<1>2. Setup /\ Forks /\ Arrivals /\ Merging /\ Sound(base) /\ NumFiles \in Nat
  BY SetupIs DEF IInv
<1>3. /\ c \in Chunks /\ ForkIs(work[c], c) /\ merged \in Nat
      /\ LastFile(merged) \in 0..NumFiles /\ LastFile(c) \in 0..NumFiles
      /\ Len(work[c].results) = LastFile(c) - LastFile(merged)
      /\ \A k \in 1..Len(work[c].results) :
           HandedOver(LastFile(merged) + k) = work[c].results[k]
  BY <1>1, NextChunk
<1>4. Forked(m) /\ Sound(m) /\ Sound(tables) /\ Extends(tables, m)
  <2>1. Forked(tables) /\ Forked(l)
    BY <1>2, <1>3 DEF Merging, ForkIs
  <2> QED BY <1>2, <2>1, MergeIs DEF Forked
<1>5. merged' \in 0..Len(arrived')
  BY <1>1, <1>2, <1>3 DEF Arrivals
<1>6. Forks'
  <2>1. \A e \in Chunks : ForkIs(work'[e], e) /\ ForkLock(work'[e], e)
    BY <1>1, <1>2 DEF Forks
  <2> QED BY <1>1, <1>2, <2>1, SameModule, SameFork DEF Forks
<1>7. Arrivals'
  BY <1>1, <1>2, SameModule DEF Arrivals, Distinct
<1>8. (Forked(tables) /\ Setup)'
  BY <1>1, <1>2, <1>4, SameModule, SameFork
<1> HIDE DEF m, a, l
<1>9. CASE MergeFull(tables, l)
  <2>1. Sequential.full
    BY <1>1, <1>9, FullIsFull DEF l
  <2>2. phase' = "diagnosed" /\ errors' = <<CapacityError>> /\ warnings' = <<>> /\ slots' = slots
    BY <1>1, <1>9
  <2>3. Kept(tables', slots', errors')
    <3>1. Kept(m, slots, errors)
      BY <1>2, <1>4, KeptExtends DEF Merging
    <3>2. CapacityError \in Errors /\ CapacityError.ids = <<>>
      BY DEF CapacityError, Errors
    <3>3. errors' \in Seq(Errors) /\ \A k \in 1..Len(errors') : errors'[k].ids = <<>>
      BY <2>2, <3>2
    <3> QED BY <1>1, <2>2, <3>1, <3>3 DEF Kept
  <2>4. Merging'
    <3>1. Kept(tables, slots, errors)'
      BY <1>1, <2>3, SameKept
    <3>2. (Range(warnings) \subseteq 1..NumFiles)'
      BY <2>2 DEF Range
    <3> QED BY <1>5, <1>8, <2>2, <3>1, <3>2 DEF Merging
  <2>5. Sequential'.full
    BY <1>1, <2>1, SameModule
  <2>6. (MergeIsSequential /\ AcceptanceIsPlanIndependent)'
    BY <2>2, <2>5 DEF MergeIsSequential, AcceptanceIsPlanIndependent
  <2> QED BY <1>6, <1>7, <1>8, <2>4, <2>6 DEF IInv
<1>10. CASE ~MergeFull(tables, l)
  <2> DEFINE R == NextResults(c)
             lo == LastFile(merged)
             hi == LastFile(c)
             n == Len(R)
  <2>1. Rewritten(m, lo, R) /\ n = hi - lo /\ Collected(m, lo, R, n, a)
    BY <1>1, <1>10, CollectNext DEF m, l, a
  <2>2. lo \in Nat /\ hi \in Nat /\ lo + n = hi /\ n \in Nat
    BY <1>2, <1>3, <2>1 DEF Rewritten
  <2>3. Tracks(hi, m)
    BY <1>1, <1>10, TracksNext DEF m, l
  <2> HIDE DEF R, lo, hi, n
  <2>4. /\ a \in CollectAccs /\ Kept(m, a.slots, a.errors) /\ Range(a.warnings) \subseteq 1..NumFiles
        /\ a.end # "fault"
        /\ a.end = "merging" => CollectedTo(hi, a.slots, a.warnings, a.errors)
        /\ a.end = "infrastructure" => \E j \in 1..n : R[j].ends = "infrastructure"
        /\ a.end \in {"merging", "infrastructure"}
    BY <2>1, <2>2 DEF Collected, CollectAccs
  <2>5. /\ phase' = a.end /\ slots' = a.slots /\ warnings' = a.warnings /\ errors' = a.errors
    BY <1>1, <1>10
  <2>6. Kept(tables, slots, errors)' /\ (Range(warnings) \subseteq 1..NumFiles)'
    BY <1>1, <2>4, <2>5, SameKept, SameModule
  <2>7. CASE a.end = "merging"
    <3>1. (CollectedTo(LastFile(merged), slots, warnings, errors) /\ Tracks(LastFile(merged), tables))'
      <4>1. LastFile(merged)' = hi
        BY <1>1, SameModule DEF LastFile, hi
      <4>2. CollectedTo(hi, slots', warnings', errors') /\ Tracks(hi, tables')
        BY <1>1, <2>3, <2>4, <2>5, <2>7
      <4> QED BY <1>1, <4>1, <4>2, SameCollected
    <3>2. phase' = "merging"
      BY <2>5, <2>7
    <3>3. Merging'
      BY <1>5, <1>8, <2>6, <3>1, <3>2 DEF Merging
    <3>4. (MergeIsSequential /\ AcceptanceIsPlanIndependent)'
      BY <3>2 DEF MergeIsSequential, AcceptanceIsPlanIndependent, Ended
    <3> QED BY <1>6, <1>7, <1>8, <3>3, <3>4 DEF IInv
  <2>8. CASE a.end = "infrastructure"
    <3>1. phase' = "infrastructure"
      BY <2>5, <2>8
    <3>2. Merging'
      BY <1>5, <1>8, <2>6, <3>1 DEF Merging
    <3>3. PICK j \in 1..n : R[j].ends = "infrastructure"
      BY <2>4, <2>8
    <3>4. R[j].ends = HandedOver(lo + j).ends /\ lo + j \in 1..NumFiles
      BY <1>2, <2>1, <2>2, <3>3 DEF Rewritten, n
    <3>5. hi \in 0..NumFiles /\ lo + j \in 1..hi
      BY <1>2, <1>3, <2>2 DEF hi
    <3>6. ~Sequential.full => ~Sequentially[hi].full
      <4>1. hi \in 0..NumFiles /\ NumFiles \in 0..NumFiles /\ module \in Modules
        BY <1>2, <3>5 DEF Setup
      <4> QED BY <1>2, <4>1, SequentialGrows DEF Sequential
    <3>7. ~Sequential.full => module.files[lo + j].ends = "infrastructure"
      BY <2>3, <3>3, <3>4, <3>5, <3>6 DEF Tracks
    <3>8. ~Sequential.full => \E i \in 1..NumFiles : module.files[i].ends = "infrastructure"
      BY <3>4, <3>7
    <3>9. module' = module /\ NumFiles' = NumFiles /\ Sequential' = Sequential
      BY <1>1, SameModule DEF Same
    <3>10. (MergeIsSequential /\ AcceptanceIsPlanIndependent)'
      BY <3>1, <3>8, <3>9 DEF MergeIsSequential, AcceptanceIsPlanIndependent
    <3> QED BY <1>6, <1>7, <1>8, <3>2, <3>10 DEF IInv
  <2> QED BY <2>4, <2>7, <2>8
<1> QED BY <1>9, <1>10

-----------------------------------------------------------------------------
(***************************************************************************)
(* The end of the merge.                                                   *)
(***************************************************************************)

(* retain_within_module_error_allowance keeps a prefix.                    *)
LEMMA WithinAllowanceIs ==
    ASSUME NEW V, NEW e \in Seq(V)
    PROVE  LET x == WithinAllowance(e)
           IN /\ x \in Seq(V) /\ Len(x) <= Len(e) /\ \A k \in 1..Len(x) : x[k] = e[k]
              /\ ErrorAllowance # 0 => Len(x) <= ErrorAllowance
              /\ Len(x) # Len(e) => Len(x) = ErrorAllowance
<1> DEFINE x == WithinAllowance(e)
           n == AtMost(ErrorAllowance, Len(e))
<1>1. ErrorAllowance \in Nat /\ Len(e) \in Nat
  BY FilePreparationAssumption DEF FilePreparationAssumption
<1>2. CASE ErrorAllowance = 0
  <2>1. x = e
    BY <1>2 DEF WithinAllowance
  <2> QED BY <1>1, <1>2, <2>1
<1>3. CASE ErrorAllowance # 0
  <2>1. x = SubSeq(e, 1, n)
    BY <1>3 DEF WithinAllowance
  <2>2. /\ n \in Nat /\ n <= Len(e) /\ n <= ErrorAllowance
        /\ n # Len(e) => n = ErrorAllowance
    BY <1>1 DEF AtMost
  <2> HIDE DEF n, x
  <2>3. x \in Seq(V) /\ Len(x) = n /\ \A k \in 1..n : x[k] = e[k]
    BY <1>1, <2>1, <2>2
  <2> QED BY <2>2, <2>3 DEF x
<1> QED BY <1>2, <1>3

(* The errors that are kept are the first ones of the files that failed.   *)
LEMMA FirstErrors ==
    ASSUME NEW e \in Seq(Errors), NEW F, Reported(e) = F, RisingFiles(e), NEW x, x = WithinAllowance(e)
    PROVE  LET reported == [k \in DOMAIN x |-> x[k].file]
           IN /\ Ascending(reported) /\ Range(reported) \subseteq F
              /\ ErrorAllowance # 0 => Len(reported) <= ErrorAllowance
              /\ \A i \in F \ Range(reported) :
                   /\ Len(reported) = ErrorAllowance
                   /\ \A k \in DOMAIN reported : reported[k] < i
<1> DEFINE reported == [k \in DOMAIN x |-> x[k].file]
           n == Len(x)
<1>1. /\ x \in Seq(Errors) /\ n <= Len(e) /\ \A k \in 1..n : x[k] = e[k]
      /\ ErrorAllowance # 0 => n <= ErrorAllowance
      /\ n # Len(e) => n = ErrorAllowance
  BY WithinAllowanceIs
<1>2. n \in Nat /\ DOMAIN x = 1..n /\ Len(e) \in Nat
  BY <1>1
<1>3. /\ DOMAIN reported = 1..n /\ \A k \in 1..n : reported[k] = e[k].file
  BY <1>1, <1>2
<1>4. Len(reported) = n
  <2>1. ASSUME NEW k \in 1..n PROVE e[k].file \in Nat
    <3>1. k \in 1..Len(e)
      BY <1>1, <1>2
    <3>2. e[k] \in Errors
      BY <3>1
    <3> QED BY <3>2 DEF Errors
  <2> HIDE DEF n
  <2>2. reported = [k \in 1..n |-> reported[k]]
    BY <1>3
  <2> HIDE DEF reported
  <2>3. reported \in Seq(Nat)
    BY <1>2, <1>3, <2>1, <2>2
  <2> QED BY <1>2, <1>3, <2>3
<1> HIDE DEF reported, n
<1>5. Ascending(reported)
  BY <1>1, <1>2, <1>3 DEF Ascending, RisingFiles
<1>6. Range(reported) \subseteq F
  BY <1>1, <1>2, <1>3 DEF Range, Reported
<1>7. ASSUME NEW i \in F \ Range(reported)
      PROVE  n = ErrorAllowance /\ \A k \in 1..n : reported[k] < i
  <2>1. PICK j \in 1..Len(e) : e[j].file = i
    BY <1>7 DEF Reported
  <2>2. ~(j \in 1..n)
    BY <1>3, <1>7, <2>1 DEF Range
  <2>3. n < j /\ n # Len(e)
    BY <1>1, <1>2, <2>1, <2>2
  <2>4. ASSUME NEW k \in 1..n PROVE reported[k] < i
    <3>1. k \in 1..Len(e) /\ k < j
      BY <1>1, <1>2, <2>3
    <3> QED BY <1>3, <2>1, <3>1 DEF RisingFiles
  <2> QED BY <1>1, <2>3, <2>4
<1> QED BY <1>1, <1>3, <1>4, <1>5, <1>6, <1>7 DEF reported

(* The errors within the allowance, then the headers.                      *)
LEMMA ConcludeInvariant ==
    ASSUME IInv, Conclude
    PROVE  IInv'
<1>1. /\ Same /\ work' = work /\ arrived' = arrived /\ merged' = merged /\ tables' = tables
      /\ slots' = slots /\ warnings' = warnings /\ phase = "merging" /\ merged = Len(arrived)
  BY DEF Conclude, Same
<1>2. Setup /\ Forks /\ Arrivals /\ Merging /\ NumFiles \in Nat
      /\ \A i \in 1..NumFiles : module.files[i] \in AFile
  BY SetupIs DEF IInv
<1>3. LastFile(merged) = NumFiles
  BY <1>1, <1>2, PlanIs DEF Arrivals, Setup
<1>4. CollectedTo(NumFiles, slots, warnings, errors) /\ Tracks(NumFiles, tables)
      /\ Kept(tables, slots, errors) /\ Range(warnings) \subseteq 1..NumFiles
  BY <1>1, <1>2, <1>3 DEF Merging
<1>5. Forks'
  <2>1. \A e \in Chunks : ForkIs(work'[e], e) /\ ForkLock(work'[e], e)
    BY <1>1, <1>2 DEF Forks
  <2> QED BY <1>1, <1>2, <2>1, SameModule, SameFork DEF Forks
<1>6. Arrivals'
  BY <1>1, <1>2, SameModule DEF Arrivals, Distinct
<1>7. Setup' /\ Forked(tables)' /\ (merged \in 0..Len(arrived))' /\ (Range(warnings) \subseteq 1..NumFiles)'
  BY <1>1, <1>2, <1>4, SameModule, SameFork DEF Merging
<1>8. module' = module /\ NumFiles' = NumFiles /\ Sequential' = Sequential
  BY <1>1, SameModule DEF Same
<1> DEFINE Failed == {i \in 1..NumFiles : module.files[i].ends = "diagnosed"}
           Warns == {i \in 1..NumFiles : module.files[i].warns}
           Fits == ~Sequential.full
           AllOk == \A i \in 1..NumFiles : module.files[i].ends = "ok"
           Broken == \E i \in 1..NumFiles : module.files[i].ends = "infrastructure"
<1>9. /\ Ascending(warnings) /\ Range(warnings) = Warns /\ RisingFiles(errors)
      /\ errors \in Seq(Errors)
      /\ Reported(errors) = {i \in 1..NumFiles : HandedOver(i).ends = "diagnosed"}
      /\ \A i \in 1..NumFiles : HandedOver(i).ends # "infrastructure"
  BY <1>4 DEF CollectedTo, Kept
<1>10. Fits => /\ tables = Sequential.tables
               /\ \A i \in 1..NumFiles : HandedOver(i).ends = module.files[i].ends
  BY <1>4 DEF Tracks, Sequential
<1>11. Fits => Reported(errors) = Failed /\ ~Broken
  <2> SUFFICES ASSUME Fits PROVE Reported(errors) = Failed /\ ~Broken
    OBVIOUS
  <2> HIDE DEF Fits
  <2> QED BY <1>9, <1>10
<1>12. CASE errors # <<>>
  <2>1. phase' = "diagnosed" /\ errors' = WithinAllowance(errors)
    BY <1>12 DEF Conclude
  <2>2. /\ errors' \in Seq(Errors) /\ Len(errors') <= Len(errors)
        /\ \A k \in 1..Len(errors') : errors'[k] = errors[k]
    BY <1>9, <2>1, WithinAllowanceIs
  <2>3. Kept(tables', slots', errors')
    <3>1. Len(errors) \in Nat /\ Len(errors') \in Nat
      BY <1>9, <2>2
    <3>2. \A k \in 1..Len(errors') : k \in 1..Len(errors)
      BY <2>2, <3>1
    <3> QED BY <1>1, <1>4, <2>2, <3>2 DEF Kept
  <2>4. Merging'
    <3>1. Kept(tables, slots, errors)'
      BY <1>1, <2>3, SameKept
    <3> QED BY <1>7, <2>1, <3>1 DEF Merging
  <2>5. Fits => ~AllOk
    <3> SUFFICES ASSUME Fits PROVE ~AllOk
      OBVIOUS
    <3>1. 1 \in 1..Len(errors)
      BY <1>9, <1>12
    <3>2. errors[1].file \in Failed
      <4> HIDE DEF Failed
      <4> QED BY <1>11, <3>1 DEF Reported
    <3> QED BY <3>2
  <2>6. AcceptanceIsPlanIndependent'
    BY <1>8, <1>11, <2>1, <2>5 DEF AcceptanceIsPlanIndependent
  <2> DEFINE reported == [k \in DOMAIN errors' |-> errors'[k].file]
  <2>7. Fits => /\ Ascending(reported) /\ Range(reported) \subseteq Failed
                /\ ErrorAllowance # 0 => Len(reported) <= ErrorAllowance
                /\ \A i \in Failed \ Range(reported) :
                     /\ Len(reported) = ErrorAllowance
                     /\ \A k \in DOMAIN reported : reported[k] < i
    <3> SUFFICES ASSUME Fits PROVE
                /\ Ascending(reported) /\ Range(reported) \subseteq Failed
                /\ ErrorAllowance # 0 => Len(reported) <= ErrorAllowance
                /\ \A i \in Failed \ Range(reported) :
                     /\ Len(reported) = ErrorAllowance
                     /\ \A k \in DOMAIN reported : reported[k] < i
      OBVIOUS
    <3>1. Reported(errors) = Failed
      BY <1>11
    <3> HIDE DEF Failed
    <3> QED BY <1>9, <2>1, <3>1, FirstErrors
  <2>8. MergeIsSequential'
    <3> HIDE DEF reported
    <3> QED BY <1>1, <1>8, <1>9, <1>10, <2>1, <2>7 DEF MergeIsSequential, reported
  <2> QED BY <1>5, <1>6, <1>7, <2>4, <2>6, <2>8 DEF IInv
<1>13. CASE errors = <<>>
  <2>1. Reported(errors) = {}
    BY <1>13 DEF Reported
  <2>2. \A i \in 1..NumFiles : HandedOver(i).ends # "diagnosed"
    BY <1>9, <2>1
  <2>3. Fits
    BY <1>4, <1>9, <2>2 DEF Tracks, Sequential, Failures
  <2>4. \A i \in 1..NumFiles : module.files[i].ends = "ok" /\ HandedOver(i).ends = "ok"
    <3> SUFFICES ASSUME NEW i \in 1..NumFiles
                 PROVE  module.files[i].ends = "ok" /\ HandedOver(i).ends = "ok"
      OBVIOUS
    <3>1. module.files[i].ends \in {"ok", "diagnosed", "infrastructure"}
      BY <1>2 DEF AFile, File
    <3> QED BY <1>9, <1>10, <2>2, <2>3, <3>1
  <2>5. \A i \in 1..NumFiles : slots[i] # <<>>
    BY <1>2, <1>4, <2>4 DEF CollectedTo
  <2>6. module.headers \in {"ok", "diagnosed", "infrastructure"}
    BY <1>2, FilesOf DEF Setup, Module
  <2>7. phase' = IF module.headers = "ok" THEN "accepted" ELSE module.headers
    BY <1>13, <2>5 DEF Conclude
  <2>8. errors' = IF phase' = "diagnosed" THEN <<HeaderError>> ELSE WithinAllowance(errors)
    BY <1>13 DEF Conclude
  <2>9. errors' \in Seq(Errors) /\ \A k \in 1..Len(errors') : errors'[k].ids = <<>>
    <3>1. CASE phase' = "diagnosed"
      <4>1. HeaderError \in Errors /\ HeaderError.ids = <<>>
        BY <1>2 DEF HeaderError, Errors
      <4> QED BY <2>8, <3>1, <4>1
    <3>2. CASE phase' # "diagnosed"
      <4>1. errors' \in Seq(Errors) /\ Len(errors') <= Len(errors)
        BY <1>9, <2>8, <3>2, WithinAllowanceIs
      <4>2. Len(errors) = 0
        BY <1>13
      <4> QED BY <4>1, <4>2
    <3> QED BY <3>1, <3>2
  <2>10. Kept(tables', slots', errors')
    BY <1>1, <1>4, <2>9 DEF Kept
  <2>11. Merging'
    <3>1. Kept(tables, slots, errors)'
      BY <1>1, <2>10, SameKept
    <3>2. phase' \in {"accepted", "diagnosed", "infrastructure"}
      BY <2>6, <2>7
    <3> QED BY <1>7, <3>1, <3>2 DEF Merging
  <2>12. Failed = {}
    BY <2>4
  <2>13. MergeIsSequential'
    <3> HIDE DEF Warns
    <3> QED BY <1>1, <1>8, <1>9, <1>10, <2>3, <2>12 DEF MergeIsSequential, Warns
  <2>14. AcceptanceIsPlanIndependent'
    BY <1>8, <1>11, <2>3, <2>4, <2>6, <2>7 DEF AcceptanceIsPlanIndependent
  <2> QED BY <1>5, <1>6, <1>7, <2>11, <2>13, <2>14 DEF IInv
<1> QED BY <1>12, <1>13

(* A step that changes nothing.                                            *)
LEMMA StutterInvariant ==
    ASSUME IInv, UNCHANGED vars
    PROVE  IInv'
<1>1. /\ Same /\ work' = work /\ arrived' = arrived /\ merged' = merged /\ tables' = tables
      /\ slots' = slots /\ warnings' = warnings /\ phase' = phase /\ errors' = errors
  BY DEF vars, Same
<1>2. Setup /\ Forks /\ Arrivals /\ Merging /\ MergeIsSequential /\ AcceptanceIsPlanIndependent
  BY DEF IInv
<1>3. Forks'
  <2>1. \A e \in Chunks : ForkIs(work'[e], e) /\ ForkLock(work'[e], e)
    BY <1>1, <1>2 DEF Forks
  <2> QED BY <1>1, <1>2, <2>1, SameModule, SameFork DEF Forks
<1>4. Arrivals'
  BY <1>1, <1>2, SameModule DEF Arrivals, Distinct
<1>5. Merging'
  <2>1. Kept(tables, slots, errors)' /\ Forked(tables)'
    <3>1. Kept(tables', slots', errors') /\ Forked(tables')
      BY <1>1, <1>2 DEF Merging
    <3> QED BY <1>1, <3>1, SameFork, SameKept
  <2>2. phase = "merging" =>
          (CollectedTo(LastFile(merged), slots, warnings, errors) /\ Tracks(LastFile(merged), tables))'
    <3> SUFFICES ASSUME phase = "merging"
                 PROVE  (CollectedTo(LastFile(merged), slots, warnings, errors)
                           /\ Tracks(LastFile(merged), tables))'
      OBVIOUS
    <3>1. LastFile(merged)' = LastFile(merged)
      BY <1>1, SameModule DEF LastFile
    <3>2. CollectedTo(LastFile(merged), slots', warnings', errors') /\ Tracks(LastFile(merged), tables')
      BY <1>1, <1>2 DEF Merging
    <3> QED BY <1>1, <3>1, <3>2, SameCollected
  <2> QED BY <1>1, <1>2, <2>1, <2>2, SameModule DEF Merging, Same
<1>6. MergeIsSequential'
  BY <1>1, <1>2, SameModule DEF MergeIsSequential, Same
<1>7. AcceptanceIsPlanIndependent'
  BY <1>1, <1>2, SameModule DEF AcceptanceIsPlanIndependent, Ended, Same
<1> QED BY <1>1, <1>2, <1>3, <1>4, <1>5, <1>6, <1>7, SameModule DEF IInv

(* The inductive invariant of the preparation: every worker goes through   *)
(* its files in step with the sequential run from the start of its chunk,  *)
(* and the merge has collected the first chunks of the plan as the         *)
(* sequential run leaves them, whatever order the workers finished in.     *)
THEOREM Invariance == Spec => []IInv
<1>1. Init => IInv
  BY InitInvariant
<1>2. IInv /\ [Next]_vars => IInv'
  <2> SUFFICES ASSUME IInv, [Next]_vars PROVE IInv'
    OBVIOUS
  <2>1. CASE \E c \in Chunks : PrepareFile(c)
    BY <2>1, PrepareFileInvariant
  <2>2. CASE \E c \in Chunks : Arrive(c)
    BY <2>2, ArriveInvariant
  <2>3. CASE Joined
    BY <2>3, JoinedInvariant
  <2>4. CASE MergeChunk
    BY <2>4, MergeChunkInvariant
  <2>5. CASE Conclude
    BY <2>5, ConcludeInvariant
  <2>6. CASE Done
    BY <2>6, StutterInvariant DEF Done
  <2>7. CASE UNCHANGED vars
    BY <2>7, StutterInvariant
  <2> QED BY <2>1, <2>2, <2>3, <2>4, <2>5, <2>6, <2>7 DEF Next
<1> QED BY <1>1, <1>2, PTL DEF Spec

(* The types of the preparation's state, among them that a path table      *)
(* never addresses more nodes than PathCapacity: try_intern_child refuses  *)
(* the first one too many, in the workers' forks and in the merge.         *)
THEOREM TypeCorrect == Spec => []TypeOK
<1>1. IInv => TypeOK
  <2> SUFFICES ASSUME IInv PROVE TypeOK
    OBVIOUS
  <2>1. Setup /\ Forks /\ Arrivals /\ Merging
    BY DEF IInv
  <2>2. Range(arrived) \subseteq Chunks
    BY <2>1 DEF Arrivals, Range
  <2>3. Len(tables.paths) <= PathCapacity
    BY <2>1, SoundParts, Capacity DEF Merging, Forked
  <2> QED BY <2>1, <2>2, <2>3 DEF Setup, Forks, Merging, Kept, TypeOK
<1> QED BY <1>1, Invariance, PTL

(* At every point of merge_file_preparation_chunks, each id in a merged    *)
(* output or in a diagnostic stands in the module's tables for what its    *)
(* file wrote: rewriting a chunk's ids through its remaps, skipping a      *)
(* remap that is the identity, and leaving a retained file's ids alone are *)
(* right for any modules, plans and orders in which the workers finish.    *)
THEOREM OutputsResolve == Spec => []IdsResolve
<1>1. IInv => IdsResolve
  <2> SUFFICES ASSUME IInv PROVE IdsResolve
    OBVIOUS
  <2>1. Kept(tables, slots, errors)
    BY DEF IInv, Merging
  <2>2. ASSUME NEW i \in 1..NumFiles, slots[i] # <<>>
        PROVE  /\ Len(slots[i][1]) = Len(module.files[i].writes)
               /\ \A j \in DOMAIN slots[i][1] :
                    StandsFor(tables, module.files[i].writes[j], slots[i][1][j])
    <3>1. /\ Len(slots[i]) = 1 /\ Len(slots[i][1]) = Len(module.files[i].writes)
          /\ Resolves(tables, module.files[i].writes, slots[i][1]) /\ slots[i] \in Seq(Seq(Nat))
      BY <2>1, <2>2 DEF Kept
    <3>2. DOMAIN slots[i][1] = 1..Len(slots[i][1])
      BY <3>1
    <3> QED BY <3>1, <3>2 DEF Resolves
  <2>3. ASSUME NEW k \in DOMAIN errors, NEW j \in DOMAIN errors[k].ids
        PROVE  StandsFor(tables, module.files[errors[k].file].writes[j], errors[k].ids[j])
    <3>1. k \in 1..Len(errors) /\ errors[k].ids \in Seq(Nat)
      <4>1. errors \in Seq(Errors)
        BY <2>1 DEF Kept
      <4>2. k \in 1..Len(errors) /\ errors[k] \in Errors
        BY <2>3, <4>1
      <4> QED BY <4>2 DEF Errors
    <3>2. j \in 1..Len(errors[k].ids) /\ errors[k].ids # <<>>
      BY <2>3, <3>1
    <3> QED BY <2>1, <3>1, <3>2 DEF Kept, Resolves
  <2> QED BY <2>2, <2>3 DEF IdsResolve
<1> QED BY <1>1, Invariance, PTL

(* For any split of the files and any order in which the workers finish,   *)
(* the merged tables of a module whose paths fit are those of one worker   *)
(* going through the files in order, its warnings are in file order, and   *)
(* retain_within_module_error_allowance keeps the first errors in file     *)
(* order.                                                                  *)
THEOREM SplittingNeverShows == Spec => []MergeIsSequential
<1>1. IInv => MergeIsSequential
  BY DEF IInv
<1> QED BY <1>1, Invariance, PTL

(* For any split of the files, a module is accepted exactly when all its   *)
(* files and headers are and its paths fit in one table; while they fit,   *)
(* it is an infrastructure failure exactly when a file is one, or the      *)
(* headers are of files that are all accepted; and none of the merge's     *)
(* consistency checks fires.                                               *)
THEOREM AcceptanceStable == Spec => []AcceptanceIsPlanIndependent
<1>1. IInv => AcceptanceIsPlanIndependent
  BY DEF IInv
<1> QED BY <1>1, Invariance, PTL

=============================================================================
